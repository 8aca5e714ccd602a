SPECIFICATION Spec
CONSTANTS
    plain = plain
    Keys = {a, b}
    Chains = {0, 1}
    Bodies = {x}
    Slots = {s1}
    Objects = {o}
    Words = {0, 37}
    Messages <- MCMessages
    MaxCalls = 2
    MaxEdits = 2
SYMMETRY Symmetric
INVARIANTS TypeOK RecoveredWasSigned MessageWasSigned SignedTravels RelayKeepsMeaning
CHECK_DEADLOCK FALSE
