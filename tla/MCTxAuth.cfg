SPECIFICATION Spec
CONSTANTS
    plain = plain
    Keys = {a, b}
    Chains = {0, 1}
    Bodies = {x}
    Slots = {s1, s2}
    Objects = {o, q}
    Words = {0}
    Messages <- MCPreimages
    MaxCalls = 2
    MaxEdits = 1
SYMMETRY Symmetric
PROPERTIES AuthSpec
CHECK_DEADLOCK FALSE
