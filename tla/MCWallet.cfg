SPECIFICATION Spec
CONSTANTS
    Handles = {h1, h2}
    Words = {m1}
    TypedPhrases <- MCTypedPhrases
    Passphrases = {p1, p2}
    Halves = {x, y}
    Indices = {0, 63, 64, 127}
    Radix = 10
    HardenedBit = 64
    Messages = {note1, note2}
    Chains <- MCChains
    Bodies = {body}
    MaxCalls = 4
INVARIANTS KeysConsistent AccountsDistinct AddressFixesSeed BackupRestores
    ShownAddressIsRecovered MessagesProveAccounts
CHECK_DEADLOCK FALSE
