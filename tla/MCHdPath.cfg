SPECIFICATION TextSpec
CONSTANTS
    Radix = 2
    HardenedBit = 4
    Characters <- MCCharacters
    MaxLength = 6
INVARIANTS ReadAsDocumented AcceptedIsDecorated AcceptedDerives
CHECK_DEADLOCK FALSE
