SPECIFICATION Spec
CONSTANTS
    P = 23
    B = 15
    Order = 17
    Generator <- MCGenerator
    Handles = {h1, h2}
    Seeds = {seed}
    DigestValues = {0, 3}
    SecretNumbers = {0, 5, 17}
    RandomScalars = {4, 16}
    Hashes = {0, 6}
    Nonces = {2, 3, 5, 7}
    MaxCounter = 2
    MaxCalls = 4
INVARIANTS DerivedAsSpecified SignsAsOwner SignedVerifies OneS
PROPERTIES DeriveReturns
CHECK_DEADLOCK FALSE
