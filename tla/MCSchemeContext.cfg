SPECIFICATION Spec
CONSTANTS
    Seeds = {1, 2}
    SecretStrings <- MCSecretStrings
    PublicStrings <- MCPublicStrings
    Messages <- MCMessages
    AppContexts <- MCAppContexts
    LongContexts <- MCLongContexts
    LibraryForms <- MCLibraryForms
    Order = 3
    MinScalarSize = 24
    SeedScalar <- MCSeedScalar
    MaxKeys = 1
    MaxSignatures = 1
INVARIANT UnsupportedContextFails
CHECK_DEADLOCK FALSE
