SPECIFICATION Spec
CONSTANTS
    Seeds = {1, 2}
    SecretStrings <- MCSecretStrings
    PublicStrings <- MCPublicStrings
    Messages <- MCMessages
    AppContexts <- MCAppContexts
    LongContexts <- MCLongContexts
    LibraryForms <- MCLibraryForms
    Order = 3
    MinScalarSize = 24
    SeedScalar <- MCSeedScalar
    MaxKeys = 2
    MaxSignatures = 2
INVARIANTS AcceptedAsSigned WhatSignsVerifies SignaturesTellContexts
    EqualKeysVerifyAlike KeysSurviveBytes
CHECK_DEADLOCK FALSE
