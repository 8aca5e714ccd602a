SPECIFICATION Spec
CONSTANTS
    Base = 3
    FieldPrimeLE <- MCFieldPrimeLE
    D = 7
    L = 7
    Generator <- MCGenerator
    ScalarValues <- MCScalarValues
INVARIANTS OneEncoding MadeVerifies OneScalar OneChallenge
CHECK_DEADLOCK FALSE
