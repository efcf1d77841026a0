SPECIFICATION Spec
CONSTANTS
    ByteBits = 2
    Size = 4
    Modulus = 251
    ComplementSize = 2
    Operations = {"bigMultiply"}
    Operands <- Reduced
INVARIANTS UpperIsZero
CHECK_DEADLOCK FALSE
