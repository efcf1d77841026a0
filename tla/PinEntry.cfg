SPECIFICATION FairSpec
CONSTANTS
    Keys = 10
    Multiplier = 109
    Increment = 57
    Modulus = 256
    Limit = 250
    MinLength = 1
    MaxLength = 1
INVARIANTS
    PadHoldsEveryDigit
    GivenAsTyped
PROPERTY
    PadIsFinished
