SPECIFICATION Spec
CONSTANTS
    d1 = d1
    d2 = d2
    w1 = w1
    w2 = w2
    Codes = {d1, d2}
    WordHalves = {w1, w2}
    NoDigits = NoDigits
    ErasedDigits = ErasedDigits
    NoWords = NoWords
    ErasedWords = ErasedWords
    None = None
    ByteMax = 7
    PIN_CODE_MAX_RETRY_COUNT = 3
    WaitBits = 3
    MaxWasted = 6
    PowerFailsDuringSave = TRUE
    PinCodes <- MCPinCodes
    Mnemonics <- MCMnemonics
INVARIANT
    ShowsOwnersMnemonic
