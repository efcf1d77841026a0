SPECIFICATION SpecAll
CONSTANTS
    Alphabet = 2
    Longest = 3
    WordLists <- MCWordLists
    Texts <- MCTexts
    IndexMax = 15
    Codings <- MCCodings
    List <- MCList
    MaxText = 8
    AllTo = 3
INVARIANTS
    ReadsInsideList
    FindsWord
    ParsesTokens
    SameBits
    ChecksumIsBip39
PROPERTY
    SearchEnds
CHECK_DEADLOCK FALSE
