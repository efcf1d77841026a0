SPECIFICATION TypingSpec
CONSTANTS
    Alphabet = 5
    Longest = 3
    List <- MCList
    Missing = {3}
    Lengths = {1, 2}
    ValidMnemonics <- MCValid
    CountWrap = 16
    Invalid = 15
INVARIANTS
    TypedBeginsWord
    ScreenShowsTyped
    ConfirmsTypedWord
PROPERTIES
    KeyboardDiesByBackspace
    ImplementsDialog
    EveryWordCanBeTyped
CHECK_DEADLOCK FALSE
