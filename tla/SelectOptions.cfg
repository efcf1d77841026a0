SPECIFICATION Spec
CONSTANTS
    Callers <- MCCallers
    Columns = 16
    ColumnWrap = 32
    Erased = 15
INVARIANTS
    ShowsTheOption
