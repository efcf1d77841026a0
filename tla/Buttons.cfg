SPECIFICATION ButtonsSpec
CONSTANTS
    Debounce = 2
    Timeout = 6
    Bounce = 2
    Hold = 12
    Busy = 4
INVARIANTS
    ReportedOnce
PROPERTY
    NoPressLost
