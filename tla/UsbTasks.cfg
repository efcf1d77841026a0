SPECIFICATION Spec
CONSTANTS
    Symbols <- MCSymbols
    Writers <- MCWriters
    Received <- MCReceived
    Tests <- MCTests
    HostText <- MCHostText
    CR = "r"
    LF = "n"
    Nul = "0"
    TxQueue = 2
    RxQueue = 2
    TxBuf = 2
    RxBuf = 3
    Packet = 3
    NoChar = "m"
    MaxResets = 1
    MaxTimeouts = 1
    Buffer = 3
INVARIANTS
    EachWriterInOrder
    AnswersEachLine
PROPERTIES
    OutgoingIsALine
    IncomingIsALine
    AllArrives
CHECK_DEADLOCK FALSE
