SPECIFICATION FairSpec
CONSTANTS
    Readers = {r1, r2}
    Writers = {w}
    MayKill = {r1}
    INPUT_BUF = 3
    UART_TX_BUF_SIZE = 2
    Range32 = 6
    Starts = {5}
    Keys = {"a", "return", "eof", "kill", "delete", "dump"}
    Counts = {2}
    NumDump = 1
    MaxKeys = 4
    Turns = 1
    None = None
PROPERTIES
    ImplementsTerminal
    InputDelivered
    OutputDrains
