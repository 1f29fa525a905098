SPECIFICATION Spec
CONSTANTS
    Procs = {p1}
    LOGSIZE = 4
    MAXLOGOPS = 3
    OpBlocks = 2
    NumLog = 4
    FsSize = 6
    Values = {0, 1}
PROPERTY RecoveryKeeps
