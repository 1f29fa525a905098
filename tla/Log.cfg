SPECIFICATION FairSpec
CONSTANTS
    Procs = {p1, p2}
    LOGSIZE = 4
    MAXLOGOPS = 2
    OpBlocks = 1
    NumLog = 4
    FsSize = 8
    Values = {0, 1}
INVARIANTS
    DirtyIsLogged
    CommitAlone
    NeverPanics
PROPERTIES
    CommitAtomic
    SleeperWakes
