SPECIFICATION FairSpec
CONSTANTS
    Procs = {p1, p2, p3}
    Readers = {p1}
    Writers = {p2, p3}
    PIPESIZE = 2
    Turns = 2
    Bytes = {0, 1}
    MaxCount = 2
    MayKill = {p1}
INVARIANTS
    SleepersBlocked
    FreedUnused
PROPERTIES
    ImplementsChannel
    ReadersReturn
CHECK_DEADLOCK FALSE
