SPECIFICATION FairSpec
CONSTANTS
    Procs = {p1, p2}
    NUMBUF = 2
    Blocks = {1, 2, 3}
    Values = {0, 1}
    MaxHeld = 2
    MaxPinned = 1
    None = None
INVARIANTS
    CountsUsers
    ReadsLatest
PROPERTY SleeperWakes
CHECK_DEADLOCK FALSE
