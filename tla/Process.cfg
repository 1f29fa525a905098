SPECIFICATION Spec
CONSTANTS
    MAXPROC = 3
    MaxPid = 4
    MaxTicks = 1
    KillIds = {0, 3}
INVARIANTS
    RunningIsCurrent
    NoLostWakeup
    PidsUnique
PROPERTY IdentityStable
