SPECIFICATION FairSpec
CONSTANTS
    MAXPROC = 3
    MaxPid = 3
    MaxTicks = 1
    KillIds = {2}
PROPERTIES
    RunnableRuns
    KilledExits
