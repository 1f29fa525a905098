SPECIFICATION FairSpec
CONSTANTS
    Procs = {p1, p2, p3}
    NUM = 7
    Turns = 2
    None = None
INVARIANTS
    ChainsPartition
    CompletionsMatch
PROPERTIES
    RequestEnds
    AllocRetries
