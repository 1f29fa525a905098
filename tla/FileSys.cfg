SPECIFICATION Spec
CONSTANTS
    Procs = {p1, p2}
    NumInodes = 6
    NUMINODE = 4
    NUMFILE = 3
    NFILE = 7
    Calls <- MCCalls
    Turns = 3
    None = None
INVARIANTS
    
    CopiesCoherent
    LinksCover
    OnlyKnownPanics
SYMMETRY Symmetry
