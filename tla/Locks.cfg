SPECIFICATION Spec
CONSTANTS
    Harts = {h0, h1}
    Timer = h0
    NPROC = 2
    None = None
INVARIANTS
    MutualExclusion
    NeverPanics
    IntrRestored
    LockOrder
