SPECIFICATION Spec
CONSTANTS
    Procs = {p1, p2}
    f1 = f1
    f2 = f2
    h1 = h1
    h2 = h2
    h3 = h3
    Inodes = {f1, f2}
    Handles = {h1, h2, h3}
    inode <- MCinode
    NDIRECT = 1
    NINDIRECT = 2
    BUFFER_SIZE = 2
    BYTE = 2
    FSSIZE = 14
    Image <- MCImage
    Used = 3
    MaxBytes = 2
    Counts = {3}
    Turns = 4
    None = None
SYMMETRY Symmetry
INVARIANTS
    StopsOnlyWhenFull
PROPERTIES
    ImplementsFiles
    LosesOnlyIndirect
