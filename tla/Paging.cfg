SPECIFICATION Spec
CONSTANTS
    PGESIZE = 4
    mem_end = 700
    PHYSTOP = 820
    MAXVA = 1023
    Procs = {p1, p2}
    VPN = 16
    KernelPages = 2
    Images <- MCImages
    Increments <- MCIncrements
    MaxSize = 64
    MaxLate = 2
    Turns = 5
INVARIANTS
    PageOneUse
    SizeMapped
    PanicsExplained
 
