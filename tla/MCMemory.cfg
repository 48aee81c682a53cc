SPECIFICATION MemSpec
CONSTANTS
    Proc = {p1, p2, p3}
    NULL = NULL
    BLOCK = 4
    TOTAL = 34
    BITMAP = 5
    Maps <- SmallMaps
    COPIED = 4
    Image <- KernelImage
    PER = 4
    STEP = 2
    HEAPTABLES = 1
    VMTABLES = 3
    DMABLOCKS = 2
    FATPAGES = 2
    MaxHeap = 4
SYMMETRY ProcSymmetry
CHECK_DEADLOCK FALSE
INVARIANTS
    FrameHasOneUse
    KernelShared
    CountersMatch
