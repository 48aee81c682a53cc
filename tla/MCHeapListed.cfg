SPECIFICATION HeapSpec
CONSTANTS
    NULL = NULL
    HEADER = 1
    MINSPLIT = 1
    PAGE = 6
    HEAPEND = 14
    MaxEntries = 3
    Sizes = {1, 4}
    START = 100
    AtLow <- LowMemory
INVARIANTS
    FreeBlocksAreListed
