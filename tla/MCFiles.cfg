SPECIFICATION FilesSpec
CONSTANTS
    Client = {c1, c2, c3}
    Disk <- TestDisk
    RESERVED = 1
    FATSIZE = 2
    COPIES = 1
    ROOTSIZE = 2
    ENTRIES = 4
    CLUSTER = 2
    EOC = 8
    FatName <- Upper
    MAXVNODE = 2
    MAXOPEN = 2
    Paths <- TestPaths
    Sizes = {1, 4}
SYMMETRY ClientSymmetry
INVARIANTS
    DescriptorsHoldVnodes
    ReadReturnsFile
CHECK_DEADLOCK FALSE
