SPECIFICATION MutexSpec
CONSTANTS
    Worker = {w1, w2, w3}
    idle = idle
    cleaner = cleaner
    nobody = nobody
    QUANTUM = 2
    SleepTicks = {}
    MaxNest = 1
    Modes = {TRUE, FALSE}
    MaxHeld <- Both
SYMMETRY WorkerSymmetry
INVARIANTS
    MutexTypeOK
    WaitersOnOneList
    NoWaiterLost
    MutualExclusion
    NoStrandedWaiter
PROPERTIES
    ImplementsFifoLock
