SPECIFICATION FairMutexSpec
CONSTANTS
    Worker = {w1, w2}
    idle = idle
    cleaner = cleaner
    nobody = nobody
    QUANTUM = 2
    SleepTicks = {}
    MaxNest = 1
    MaxHeld <- Two
    Modes = {TRUE}
PROPERTIES
    WaiterGetsMutex
