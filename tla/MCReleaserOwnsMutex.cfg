SPECIFICATION MutexSpec
CONSTANTS
    Worker = {w1, w2}
    idle = idle
    cleaner = cleaner
    nobody = nobody
    QUANTUM = 2
    SleepTicks = {}
    MaxNest = 1
    MaxHeld <- Two
    Modes = {FALSE}
INVARIANTS
    ReleaserOwnsMutex
