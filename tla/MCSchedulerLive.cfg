SPECIFICATION CallingSpec
CONSTANTS
    Worker = {w1, w2}
    idle = idle
    cleaner = cleaner
    nobody = nobody
    QUANTUM = 2
    SleepTicks = {1}
    MaxNest = 1
PROPERTIES
    SleeperIsWoken
    ReadyRuns
    DeadAreDeleted
