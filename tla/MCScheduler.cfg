SPECIFICATION Spec
CONSTANTS
    Worker = {w1, w2, w3}
    idle = idle
    cleaner = cleaner
    nobody = nobody
    QUANTUM = 2
    SleepTicks = {1, 2}
    MaxNest = 2
SYMMETRY WorkerSymmetry
INVARIANTS
    TypeOK
    OnOneList
    StatusMatchesList
    NoneLost
    FreedIsUnreferenced
    LockBalance
    InterruptsOnUnlessLocked
PROPERTIES
    DeadNeverDispatched
    WokenOnTime
    NoOvertaking
    ImplementsLifecycle
