SPECIFICATION FloppySpec
CONSTANTS
    Client = {c1, c2}
    starter = c1
    nobody = nobody
    SPT = 2
    HEADS = 2
    SECTORS = 8
    MAXCOUNT = 2
    TRIES = 2
    Requests <- Asked
INVARIANTS
    InStep
    ReadsWhatWasAsked
PROPERTIES
    CallReturns
