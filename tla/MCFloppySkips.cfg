SPECIFICATION FloppySpec
CONSTANTS
    Client = {c1, c2}
    starter = c1
    nobody = nobody
    SPT = 2
    HEADS = 2
    SECTORS = 8
    MAXCOUNT = 3
    TRIES = 2
    Requests <- Three
INVARIANTS
    ReadsWhatWasAsked
