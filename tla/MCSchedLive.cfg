CONSTANTS
    Root = r
    Proc = {r, a, b, c}
    NoProc = NoProc
    MaxPool = 3
    TuningShare = 2
    MaxQueue = 5
    Todos = {1, 2}
    UnschedFork = TRUE
SPECIFICATION FairSpec
INVARIANTS
    PoolConservation
PROPERTIES
    WaiterServed
    ExiterLeaves
CHECK_DEADLOCK FALSE
