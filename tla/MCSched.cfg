CONSTANTS
    Root = r
    Proc = {r, a, b, c, d, e}
    NoProc = NoProc
    MaxPool = 3
    TuningShare = 2
    MaxQueue = 6
    Todos = {1, 2}
    UnschedFork = FALSE
SPECIFICATION Spec
SYMMETRY Symmetry
INVARIANTS
    TypeOK
    PoolConservation
    PoolBound
    QueueExact
    WakeOrder
    WakeSound
    SlotsClaimed
    StuckNeedsMany
PROPERTIES
    ImplementsSlotPool
CHECK_DEADLOCK FALSE
