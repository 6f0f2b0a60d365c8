CONSTANTS
    Child = {a, b, c, d}
    Slots = 4
    MaxRounds = 2
    CheckFails = TRUE
SPECIFICATION Spec
SYMMETRY Symmetry
INVARIANTS
    TypeOK
    CountersExact
    CallbackComplete
    SplitOnce
PROPERTIES
    ImplementsBarrier
CHECK_DEADLOCK FALSE
