CONSTANTS
    Proc = {a, b, c, d, e, f, g}
    Todos = {1, 2}
    MaxQueue = 6
SPECIFICATION Spec
SYMMETRY Symmetry
INVARIANTS
    TypeOK
    HeapOrder
    RootIsHead
PROPERTIES
    ImplementsPQ
CHECK_DEADLOCK FALSE
