CONSTANTS
    VarNum = 2
    StaticLo <- MCStaticLo
    StaticHi <- MCStaticHi
    Calls <- MCCalls
    PidNum = 6
    Chosen <- MCChosen
    MaxPins = 1
SPECIFICATION Spec
INVARIANTS
    TypeOK
    SampleAgrees
    ErrorExact
    SamplesCounted
    CachesFresh
    PinsHold
    RangesKept
CHECK_DEADLOCK FALSE
