CONSTANTS
    MaxForks = 8
    MaxRegions = 2
    SampleNum = 4
    SubTodos = {2, 4}
    MaxFail = 1
    MaxShm = 2
    ExitBase = 3
    ExitMod = 7
    Strategies = {"RAND", "USER_CB", "MCMC"}
SPECIFICATION FairSpec
INVARIANTS
    TypeOK
    SamplesAccounted
    SlotsExact
    AggregateExact
    SmallBatchesCollected
PROPERTIES
    RegionEnds
CHECK_DEADLOCK FALSE
