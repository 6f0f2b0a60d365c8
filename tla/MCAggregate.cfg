CONSTANTS
    Targets <- EachOnce
    Data <- SameData
    ScoreOf <- Scores
    SampleNum = 4
    Sub = 3
    MaxRegions = 2
SPECIFICATION Spec
INVARIANTS
    TypeOK
    AverageExact
    MajorityFound
    BestFound
CHECK_DEADLOCK FALSE
