CONSTANTS
    Targets <- Twice
    Data <- OwnData
    ScoreOf <- Scores
    SampleNum = 3
    Sub = 2
    MaxRegions = 1
SPECIFICATION Spec
INVARIANTS
    AverageExact
CHECK_DEADLOCK FALSE
