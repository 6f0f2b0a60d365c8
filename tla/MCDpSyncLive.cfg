CONSTANTS
    Child = {a, b, c}
    Slots = 3
    MaxRounds = 2
    CheckFails = FALSE
SPECIFICATION FairSpec
PROPERTIES
    SplitHappens
    BatchEnds
CHECK_DEADLOCK FALSE
