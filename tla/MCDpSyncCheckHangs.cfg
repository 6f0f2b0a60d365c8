CONSTANTS
    Child = {a, b, c}
    Slots = 3
    MaxRounds = 2
    CheckFails = TRUE
SPECIFICATION FairSpec
PROPERTIES
    BatchEnds
CHECK_DEADLOCK FALSE
