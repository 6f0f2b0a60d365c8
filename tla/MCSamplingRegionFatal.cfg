CONSTANTS
    MaxForks = 5
    MaxRegions = 1
    SampleNum = 4
    SubTodos = {4}
    MaxFail = 1
    MaxShm = 1
    ExitBase = 3
    ExitMod = 6
    Strategies = {"RAND", "USER_CB", "MCMC"}
SPECIFICATION Spec
INVARIANTS
    NeverFatal
CHECK_DEADLOCK FALSE
