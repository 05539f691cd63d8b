CONSTANTS
    Configs = {c1, c2}
    Bad = {c2}
    Options <- AnyOptions
    MaxFaults = 1
    Parallel = TRUE
SPECIFICATION FairSpec
CHECK_DEADLOCK FALSE
PROPERTY EveryWaitEnds
