CONSTANTS
    Configs = {c1, c2}
    Bad = {}
    Options <- AnyOptions
    MaxFaults = 0
    Parallel = FALSE
SPECIFICATION Spec
CHECK_DEADLOCK FALSE
PROPERTY LoadedOnYield
