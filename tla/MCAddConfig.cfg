CONSTANTS
    Configs = {c1, c2, c3}
    Bad = {}
    Options <- Checked
    MaxFaults = 0
    Parallel = FALSE
SPECIFICATION Spec
SYMMETRY Symmetry
CHECK_DEADLOCK FALSE
INVARIANTS TypeOK NoFalseAlarm
PROPERTIES LoadedOnYield UnloadedOnReturn
