CONSTANTS
    Threads = {t1, t2}
    MaxPid = 1
    MaxCrashes = 1
    MaxPolls = 2
    KillEvery = 1
    NoPid = NoPid
    Garbage = Garbage
SPECIFICATION FairSpec
PROPERTY EveryOperationEnds
