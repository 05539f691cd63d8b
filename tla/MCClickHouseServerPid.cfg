CONSTANTS
    Threads = {t1}
    MaxPid = 4
    MaxCrashes = 2
    MaxPolls = 3
    KillEvery = 2
    NoPid = NoPid
    Garbage = Garbage
SPECIFICATION Spec
PROPERTY AlreadyRunning
