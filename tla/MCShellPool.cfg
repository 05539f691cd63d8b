CONSTANTS
    Threads = {main, t1}
    Main = main
    Nodes = {n1}
    Host = host
    Shells = {s1, s2, s3, s4}
    NoThread = NoThread
    NoShell = NoShell
    Matches <- OwnName
    MaxTries = 1
SPECIFICATION Spec
SYMMETRY Symmetry
INVARIANTS TypeOK ThreadLocal NoOrphan KeptWhileUsed ExitClosesAll
PROPERTY ImplementsOwnership
