CONSTANTS
    Threads = {main, t1}
    Main = main
    Nodes = {n1}
    Host = host
    Shells = {s1, s2}
    NoThread = NoThread
    NoShell = NoShell
    Matches <- OwnName
    MaxTries = 1
SPECIFICATION FairSpec
PROPERTY EveryCallEnds
