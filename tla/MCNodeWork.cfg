CONSTANTS
    MaxRetries = 2
    DefaultDelay = 5
    OtherDelay = 1
    MaxCalls = 3
    MaxLog = 8
    Steps <- AllSteps
    Before = {}
    Default = "clickhouse"
    MaxFailures = 2
    Names <- ThreeNodes
    MaxDeaths = 2
    Timeout = 12
    ControlTimeout = 3
    Probe = 2
    Horizon = 30
SPECIFICATION AllSpec
INVARIANTS
    TypesOK
    RepeatedOnRequest
    CheckedAsAsked
    MessageIsOwn
    InvalidConfigIsGone
    DumpIsOffByOneAtMost
    LeavesNothing
    TestHasKeepers
    CleanUpStopsAll
    KeepsItsTime
PROPERTY LookupEnds
