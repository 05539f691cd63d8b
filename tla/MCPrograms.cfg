CONSTANTS
    ZooKeepers <- OneZooKeeper
    ClickHouses <- TwoClickHouses
    UseZooKeeperNodes = TRUE
    Debug = TRUE
    CollectLogs = TRUE
    MaxAttempts = 5
    MaxPrograms = 2
    MaxExits = 1
    Suites = {1, 2, 3, 4}
    Sources = {"https", "docker", "deb", "https_deb"}
    AtOnce = 1
    Numbers = {21, 22}
    MaxParts = 2
    MaxBinaries = 2
    Word = Word
    None = None
    Listed <- SomeSuites
    Existing <- SuitesThere
    Required <- Arguments
    Passed = {"local", "clickhouse_binary_path", "clickhouse_version", "stress"}
    Skipped = {"s3"}
    PoolSize = 2
    Scripts <- SomeScripts
    User <- TwoUsers
    Retries = {0, 1, 2, 5}
    DockerTries = 100
SPECIFICATION AllSpec
INVARIANTS
    TypesOK
    ServersAreOurs
    WholeUnlessMissed
    VersionOfBinary
    TestedVersionIsServers
    Trichotomy
    Monotone
    EverySuiteIsOver
    ExitCodeZero
    OwnTrigger
PROPERTIES
    EveryUpEnds
    ProgramsEnd
