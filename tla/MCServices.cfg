CONSTANTS
    Instances <- AllInstances
    Streams = {"a", "b", "c"}
    WindowLimit = 2
    BatchSize = 2
    PruneEvery = 3
    OnDelay = 1
    OffDelay = 2
    None = None
    Connections = {"c1", "c2"}
    MaxRequests = 3
    MaxOutages = 1
    Absent = Absent
    Replicas = {"r1", "r2"}
    Keys = {"k1", "k2"}
    Invalid = {"k2"}
    MaxCalls = 4
    MaxPushFaults = 3
    Versions = {"v1", "v2", "other"}
    FamilyOf <- Families
    Unregistered = Unregistered
    MaxChanges = 8
    MaxReplays = 3
    Rows = 1
    MaxReplayFaults = 1
    Messages = {"m1", "m2"}
    Workers = {"w1"}
    Api = "api"
    Backend = "postgres"
    NoJob = NoJob
    MaxTurns = 2
    MaxTitles = 1
    MaxKills = 1
    Intents = {"i1"}
    Calls = {"call1", "call2", "call3"}
    MaxMishaps = 1
    QueryThreads = {"t1", "t2"}
    EventLoop = "loop"
    QueryIds = {"q1"}
    PoolLimit = 2
    WriteAttempts = 2
    NoQuery = NoQuery
    MaxDbCalls = 2
    Conns = {1, 2, 3}
    MaxDbFaults = 2
SPECIFICATION ServicesSpec
INVARIANTS
    ServicesTypeOK
    CommittedIsProcessed
    StreamsAreFollowed
    EnabledByRequest
    KeyIsOnePublication
    OneActive
    ServedIsApproved
    RunningHasItsThread
    AnswersAreKept
    AnsweredIsNotRetried
    PerformedOnce
    CancelFindsItsQuery
    WritesAreStoredOrRetried
PROPERTIES
    ServicesProgress
CHECK_DEADLOCK FALSE
