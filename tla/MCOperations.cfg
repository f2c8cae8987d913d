CONSTANTS
    None = None
    Members = {"m1", "m2"}
    Partitions = {"p1"}
    LogEnd = 2
    BatchSize = 2
    Sinks = {"kafka", "lakehouse"}
    Kind <- GroupKind
    Malformed <- GroupMalformed
    Dlq = "dlq"
    Programs = {"normalized"}
    Reset = "latest"
    Forwarders = {"mqtt", "amqp"}
    BridgeLogEnd = 4
    MaxBridgeFaults = 3
    Payload <- Messages
    QueueSize = 2
    MaxMqttFaults = 2
    Order <- Services
    MaxRestarts = 1
    MaxExits = 2
    MaxCommands = 2
    MaxSupFaults = 1
    Tables = {"t1", "t2"}
    MaxRows = 1
    MaxDumps = 2
    MaxRestores = 2
    MaxBackupFaults = 1
    Partial = Partial
    Page = 2
    MaxAlerts = 3
    MaxChanges = 1
    MaxAlertFaults = 2
    BuildWorkers = {"w1", "w2"}
    Directories = {"d1", "d2"}
    MaxBuilds = 2
    MaxBuildFaults = 2
    Sockets = {"s1", "s2"}
    MaxVersion = 1
    MaxFeedFaults = 1
SPECIFICATION OperationsSpec
INVARIANTS
    OperationsTypeOK
    ConsumersAreSound
    ClaimedOnce
    AnsweredIsKept
    EndedLeavesNothing
    RestoresAreSound
    SucceededIsWhole
PROPERTIES
    OperationsProgress
CHECK_DEADLOCK FALSE
