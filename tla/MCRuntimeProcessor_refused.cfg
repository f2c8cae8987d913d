CONSTANTS
    Instances <- ThreeRecords
    Streams = {"a"}
    WindowLimit = 2
    BatchSize = 2
    PruneEvery = 3
    OnDelay = 1
    OffDelay = 2
    None = None
SPECIFICATION Spec
INVARIANTS
    CommittedIsAcknowledged
CHECK_DEADLOCK FALSE
