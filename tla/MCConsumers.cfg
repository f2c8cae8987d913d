CONSTANTS
    None = None
    Members = {"m1", "m2"}
    Partitions = {"p1"}
    LogEnd = 3
    BatchSize = 2
    Sinks = {"historian"}
    Kind <- HistorianKind
    Malformed <- FirstMalformed
    Dlq = "dlq"
    Programs = {"normalized", "processed", "ai_enriched"}
    Reset = "earliest"
    w1 = w1
    w2 = w2
    Nil = Nil
    Workers = {w1, w2}
    Instances <- FollowedAndWorked
    MinSamples = 2
    Duration = 1
    Rearm = 2
    Cooldown = 0
    MaxAttempts = 2
    MaxJobs = 3
SPECIFICATION ConsumersSpec
INVARIANTS
    OnlyDroppedAreMissing
    ReportTypeOK
    SustainedIsReported
    OneReportPerIncident
    CompletedIsPublished
PROPERTIES
    FanoutDelivers
    EventuallySettled
    OnlyALostLeaseReopens
CHECK_DEADLOCK FALSE
