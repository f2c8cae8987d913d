CONSTANTS
    m1 = m1
    m2 = m2
    p1 = p1
    historian = historian
    lakehouse = lakehouse
    kafka = kafka
    None = None
    Dlq = Dlq
    Members = {m1}
    Partitions = {p1}
    LogEnd = 3
    BatchSize = 2
    Sinks = {historian}
    Kind <- KindOf
    Malformed <- MiddleMalformed
    Programs = {"normalized"}
    Reset = "earliest"
SPECIFICATION Spec
INVARIANTS
    CommittedIsDelivered
