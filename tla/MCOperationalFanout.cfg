CONSTANTS
    historian = historian
    m1 = m1
    m2 = m2
    p1 = p1
    kafka = kafka
    None = None
    Dlq = Dlq
    Members = {m1, m2}
    Partitions = {p1}
    LogEnd = 3
    BatchSize = 2
    Sinks = {historian, kafka}
    Kind <- KindOf
    Malformed <- MiddleMalformed
SPECIFICATION Spec
SYMMETRY MemberSymmetry
INVARIANTS
    TypeOK
    CommittedIsDelivered
    SinksHoldOnlyTheBuffer
PROPERTIES
    DeliveryRefined
