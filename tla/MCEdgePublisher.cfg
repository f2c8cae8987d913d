CONSTANTS
    e1 = e1
    e2 = e2
    loop = loop
    worker = worker
    None = None
    Events = {e1, e2}
    Threads = {loop, worker}
    Loop = loop
    BatchSize = 2
    QueueMax = 1
    Oversize <- OneOversize
SPECIFICATION FairSpec
INVARIANTS
    TypeOK
PROPERTIES
    LostOnlyInARace
    BatchDeadline
