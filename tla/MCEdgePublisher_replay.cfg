CONSTANTS
    e1 = e1
    e2 = e2
    loop = loop
    worker = worker
    None = None
    Events = {e1, e2}
    Threads = {loop}
    Loop = loop
    BatchSize = 2
    QueueMax = 2
    Oversize <- NoneOversize
SPECIFICATION Spec
INVARIANTS
    ReplayKeepsUndelivered
