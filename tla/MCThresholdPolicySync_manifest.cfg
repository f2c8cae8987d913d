CONSTANTS
    a1 = a1
    a2 = a2
    p1 = p1
    p2 = p2
    k1 = k1
    k2 = k2
    None = None
    Apis = {a1, a2}
    Processors = {p1}
    Keys = {k1, k2}
    Deployments <- OneOfEach
CHECK_DEADLOCK FALSE
SPECIFICATION Spec
INVARIANTS
    UserPolicyWins
