SPECIFICATION Spec
CONSTANTS
    w1 = w1
    w2 = w2
    p1 = p1
    g1 = g1
    NoGroup = NoGroup
    NoLabel = NoLabel
    MaxRetryAttempts = 3
    Workers = {w1, w2}
    Producers = {p1}
    MayKick <- GroupKick
    MaxId = 2
    AttemptBound = 3
    RetryMiddleware = TRUE
    Beating = {}
    Punctual = TRUE
    Faults = {}
INVARIANTS
    GroupsNeverOverlap
CHECK_DEADLOCK FALSE
