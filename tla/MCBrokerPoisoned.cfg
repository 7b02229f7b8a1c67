SPECIFICATION FairSpec
CONSTANTS
    w1 = w1
    w2 = w2
    p1 = p1
    g1 = g1
    NoGroup = NoGroup
    NoLabel = NoLabel
    MaxRetryAttempts = 2
    Workers = {w1, w2}
    Producers = {p1}
    MayKick <- ForeignKick
    MaxId = 2
    AttemptBound = 1
    RetryMiddleware = TRUE
    Beating = {}
    Punctual = TRUE
    Faults = {"lost_claim"}
PROPERTIES
    OneLabelHarmsNoOther
CHECK_DEADLOCK FALSE
