SPECIFICATION FairSpec
CONSTANTS
    w1 = w1
    w2 = w2
    p1 = p1
    g1 = g1
    NoGroup = NoGroup
    NoLabel = NoLabel
    MaxRetryAttempts = 2
    Workers = {w1, w2}
    Producers = {p1}
    MayKick <- GroupKick
    MaxId = 1
    AttemptBound = 2
    RetryMiddleware = TRUE
    Beating = {}
    Punctual = TRUE
    Faults = {"ack_error"}
PROPERTIES
    OrphansAreReclaimed
CHECK_DEADLOCK FALSE
