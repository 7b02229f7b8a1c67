SPECIFICATION ReceiverFairSpec
CONSTANTS
    w1 = w1
    w2 = w2
    p1 = p1
    g1 = g1
    NoGroup = NoGroup
    NoLabel = NoLabel
    c1 = c1
    c2 = c2
    MaxRetryAttempts = 2
    Workers = {w1, w2}
    Producers = {p1}
    MayKick <- OrderedKick
    MaxId = 2
    AttemptBound = 2
    RetryMiddleware = TRUE
    Beating = {}
    Punctual = TRUE
    Faults = {"crash", "lost_claim", "release_error"}
    Endings = {"failure"}
    Readers = {}
    Awaits <- FirstOnly
    AckType <- Mixed
    Withholding = {w1}
    KeepResults = TRUE
    ResultFaults = {"save_error"}
INVARIANTS
    FailureIsFinal
PROPERTIES
    EveryMessageSettles
    EveryMessageIsAnswered
    OrphansAreReclaimed
CHECK_DEADLOCK FALSE
