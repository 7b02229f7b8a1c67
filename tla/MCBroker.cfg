SPECIFICATION Spec
CONSTANTS
    w1 = w1
    w2 = w2
    p1 = p1
    g1 = g1
    NoGroup = NoGroup
    NoLabel = NoLabel
    MaxRetryAttempts = 2
    Workers = {w1, w2}
    Producers = {p1}
    MayKick <- CappedKick
    MaxId = 2
    AttemptBound = 2
    RetryMiddleware = TRUE
    Beating = {w1, w2}
    Punctual = FALSE
    Faults = {"crash", "kick_error", "release_error"}
SYMMETRY WorkerSymmetry
INVARIANTS
    TypeOK
    CompletedMeansEnded
    OneHolderPerAttempt
PROPERTIES
    QueueSpec
    OnlySweepTakes
CHECK_DEADLOCK FALSE
