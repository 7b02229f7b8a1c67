SPECIFICATION ReceiverSpec
CONSTANTS
    w1 = w1
    w2 = w2
    p1 = p1
    g1 = g1
    NoGroup = NoGroup
    NoLabel = NoLabel
    c1 = c1
    c2 = c2
    MaxRetryAttempts = 2
    Workers = {w1, w2}
    Producers = {p1}
    MayKick <- GroupKick
    MaxId = 2
    AttemptBound = 2
    RetryMiddleware = FALSE
    Beating = {w1, w2}
    Punctual = TRUE
    Faults = {"crash", "lost_claim", "ack_error", "no_ack"}
    Endings = {"success", "none"}
    Readers = {c1, c2}
    Awaits <- FirstOnly
    AckType <- AllSaved
    Withholding = {w1, w2}
    KeepResults = FALSE
    ResultFaults = {"save_error", "read_error"}
SYMMETRY Symmetry
INVARIANTS
    ReceiverTypeOK
    RunningIsInflight
    GroupsNeverOverlap
    EndedKeepsItsRow
    MissingMeansTaken
PROPERTIES
    CompletedHasResult
    ResultsMoveForward
CHECK_DEADLOCK FALSE
