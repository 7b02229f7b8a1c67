SPECIFICATION Spec
CONSTANTS
    b1 = b1
    b2 = b2
    g1 = g1
    g2 = g2
    NoGroup = NoGroup
    NoLabel = NoLabel
    Free = Free
    MaxRetryAttempts = 2
    Backends = {b1, b2}
    Ids = {1, 2}
    Kinds <- SharedKinds
    SoleWriter <- MCSoleWriter
    AttemptBound = 2
    MaxClock = 1
    MayRollback = FALSE
INVARIANTS
    ClaimIsExclusive
PROPERTIES
    QueueSpec
    CallEnds
    EveryMessageIsClaimed
CHECK_DEADLOCK FALSE
