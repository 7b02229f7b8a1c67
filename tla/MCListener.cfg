SPECIFICATION FairSpec
CONSTANTS
    w1 = w1
    w2 = w2
    m1 = m1
    Workers = {w1, w2}
    Ids = {m1}
    AttemptBound = 2
    FailureBound = 2
    Nobody = Nobody
    Faults = {"server", "read_conn", "dequeue_conn", "notify", "crash"}
INVARIANTS
    TypeOK
    NoLostWakeup
PROPERTIES
    NothingIsOverslept
CHECK_DEADLOCK FALSE
