SPECIFICATION Spec
CONSTANTS
    g1 = g1
    g2 = g2
    NoGroup = NoGroup
    Ids <- MCIds
    Kinds <- MCKinds
    SoleWriter <- MCSoleWriter
    AttemptBound = 3
INVARIANTS
    TypeOK
    GroupMutex
    Fifo
    Budget
PROPERTIES
    EndsAreFinal
CHECK_DEADLOCK FALSE
