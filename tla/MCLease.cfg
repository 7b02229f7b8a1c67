SPECIFICATION Spec
CONSTANTS
    heartbeat_interval = 3
    stuck_message_timeout <- Timeout
    sweep_interval = 4
    Jitter = 1
    Delay = 1
    ClaimDelay = 1
    MissedBeats = 1
    MissedSweeps = 1
INVARIANTS
    TypeOK
    OrphansAreReclaimedInTime
PROPERTIES
    LivingKeepTheirLease
