SPECIFICATION FairSpec
CONSTANTS
    s1 = s1
    s2 = s2
    s3 = s3
    old = old
    new = new
    None = None
    Starters = {s1, s2, s3}
    VersionOf <- Rolling
    FailureBound = 2
    DropBound = 1
INVARIANTS
    TypeOK
    DdlIsSerial
    FingerprintIsTrue
PROPERTIES
    InstallsOnlyWhatIsNew
    EveryStartEnds
CHECK_DEADLOCK FALSE
