CONSTANTS
    p1 = p1
    p2 = p2
    Procs = {p1, p2}
    None = None
    MaxRelease = 3
    MaxWrites = 1
    MaxCrashes = 2
    MaxFailures = 2
    TakeoversOverlap = FALSE
    ReusedPids = FALSE
SPECIFICATION FairSpec
INVARIANTS NothingLost NoFreshInstallOverMigrated
PROPERTIES BootsInTheEnd
CHECK_DEADLOCK FALSE
