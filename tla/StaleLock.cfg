CONSTANTS
    p1 = p1
    p2 = p2
    Procs = {p1}
    None = None
    MaxRelease = 3
    MaxWrites = 1
    MaxCrashes = 1
    MaxFailures = 0
    TakeoversOverlap = FALSE
    ReusedPids = TRUE
SPECIFICATION FairSpec
PROPERTIES StaleLockRecovers
CHECK_DEADLOCK FALSE
