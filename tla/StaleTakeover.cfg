CONSTANTS
    p1 = p1
    p2 = p2
    Procs = {p1, p2}
    None = None
    MaxRelease = 3
    MaxWrites = 1
    MaxCrashes = 1
    MaxFailures = 0
    TakeoversOverlap = TRUE
    ReusedPids = FALSE
SPECIFICATION Spec
INVARIANTS MigrationsExclusive
CHECK_DEADLOCK FALSE
