CONSTANTS
    f1 = f1
    sync = sync
    t1 = t1
    t2 = t2
    u1 = u1
    u2 = u2
    d1 = d1
    d2 = d2
    h1 = h1
    h2 = h2
    Flags = {f1}
    Managed = {f1}
    Tasks = {sync, t1, t2}
    SweepTask = sync
    NoFlag = NoFlag
    Ttl = 1
    MaxTime = 2
    MaxCrashes = 1
    Urls = {u1, u2}
    Digests = {d1, d2}
    Flagging = {d1, d2}
    Policies <- MCPolicies
    Callers = {h1, h2}
    None = None
    MaxChanges = 2
    PunishTasks = {h1, h2}
    MuteTtl = 1
    KickAfter = 2
    BlackAfter = 2
    MaxPunishTime = 1
    MaxRecords = 2
    MaxDeaths = 1
SPECIFICATION ModerationSpec
INVARIANTS RoutedOnce ThresholdBlacklists AckedDecisionStands PenalisedNeverAutoAdmitted
PROPERTIES RevokedNeverEnforced LatestPolicyIsFetched
CHECK_DEADLOCK FALSE
