CONSTANTS
    f1 = f1
    f2 = f2
    sync = sync
    t1 = t1
    t2 = t2
    u1 = u1
    Flags = {f1, f2}
    Managed = {f1}
    Tasks = {sync, t1, t2}
    SweepTask = sync
    NoFlag = NoFlag
    Ttl = 1
    MaxTime = 2
    MaxCrashes = 1
    Users = {u1}
    UserOf <- TwoRequests
    MaxActive = 1
    MaxAttempts = 2
    CaptchaTtl = 1
    LegacyRows <- Legacy
SPECIFICATION MCSpec
INVARIANTS CaptchaDecisionEarned AttemptBudget
PROPERTIES RefinesApproval StaleSessionCloses
CHECK_DEADLOCK FALSE
