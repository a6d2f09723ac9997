CONSTANTS
    c1 = c1
    c2 = c2
    c3 = c3
    c4 = c4
    n1 = n1
    n2 = n2
    s1 = s1
    s2 = s2
    s3 = s3
    w1 = w1
    w2 = w2
    g1 = g1
    g2 = g2
    Calls <- MCCalls
    Names = {n1, n2}
    NoCall = NoCall
    Sessions = {s1, s2, s3}
    Workers = {w1, w2}
    NoSession = NoSession
    Groups = {g1, g2}
    SavesDuringCleanup = FALSE
SPECIFICATION RuntimeSpec
INVARIANTS MutualExclusion InFlightBounded IdleIsClean NoMuteOutlivesGuardian
PROPERTIES ImplementsFifoMutex SweepNeverHangs StopsInTheEnd CurfewKeepsTrying
CHECK_DEADLOCK FALSE
