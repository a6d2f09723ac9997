CONSTANTS
    t1 = t1
    t2 = t2
    PunishTasks = {t1, t2}
    MuteTtl = 1
    KickAfter = 2
    BlackAfter = 2
    MaxPunishTime = 1
    MaxRecords = 2
    MaxDeaths = 0
SPECIFICATION PunishSpec
PROPERTY PardonSticks
CHECK_DEADLOCK FALSE
