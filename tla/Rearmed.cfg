CONSTANTS
    g1 = g1
    g2 = g2
    Groups = {g1}
    SavesDuringCleanup = TRUE
SPECIFICATION LifecycleSpec
INVARIANT CleanupStopsEverything
