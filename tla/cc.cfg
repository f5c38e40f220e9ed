CONSTANTS
    MaxRoutes = 3
    Billed = {1, 3}
SPECIFICATION FairSpec
INVARIANTS OneLiveLeg RecordsSettled InMapWhileAlive
PROPERTIES Collected
CHECK_DEADLOCK FALSE
