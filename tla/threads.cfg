SPECIFICATION ThreadsSpec
CONSTANTS
    Kinds <- MCKinds
    Pool <- MCPool
    Receivers = {"r1", "r2"}
    MaxItems = 3
    MaxQueue = 1
    MaxReopens = 1
    MaxRecurse = 2
    MaxEmpty = 2
    MaxReads = 2
    MaxDeaths = 2
    MaxCmds = 3
    Commands = {"q", "l", "lt", "d", "d*", "r", "unknown"}
INVARIANTS PoolSound CliSound
PROPERTIES PoolSettles CliSettles
CHECK_DEADLOCK FALSE
