CONSTANTS
  Timers = {"gc", "er1", "er2", "u1", "u2"}
  UaTimers = {"u1", "u2"}
  Calls = {"c1", "c2"}
  GcIval = 2
  StopTries = 2
  DigestOnly = TRUE
  HasProxy = TRUE
SPECIFICATION MapFairSpec
INVARIANTS CallsKnown
PROPERTIES LoopServes
CHECK_DEADLOCK FALSE
