SPECIFICATION DialogFairSpec
CONSTANT Bodies = {"x", "y"}
INVARIANTS UpdatesPaired EndHeard SdpAgree
PROPERTIES UpdateSettled
CHECK_DEADLOCK FALSE
