CONSTANTS
  Bodies = {"b1", "b2"}
  Media = {"m1"}
SPECIFICATION FairSpec
INVARIANTS SessionSound
PROPERTIES InOrder Deleted
CHECK_DEADLOCK FALSE
