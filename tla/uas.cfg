CONSTANTS
    MaxTime = 2
    MaxSeq = 3
SPECIFICATION FairSpec
INVARIANTS LegGuarded EndsLast
PROPERTIES EndsDead
CHECK_DEADLOCK FALSE
