CONSTANTS
    CanAuth = TRUE
    LateMedia = TRUE
    NoReplyLimit = 2
    MaxSeq = 3
    MaxInvites = 2
SPECIFICATION FairSpec
INVARIANTS LegGuarded EndsLast AnsweredIsEnded
PROPERTIES EndsDead
CHECK_DEADLOCK FALSE
