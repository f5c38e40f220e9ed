CONSTANTS
    MaxTx = 2
    ProvisionalRetr = TRUE
SPECIFICATION FairSpec
INVARIANTS AnswerAccepted OneTransaction ConsistentOutcome
PROPERTIES Concludes
