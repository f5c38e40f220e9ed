CONSTANTS
    Provisional = {p1}
    Success = {s1}
    Failure = {f1}
    CancelResp = {c1}
    MaxRetrans = 1
SPECIFICATION FairSpec
INVARIANTS ToldOnce AckReplayed KeptDespiteRaise
PROPERTIES Concludes
