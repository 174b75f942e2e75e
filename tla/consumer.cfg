SPECIFICATION FairSpec
CONSTANTS
    Message = {e1, e2, bad}
    Malformed = {bad}
    Partition = {p1, p2}
    FromBeginning = TRUE
    MaxAttempts = 3
    MaxFailures = 4
    MaxExits = 2
INVARIANTS TypeOK LossNeedsFault RepeatsNeedFailure
PROPERTY ImplementsChannel
CHECK_DEADLOCK FALSE
