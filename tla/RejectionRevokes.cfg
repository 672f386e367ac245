SPECIFICATION Spec
CONSTANTS
    Sender = Sender
    NoRow = NoRow
    Deciders = {d1}
    HasBody = TRUE
    MaxRuns = 2
    MayCrash = FALSE
    MayFail = FALSE
INVARIANTS
    RejectionRevokes
CHECK_DEADLOCK FALSE
