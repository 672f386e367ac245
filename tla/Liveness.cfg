SPECIFICATION FairSpec
CONSTANTS
    Parts = {"approval", "stream", "outbox"}
    Deciders = {d1, d2}
    Sender = Sender
    HasBody = TRUE
    MaxRuns = 2
    MayCrash = FALSE
    MayFail = FALSE
    NoRow = NoRow
    NoStream = NoStream
    MaxFrames = 7
    MaxFailures = 0
    MaxCuts = 0
    Tasks = {t1}
    Workers = {w1, w2}
    Admins = {a1, a2}
    Limit = 2
    MaxAttempts = 2
    MaxErrors = 3
PROPERTIES ApprovalSettles StreamSettles BacklogDrains
CHECK_DEADLOCK FALSE
