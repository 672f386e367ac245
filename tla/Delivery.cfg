SPECIFICATION Spec
CONSTANTS
    Parts = {"stream", "outbox"}
    Deciders = {d1, d2}
    Sender = Sender
    HasBody = TRUE
    MaxRuns = 2
    MayCrash = FALSE
    MayFail = FALSE
    NoRow = NoRow
    NoStream = NoStream
    MaxFrames = 7
    MaxFailures = 1
    MaxCuts = 1
    Tasks = {t1}
    Workers = {w1, w2}
    Admins = {a1, a2}
    Limit = 2
    MaxAttempts = 2
    MaxErrors = 4
INVARIANTS TypeOK StreamIsWhole ReaderMissesNothing
    EventsAreAccounted
PROPERTIES StreamIsLog
CHECK_DEADLOCK FALSE
