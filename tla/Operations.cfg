SPECIFICATION Spec
CONSTANTS
    Parts = {"sharing", "export", "notices", "gateway", "containers", "external",
             "tools", "probe", "import"}
    Tabs = {t1}
    Guests = {g1, g2}
    Shareable = {g1}
    MaxQuestions = 1
    MayDie = TRUE
    NoTask = NoTask
    PageSize = 2
    MaxPages = 3
    Cap = 6
    MaxConversations = 4
    MaxMessages = 1
    Callers = {c1, c2}
    MaxNotices = 1
    Handlers = {t1, t2}
    Tokens = {k1, k2}
    MaxRetries = 1
    OrphanLimit = 1
    RateLimit = 1
    MaxRequests = 4
    Presented = {k1}
    NoToken = NoToken
    Processes = {p1, p2}
    Workers = {w1}
    Mortal = {p1}
    MaxContainers = 2
    LeftoverLimit = 0
    MaxCrashes = 1
    NoContainer = 0
    Runs = {r1, r2}
    MaxEvents = 2
    MaxReads = 3
    ChangesMax = 1
    MayDrift = TRUE
    MaxChanges = 1
    MaxTroubles = 1
    Documents = {d1, d2}
    TooLong = {d2}
    Unnamed = Unnamed
    RowsPerPage = 1
    PageLimit = 2
    MaxRows = 2
    MaxUploads = 1
    MaxImports = 2
INVARIANTS TypeOK ConversationIsOwned CallsAreContained ScriptsTellTruth
PROPERTIES RunsAreReported
CHECK_DEADLOCK FALSE
