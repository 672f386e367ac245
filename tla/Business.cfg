SPECIFICATION Spec
CONSTANTS
    Parts = {"deals", "pipeline", "care", "workforce", "tokens", "acceptance", "accounts", "approval", "run", "boot", "worker"}
    Sellers = {s1, s2}
    Scanner = w1
    Totals = {0, 2}
    MaxQuotes = 1
    MaxContracts = 1
    NoDeal = NoDeal
    Employees = {o1}
    Heads = {h1}
    LeadIds = {l1}
    MaxAccounts = 2
    MaxOpportunities = 1
    NoCustomer = NoCustomer
    Keeper = o1
    Lead = o1
    Clients = {c1, c2}
    MaxActivities = 1
    MaxInsights = 1
    LastReminder = 1
    NoVisit = NoVisit
    Chiefs = {s1, s2}
    Askers = {}
    JobRoles = {j1}
    AgentKeys = {a1}
    TaskKeys = {k1}
    TaskRisks = {"low", "high", "critical"}
    Prompts = {x1, x2}
    Injected = {x2}
    Nothing = Nothing
    TaskRuns = {r1}
    OrphanLimit = 2
    MaxTurns = 3
    MaxRestarts = 1
    NoTurn = NoTurn
    Free = Free
    Owners = {p1, p2}
    RunIds = {r1}
    DecisionKeys = {k1}
    MaxStamps = 4
    Promoters = {m1, m2}
    NoTask = NoTask
    AtRest = AtRest
    Phones = {f1, f2}
    Requests = {q1, q2}
    Subjects = {u1}
    MaxFailures = 1
    LastStep = 1
    MaxStates = 1
    MaxSessions = 2
    ReviewedRoles = {"employee"}
    RequireAdminTotp = TRUE
    TrustIdpMfa = FALSE
    BootstrapAllowed = TRUE
    Unset = Unset
    NoRequest = NoRequest
    Deployments <- MCDeployments
    Instances = {i1, i2}
    Threads = {t1, t2}
    Versions = 2
    MaxStarts = 2
    Nobody = Nobody
    Deciders = {s1, s2}
    Sender = o1
    HasBody = TRUE
    MaxRuns = 2
    MayCrash = TRUE
    MayFail = TRUE
    NoRow = NoRow
    Handlers = {t1}
    Ops = {"pause", "resume", "cancel", "request", "decide"}
    MaxSteps = 2
    MaxRequests = 1
    MaxLog = 8
    NoRun = NoRun
INVARIANTS TypeOK ActionIsSafe RunIsOrderly SalesAreTrue ApprovalIsNotWaived
    EndedTurnIsRefused RepeatsAreAbsorbed ServingIsSound
PROPERTIES DecisionsStand
SYMMETRY Symmetry
CHECK_DEADLOCK FALSE
