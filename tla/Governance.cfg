SPECIFICATION FairSpec
CONSTANTS
    Parts = {"tenant", "retention", "usage", "skills", "knowledge", "memory", "evolution", "content", "planning",
             "deletion"}
    Managers = {m1}
    Janitors = {w1}
    Layers <- MCLayers
    MaxDeletions = 2
    MaxExports = 2
    MaxCrashes = 1
    NoJob = NoJob
    Purgers = {p1, p2}
    RunIds = {r1, r2}
    RunLimit = 1
    MaxTime = 3
    MaxRetries = 1
    NoRows = NoRows
    Carriers = {p1, p2}
    UsageKeys = {k1, k2}
    LastUsageDay = 3
    MaxEntries = 3
    SkillPeople = {c1, s1}
    Reviewers = {c1, s1}
    Binders = {s1}
    SkillKeys = {k1}
    LastVersion = 2
    Agents = {a1}
    Tools = {t1}
    Catalogue = {t1}
    NoSkill = NoSkill
    Idle = Idle
    Employees = {m1, e1}
    KnowledgeManagers = {m1}
    Documents = {d1}
    Bases = {b1}
    HomeBase <- MCHome
    GraceDays = 1
    LastDay = 2
    Nobody = Nobody
    Users = {m1, e1}
    Governors = {m1}
    FactKeys = {k1}
    RuleOwner = e1
    Budget = 1
    MaxFacts = 2
    MaxRules = 2
    MaxRestarts = 1
    Resting = Resting
    Admins = {a1, a2}
    Snapshots = {s1}
    CaseCost = 1
    Repeats = 1
    MaxCost = 1
    MaxCasesPerRun = 2
    MaxCases = 2
    MaxEvalRuns = 1
    AtRest = AtRest
    Author = e1
    Elevated = {c1}
    Bodies = {x1}
    RegenerationKeys = {k1}
    MaxRevision = 2
    MaxContentRuns = 2
    Receipts = {"rejected"}
    Blank = Blank
    Planners = {e1}
    Approvers = {c1, c2}
    PlanKeys = {k1}
    ToolNames = {t1, t2}
    ToolList = {t1}
    MaxSteps = 1
    MaxPlanRuns = 2
    SensitiveTask = TRUE
    Models <- MCModels
    Planner = "g"
    Runtimes = {"mock", "dsh"}
    DefaultRuntime = "mock"
    MinSamples = 1
    MaxRate = 1
    Threshold = 1
    MaxSuggestions = 1
    NoPlan = NoPlan
    Senders = {q1}
    Calls = {read, export}
    Gated = {export}
    MayCrash = TRUE
    MayFail = TRUE
    NoRow = NoRow
INVARIANTS TypeOK PurgesAreSafe LedgerIsExact AgentsAreVetted KnowledgeIsEntitled
    MemoryIsBounded SentWasConfirmed PlansAreApproved
PROPERTIES DueWorkIsDone DeletionConverges
CHECK_DEADLOCK FALSE
