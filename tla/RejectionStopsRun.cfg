SPECIFICATION Spec
CONSTANTS
    h1 = h1
    h2 = h2
    NoState = NoState
    Handlers <- TwoHandlers
    Plans <- SmallPlans
    Ops <- NoRequests
    MaxSteps = 2
    MaxRequests = 0
    MaxLog = 6
    MayCrash = FALSE
    MayPurge = FALSE
INVARIANTS
    RejectionStopsRun
CHECK_DEADLOCK FALSE
