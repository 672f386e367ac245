SPECIFICATION Spec
CONSTANTS
    h1 = h1
    h2 = h2
    NoState = NoState
    Handlers <- TwoHandlers
    Plans <- SmallPlans
    Ops <- AllOps
    MaxSteps = 2
    MaxRequests = 1
    MaxLog = 6
    MayCrash = TRUE
    MayPurge = TRUE
INVARIANTS
    TypeOK
    StateExplainedByEvents
PROPERTIES
    LogIsLinear
ACTION_CONSTRAINT PurgedWhenCurrent
SYMMETRY Symmetry
CHECK_DEADLOCK FALSE
