SPECIFICATION Spec
CONSTANTS
    NoRow = NoRow
    Requests = {r1, r2}
    Calls = {read, export}
    Gated = {export}
    MayCrash = TRUE
    MayFail = TRUE
INVARIANTS TypeOK RowIsTrue NothingLeftBehind PromisesHoldInTurn
PROPERTIES AskNeverExecutes
CHECK_DEADLOCK FALSE
