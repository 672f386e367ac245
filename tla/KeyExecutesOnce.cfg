SPECIFICATION Spec
CONSTANTS
    NoRow = NoRow
    Requests = {r1, r2}
    Calls = {read, export}
    Gated = {export}
    MayCrash = FALSE
    MayFail = FALSE
INVARIANTS KeyExecutesOnce
CHECK_DEADLOCK FALSE
