SPECIFICATION Spec
CONSTANTS
    NoRow = NoRow
    Requests = {r1}
    Calls = {read, export}
    Gated = {export}
    MayCrash = FALSE
    MayFail = FALSE
INVARIANTS RefusedWithoutEffect
CHECK_DEADLOCK FALSE
