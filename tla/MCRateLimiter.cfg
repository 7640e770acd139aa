SPECIFICATION LimiterSpec
CONSTANTS
    r1 = r1
    r2 = r2
    r3 = r3
    r4 = r4
    q1 = q1
    x1 = x1
    Requests = {r1, r2, r3, r4, q1, x1}
    KeyOf <- MCKeyOf
    Exempt = {"health"}
    Limit = 2
    Window = 2
    Horizon = 5
SYMMETRY Symmetry
CHECK_DEADLOCK FALSE
INVARIANTS
    WindowBound
PROPERTIES
    NoUndueRefusal
    RemainingIsAvailable
