SPECIFICATION Spec
CONSTANTS
    d1 = d1
    Alerts = {a1, a2, a3, a4}
    Kinds <- Mixed
    Threads = {p1, p2}
    NULL = NULL
    SuspiciousThreshold = 2
    AuthThreshold = 2
    AlertThreshold = 2
    MaxEvents = 2
    MaxReviews = 2
    MaxFaults = 1
SYMMETRY Symmetry
CHECK_DEADLOCK FALSE
INVARIANTS
    DuplicatesAreRaced
    StatusIsTraced
    RepeatsAreBacked
PROPERTY
    ClosedStaysClosed
