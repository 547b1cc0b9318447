SPECIFICATION Spec
CONSTANTS
    Clients = {c1}
    Threads = {p1, p2}
    Routes <- GateRoutes
    Limit <- SmallLimit
    Window <- SmallWindow
    Lag = 1
    Threshold <- SmallThreshold
    RuleWindow = 2
    MaxTime = 3
    MaxCalls = 3
    MaxFaults = 1
INVARIANTS
    AdmissionsAreBounded
PROPERTIES
    RefusalsAreDeserved
    BurstRaisesAlert
SYMMETRY Symmetry
CHECK_DEADLOCK FALSE
