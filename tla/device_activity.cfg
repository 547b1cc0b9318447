SPECIFICATION Spec
CONSTANTS
    Devices = {d1}
    Reports = {r1}
    Severe = {r1}
    Threads = {p1, p2}
    AlertPoints = {0, 8}
    DedupWindow = 1
    RiskWindow = 2
    OwnWindow = 1
    NULL = NULL
    MaxEvents = 3
    MaxChanges = 1
    MaxFaults = 1
INVARIANTS
    RetriesAddNothing
    HistoryAddsUp
PROPERTY
    HistoryCatchesUp
