SPECIFICATION Spec
CONSTANTS
    Sources <- AllSources
    Order <- ReadingOrder
    Points <- Weights
    Cap <- SourceCaps
    MaxSignals = 1
    Threads = {p1, p2}
    Handlers = {p1}
    Rise = 12
    MaxChanges = 2
INVARIANTS
    ChainedByOneThread
    EventsAreOnRecord
PROPERTY
    RiskIsRecorded
