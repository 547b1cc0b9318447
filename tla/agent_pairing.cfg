SPECIFICATION Spec
CONSTANTS
    Procs = {p1, p2}
    MaxIds = 2
    MaxCodes = 2
    MaxTokens = 2
    NULL = NULL
    MaxFaults = 1
    MaxRotations = 1
INVARIANTS
    OneIdentity
    StrandedIsExplained
PROPERTY
    HolderIsHeard
CHECK_DEADLOCK FALSE
