SPECIFICATION Spec
CONSTANTS
    Ips <- TwoIps
    Rows <- ThreeRows
    Threads = {p1, p2}
    NULL = NULL
    MaxTime = 1
    MaxFaults = 1
INVARIANTS
    TypeOK
    DuplicatesAreRaced
    NewDevicesAreAnnounced
    SeenIsRecorded
PROPERTY
    MarkSurvivesScans
SYMMETRY Symmetry
