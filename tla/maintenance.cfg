SPECIFICATION DatabaseSpec
CONSTANTS
    Backups = {"b1", "b2"}
    Commands = {p1, p2}
    MaxVersion = 2
    MaxKills = 1
    MaxRaised = 1
INVARIANTS
    LiveIsPromised
    BackupsAreWhole
PROPERTIES
    ReportedBackupsRestore
    StopEnds
CHECK_DEADLOCK FALSE
