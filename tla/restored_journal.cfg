SPECIFICATION DatabaseSpec
CONSTANTS
    Backups = {"b1"}
    Commands = {p1}
    MaxVersion = 2
    MaxKills = 1
    MaxRaised = 0
INVARIANT
    RestoredIsServed
CHECK_DEADLOCK FALSE
