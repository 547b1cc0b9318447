SPECIFICATION RemoteSpec
CONSTANTS
    Actions = {a1, a2}
    Unknown = {a2}
    Limit = 4
    Window = 9
    Interval = 3
    MaxBackoff = 8
    Page = 2
    MaxLosses = 1
INVARIANTS
    ReportedOnce
PROPERTIES
    AnsweredInOrder
    ActionsAreAnswered
