SPECIFICATION Spec
CONSTANTS
    Requests = {r1, r2}
    Opened <- FourPages
    Tokens <- SavedOrNot
    Choices <- AnyOrSome
    NULL = NULL
    MaxVersion = 1
    MaxFailures = 1
INVARIANTS
    TypeOK
    NewestIsRight
    ReadsOwnWrites
    ErrorsAreExplained
PROPERTY
    LivePagesCatchUp
