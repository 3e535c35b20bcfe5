CONSTANTS
    RequestIds = {r1, r2}
    NoReceipt = NoReceipt
    MaxProject = 2
    MaxLives = 2
    MaxJob = 1
    MaxRevision = 3
    MaxSize = 2
    MaxIssued = 2
    SmallRevisions = {1, 2}
SPECIFICATION Slices
SYMMETRY RequestSymmetry
CHECK_DEADLOCK FALSE
INVARIANTS
    OneAnswer
    IntentKept
    HistoryIsTrue
    RightProject
PROPERTY KeepsRegister
