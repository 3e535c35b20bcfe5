CONSTANTS
    Projects = {p1, p2}
    MaxJobs = 2
    MaxRevision = 1
    MaxStops = 1
    Entries = {"operation"}
    Deletable = {p1, p2}
    CommitMayFail = FALSE
    Delivered = {p1}
SPECIFICATION FairSideBySide
CHECK_DEADLOCK FALSE
INVARIANTS
    RunningHasTask
PROPERTY EveryJobIsDelivered
