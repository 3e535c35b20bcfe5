CONSTANTS
    Projects = {p1, p2}
    MaxJobs = 1
    MaxRevision = 1
    MaxStops = 0
    Entries = {"route"}
    Deletable = {p1, p2}
    CommitMayFail = FALSE
SPECIFICATION Spec
CHECK_DEADLOCK FALSE
INVARIANT RunnerMeetsItsOwnRow
