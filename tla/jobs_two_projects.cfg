CONSTANTS
    Projects = {p1, p2}
    MaxJobs = 2
    MaxRevision = 2
    MaxStops = 1
    Entries = {"route", "operation"}
    Deletable = {}
    CommitMayFail = TRUE
SPECIFICATION SideBySide
SYMMETRY ProjectSymmetry
CHECK_DEADLOCK FALSE
INVARIANTS
    OneActiveJob
    ActiveJobInputsFrozen
    EndsAreTruthful
    JobsStayInOrder
PROPERTY EndedIsFinal
