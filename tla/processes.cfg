SPECIFICATION FairSideBySide
CHECK_DEADLOCK FALSE
CONSTANTS
  Commands = {c1, c2}
  NoCommand = NoCommand
  MaxMishaps = 1
  Only = c1
INVARIANTS ReportsAreTrue
PROPERTIES LatchedFailureSticks FailureReachesTheOthers EverythingEnds
