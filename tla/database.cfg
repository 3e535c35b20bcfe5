SPECIFICATION FairSideBySide
CHECK_DEADLOCK FALSE
CONSTANTS
  Procs = {a, b}
  Files = {f1, f2, f3}
  NoFile = NoFile
  CrashAt = {"create", "open", "probe", "move", "recreate", "lock", "write", "leased", "serving", "failed", "drop", "unhook", "abandon", "unlink"}
  WritesMayFail = FALSE
  p1 = p1
  p2 = p2
  j1 = j1
  j2 = j2
  None = None
  Projects = {p1, p2}
  Jobs = {j1, j2}
  Legacy <- LegacyDatabases
  MaxMishaps = 2
INVARIANTS LeaseIsExclusive MigratedIsSound
PROPERTIES BackupsHold LoneStarterGetsIt
