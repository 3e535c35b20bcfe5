CONSTANTS
    Procs = {a, b, c}
    Files = {f1, f2, f3, f4, f5}
    NoFile = NoFile
    CrashAt = {}
    WritesMayFail = FALSE
SPECIFICATION Spec
SYMMETRY LeaseSymmetry
CHECK_DEADLOCK FALSE
INVARIANT Exclusive
