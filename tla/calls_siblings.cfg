CONSTANTS
    Calls = {r1, r2}
    Remote = {r1, r2}
    Workers = {w1, w2}
    MaxStops = 0
SPECIFICATION Spec
SYMMETRY CallSymmetry
CHECK_DEADLOCK FALSE
INVARIANT NoCallInFlightAtEnd
