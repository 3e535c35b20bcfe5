CONSTANTS
    Calls = {r1, r2, local}
    Remote = {r1, r2}
    Workers = {w1, w2}
    MaxStops = 1
SPECIFICATION FairSpec
CHECK_DEADLOCK FALSE
INVARIANTS
    AtMostOnce
    EndedLeavesNothingOpen
    JournalIsTrue
PROPERTIES
    UnknownStays
    EveryCallReturns
