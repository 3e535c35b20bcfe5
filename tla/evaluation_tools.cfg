SPECIFICATION Slices
CHECK_DEADLOCK FALSE
CONSTANTS
  Works = {"save", "generate", "both", "query"}
  MaxDeviations = 3
  Evaluators = {e1, e2}
  HeldOut = {c1, c2}
  Approved <- MCApproved
  Files = {f1, f2}
  Verifiers = {v1}
  Cleaners = {u1}
  Freezers = {w1}
  Importers = {w1}
  Deciders = {w1, w2}
  Paths = {p1}
  Results <- MCResults
  Reviews <- MCReviews
  MaxMishaps = 2
  c1 = c1
  c2 = c2
  f1 = f1
  f2 = f2
  First = e1
  FewMishaps = {0, 1}
INVARIANTS
  VerdictIsJust
  ResultsAreTheTrials
  RuntimeIsAccountedFor
  DecisionIsEarned
PROPERTIES
  NothingIsReplaced
