CONSTANTS
    Requests = {r1, r2}
    NoRequest = NoRequest
    Unattended = {r2}
    ReviewAll = FALSE
    Handlers = {h1, h2}
    Offered = {"follow", "film"}
    MaxRevision = 3
    Intents = {first, second}
    MaxVisits = 3
    MaxLosses = 1
    FewRevisions = {1, 2}
    Filmed = {"none", "film", "rest"}
    FewVisits = {1, 2}
SPECIFICATION Slices
SYMMETRY HandlerSymmetry
CHECK_DEADLOCK FALSE
INVARIANTS
    PlansAreCarriedOut
    GenerationsAreWanted
    PageKnowsItsRequests
PROPERTY AnswersAreFinal
