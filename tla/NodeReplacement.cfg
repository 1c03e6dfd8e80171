SPECIFICATION FairSpec
CONSTANTS
    Pods = {p, q}
    NewPods = {q}
    UserAsks = TRUE
    Evacuates = TRUE
    MaxRequests = 1
    MaxFailures = 1
    MaxAborts = 1
INVARIANTS
    ReplacedNotAdded
PROPERTIES
    FinishedMeansReplaced
    ReplacementEnds
