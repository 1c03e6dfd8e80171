SPECIFICATION Spec
CONSTANTS
    Pods = {p, q}
    NewPods = {q}
    UserAsks = TRUE
    Evacuates = TRUE
    MaxRequests = 2
    MaxFailures = 1
    MaxAborts = 1
INVARIANTS
    ReplacedNotAdded
