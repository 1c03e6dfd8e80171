SPECIFICATION FairSpec
CONSTANTS
    Size = 2
    Racks = 1
    FirstStart = {TRUE, FALSE}
    Disruptions = {"container", "readiness", "eviction"}
    SwapsMidPass = FALSE
    MaxDisruptions = 1
    MaxRequests = 1
    AbortSteps = {"startedNotReady", "stuckNodes", "labelSeeds", "refreshSeeds", "startingNodes",
        "firstSeed", "start", "lastStarted", "restart", "restartSpec", "deletePod",
        "clear"}
    MaxAborts = 1
INVARIANTS
    OneStartingLabel
    RestartIsTracked
PROPERTIES
    NodesComeUp
