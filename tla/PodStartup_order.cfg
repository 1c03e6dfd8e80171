SPECIFICATION Spec
CONSTANTS
    Size = 3
    Racks = 2
    FirstStart = {TRUE, FALSE}
    Disruptions = {"container", "eviction"}
    SwapsMidPass = FALSE
    MaxDisruptions = 1
    MaxRequests = 0
    AbortSteps = {"labelSeeds", "firstSeed", "start", "lastStarted"}
    MaxAborts = 1
INVARIANTS
    OneBootstrapping
    StartsWithSeed
