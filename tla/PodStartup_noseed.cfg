SPECIFICATION Spec
CONSTANTS
    Size = 2
    Racks = 1
    FirstStart = {TRUE}
    Disruptions = {"readiness"}
    SwapsMidPass = FALSE
    MaxDisruptions = 1
    MaxRequests = 0
    AbortSteps = {}
    MaxAborts = 0
INVARIANTS
    StartsWithSeed
