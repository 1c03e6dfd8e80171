SPECIFICATION Spec
CONSTANTS
    Size = 3
    Racks = 2
    FirstStart = {TRUE}
    Disruptions = {}
    SwapsMidPass = FALSE
    MaxDisruptions = 0
    MaxRequests = 0
    AbortSteps = {"labelStarting"}
    MaxAborts = 1
INVARIANTS
    OneBootstrapping
