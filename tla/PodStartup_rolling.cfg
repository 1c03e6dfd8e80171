SPECIFICATION Spec
CONSTANTS
    Size = 3
    Racks = 2
    FirstStart = {FALSE}
    Disruptions = {}
    SwapsMidPass = FALSE
    MaxDisruptions = 0
    MaxRequests = 1
    AbortSteps = {}
    MaxAborts = 0
PROPERTIES
    RollsOneAtATime
