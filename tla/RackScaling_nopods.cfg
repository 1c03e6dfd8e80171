SPECIFICATION Spec
CONSTANTS
    MaxSize = 3
    MaxRacks = 2
    MaxGeneration = 1
    MaxAborts = 0
    Edits = {"size"}
    RoomOutcomes = {TRUE}
    Reads = {"complete", "noPods"}
    InitialSizes <- NewOrUp
INVARIANTS
    DecommissioningIsTracked
CHECK_DEADLOCK FALSE
