SPECIFICATION Spec
CONSTANTS
    MaxSize = 3
    MaxRacks = 2
    MaxGeneration = 1
    MaxAborts = 0
    Edits = {"size"}
    RoomOutcomes = {TRUE}
    Reads = {"complete", "noEndpoints"}
    InitialSizes <- NewOrUp
PROPERTIES
    RacksShrinkSafely
CHECK_DEADLOCK FALSE
