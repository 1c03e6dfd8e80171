SPECIFICATION Spec
CONSTANTS
    MaxSize = 4
    MaxRacks = 3
    MaxGeneration = 2
    MaxAborts = 1
    Edits = {"size", "racks", "stopped"}
    RoomOutcomes = {TRUE, FALSE}
    Reads = {"complete"}
    InitialSizes <- LifecycleSizes
INVARIANTS
    DecommissioningIsTracked
    InvalidMeansUntouched
    ScaleDownFindsRack
PROPERTIES
    ReadyHasNodes
    ImplementsCapacity
    RacksShrinkSafely
    DecommissionKeepsShare
CHECK_DEADLOCK FALSE
