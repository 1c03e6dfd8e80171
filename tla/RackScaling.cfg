SPECIFICATION FairSpec
CONSTANTS
    MaxSize = 4
    MaxRacks = 2
    MaxGeneration = 2
    MaxAborts = 1
    Edits = {"size", "racks", "stopped"}
    RoomOutcomes = {TRUE, FALSE}
    Reads = {"complete"}
    InitialSizes <- LifecycleSizes
INVARIANTS
    DecommissioningIsTracked
PROPERTIES
    ReadyHasNodes
    DecommissionKeepsShare
    ImplementsCapacity
    ReachesSpec
CHECK_DEADLOCK FALSE
