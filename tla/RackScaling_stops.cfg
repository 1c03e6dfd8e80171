SPECIFICATION Spec
CONSTANTS
    MaxSize = 2
    MaxRacks = 2
    MaxGeneration = 4
    MaxAborts = 0
    Edits = {"stopped"}
    RoomOutcomes = {TRUE}
    Reads = {"complete"}
    InitialSizes <- Even
INVARIANTS
    ReadyAlwaysHasNodes
CHECK_DEADLOCK FALSE
