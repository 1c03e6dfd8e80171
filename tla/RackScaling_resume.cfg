SPECIFICATION Spec
CONSTANTS
    MaxSize = 2
    MaxRacks = 2
    MaxGeneration = 2
    MaxAborts = 0
    Edits = {"stopped"}
    RoomOutcomes = {TRUE}
    Reads = {"complete"}
    InitialSizes <- Even
INVARIANTS
    ResumeIsNotScaleUp
CHECK_DEADLOCK FALSE
