SPECIFICATION FairSpec
CONSTANTS
    MaxSize = 3
    InitialSizes = {2, 3}
    Loads = {1, 2}
    Capacity = 4
    Digits = {1, 4}
    Evictable = {"none", "normal", "leaving"}
    AbortSteps = {"updateStatus", "decommissioning", "deleteStatus", "rackScale",
        "podsReady", "nodeStatuses", "decommissionNodes", "onRack", "clear"}
    MaxEdits = 2
    MaxEvents = 1
INVARIANTS
    MembersKeepVolumes
    NodesFit
PROPERTIES
    ScaleDownEnds
CHECK_DEADLOCK FALSE
