SPECIFICATION FairSpec
CONSTANTS
    MaxSize = 2
    InitialSizes = {2}
    Loads = {1}
    Capacity = 4
    Digits = {4}
    Evictable = {"left"}
    AbortSteps = {}
    MaxEdits = 2
    MaxEvents = 1
PROPERTIES
    ScaleDownEnds
CHECK_DEADLOCK FALSE
