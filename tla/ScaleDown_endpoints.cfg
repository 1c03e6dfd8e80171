SPECIFICATION Spec
CONSTANTS
    MaxSize = 2
    InitialSizes = {2}
    Loads = {1}
    Capacity = 4
    Digits = {4}
    Evictable = {}
    AbortSteps = {}
    MaxEdits = 2
    MaxEvents = 1
INVARIANTS
    NoMemberTakenForGone
CHECK_DEADLOCK FALSE
