SPECIFICATION FairSpec
CONSTANTS
    NodePorts = {0}
    Workloads = {0}
    SeedLists = {0}
    Sizes = {2}
    MaxEdits = 3
    MaxEvents = 1
PROPERTIES ConfigSecretRollsOut
CHECK_DEADLOCK FALSE
