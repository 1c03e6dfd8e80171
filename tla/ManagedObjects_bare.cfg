SPECIFICATION FairSpec
CONSTANTS
    NodePorts = {0}
    Workloads = {0}
    SeedLists = {0}
    Sizes = {2}
    MaxEdits = 1
    MaxEvents = 1
PROPERTIES QuiescesBare
CHECK_DEADLOCK FALSE
