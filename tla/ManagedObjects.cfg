SPECIFICATION FairSpec
CONSTANTS
    NodePorts = {0, 1}
    Workloads = {0, 1}
    SeedLists = {0, 1, 2}
    Sizes = {2, 3}
    MaxEdits = 2
    MaxEvents = 1
INVARIANTS
    SettledMatchesSpec
    SettledConfigRuns
    HashIdentifiesConfig
PROPERTIES
    UserLabelsKept
    Quiesces
CHECK_DEADLOCK FALSE
