SPECIFICATION FairSpec
CONSTANTS
    NumRacks = 2
    Size = 3
    MaxVersion = 2
    Broken = {1}
    CanaryCounts = {0, 1, 3}
    MaxEvents = 1
INVARIANTS
    CanaryContained
PROPERTIES
    RacksInOrder
    ClearedMeansRolledOut
    RollsOut
    ForceRecovers
