SPECIFICATION FairSpec
CONSTANTS
    NumRacks = 2
    Size = 3
    MaxVersion = 1
    Broken = {}
    CanaryCounts = {1}
    MaxEvents = 1
PROPERTIES
    LiftedRollsOut
