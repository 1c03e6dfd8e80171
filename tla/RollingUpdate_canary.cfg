SPECIFICATION FairSpec
CONSTANTS
    NumRacks = 2
    Size = 3
    MaxVersion = 1
    Broken = {}
    CanaryCounts = {0, 3}
    MaxEvents = 0
PROPERTIES
    CanaryUpdatesRack
