SPECIFICATION FairSpec
CONSTANTS
    NumRacks = 2
    Size = 3
    MaxVersion = 2
    Broken = {}
    CanaryCounts = {}
    MaxEvents = 0
PROPERTIES
    OneRackUpdating
