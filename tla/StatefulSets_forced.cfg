SPECIFICATION BuildSpec
CONSTANTS
    MaxSize = 6
    MaxRacks = 4
    Clusters = {"c1", "c2"}
    Names = {"server-logs", "extra"}
    Labels = {"rack", "app"}
    NodeLabels = {"zone"}
    ZonedRacks = {1, 3}
    PSP = TRUE
    ForceLists = {{1, 3}}
    MaxEdits = 1
INVARIANT ForcedUpdatesAccepted
