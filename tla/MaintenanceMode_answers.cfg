SPECIFICATION FairSpec
CONSTANTS
    a = a
    b = b
    a0 = a0
    b0 = b0
    n1 = n1
    n2 = n2
    Nodes = {n1, n2, n3}
    NoNode = NoNode
    Pods = {a0, b0}
    Racks = {a, b}
    NoRack = NoRack
    RackOf <- MCRackOf
    Placements <- MCPlacements
    Movable = {b0}
    NewPods = {}
    MaxTaints = 2
    MaxEvents = 0
PROPERTIES
    RequestAnswered
    RefusalWithdrawn
