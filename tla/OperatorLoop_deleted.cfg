SPECIFICATION FairSpec
CONSTANTS
    Datacenters = {d1, d2}
    Running = {d2}
    Secrets = {superuser, app}
    Generated = superuser
    Nodes = {n1, n2}
    MaxEdits = 2
    MaxEvents = 0
    MaxChanges = 2
PROPERTIES
    DeletedGoes
CHECK_DEADLOCK FALSE
