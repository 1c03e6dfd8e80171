SPECIFICATION Spec
CONSTANTS
    Datacenters = {d1, d2}
    Running = {d2}
    Secrets = {superuser, app}
    Generated = superuser
    Nodes = {n1, n2}
    MaxEdits = 0
    MaxEvents = 0
    MaxChanges = 0
PROPERTIES
    HealthShared
CHECK_DEADLOCK FALSE
