SPECIFICATION FairSpec
CONSTANTS
    Datacenters = {d1, d2}
    Running = {d2}
    Secrets = {superuser, app}
    Generated = superuser
    Nodes = {n1, n2}
    MaxEdits = 2
    MaxEvents = 1
    MaxChanges = 2
INVARIANTS
    NothingLeft
PROPERTIES
    WatchersKept
    UsersFollowSecrets
    TaintsNoticed
    DeletionFinishes
    Quiesces
CHECK_DEADLOCK FALSE
