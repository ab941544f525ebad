\* Nothing goes wrong, two cgroups: an event of a cgroup refreshes the decision.
SPECIFICATION Spec
CONSTANTS
    s1 = s1
    s2 = s2
    Scopes = {s1, s2}
    Inventory <- MCInventory
    Ttl = 3
    Lead = 1
    LkgTtl = 4
    MaxReports = 2
    MaxTime = 4
    Kinds = {}
    MaxIncidents = 0
PROPERTIES
    RefreshIsGranted
CHECK_DEADLOCK FALSE
