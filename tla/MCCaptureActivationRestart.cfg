\* The forwarder restarts: what it restores is not granted.  By hand.
SPECIFICATION Spec
CONSTANTS
    s1 = s1
    s2 = s2
    Scopes = {s1, s2}
    Inventory <- MCInventory
    Ttl = 3
    Lead = 1
    LkgTtl = 4
    MaxReports = 2
    MaxTime = 1
    Kinds = {"fault"}
    MaxIncidents = 1
PROPERTIES
    RefreshIsGranted
CHECK_DEADLOCK FALSE
