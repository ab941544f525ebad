\* One cgroup and two incidents of any kind, by hand: two and a half minutes.
SPECIFICATION Spec
CONSTANTS
    s1 = s1
    s2 = s2
    Scopes = {s1}
    Inventory <- MCInventoryOne
    Ttl = 3
    Lead = 1
    LkgTtl = 4
    MaxReports = 2
    MaxTime = 4
    Kinds = {"change", "agent", "fault"}
    MaxIncidents = 2
INVARIANTS
    TypeOK
    DropIsAuthorised
PROPERTIES
    RuleIsEnforced
CHECK_DEADLOCK FALSE
