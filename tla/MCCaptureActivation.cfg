\* Two cgroups, a clock of four steps and one incident of any kind: what is dropped
\* is authorised, and what may be dropped is, in the end.
SPECIFICATION Spec
CONSTANTS
    s1 = s1
    s2 = s2
    Scopes = {s1, s2}
    Inventory <- MCInventory
    Ttl = 3
    Lead = 1
    LkgTtl = 3
    MaxReports = 2
    MaxTime = 4
    Kinds = {"change", "agent", "fault"}
    MaxIncidents = 1
INVARIANTS
    TypeOK
    DropIsAuthorised
PROPERTIES
    RuleIsEnforced
CHECK_DEADLOCK FALSE
