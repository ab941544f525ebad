\* A clock of five steps and decisions that outlive their TTL while Central is away,
\* by hand: three minutes.
SPECIFICATION Spec
CONSTANTS
    s1 = s1
    s2 = s2
    Scopes = {s1, s2}
    Inventory <- MCInventory
    Ttl = 3
    Lead = 1
    LkgTtl = 4
    MaxReports = 2
    MaxTime = 5
    Kinds = {"change", "agent", "fault"}
    MaxIncidents = 1
INVARIANTS
    TypeOK
    DropIsAuthorised
PROPERTIES
    RuleIsEnforced
CHECK_DEADLOCK FALSE
