SPECIFICATION PoolSpec
CONSTANTS
    Slots = {j1, j2, j3}
    Pools = {p1, p2, p3, p4}
    Versions = {v1, v2}
    None = None
INVARIANTS
    LeaseIsLive
    NoPoolLeaks
PROPERTIES
    LeaseIsCurrent
CHECK_DEADLOCK FALSE
