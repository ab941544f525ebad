SPECIFICATION Spec
CONSTANTS
    e1 = e1
    e2 = e2
    r1 = r1
    r2 = r2
    Replicas = {r1}
    Effects = {e1, e2}
    Legacy = {}
    At <- MCAt
    Reach <- MCReach
    MaxTime = 1
    MaxUpsets = 0
INVARIANTS
    AppliedIsEvidence
CHECK_DEADLOCK FALSE
