SPECIFICATION Spec
CONSTANTS
    e1 = e1
    e2 = e2
    r1 = r1
    r2 = r2
    Replicas = {r1, r2}
    Effects = {e1, e2}
    Legacy = {e2}
    At <- MCAt
    Reach <- MCReach
    MaxTime = 1
    MaxUpsets = 1
INVARIANTS
    EffectAppliedOnce
    ToldIsCommitted
PROPERTIES
    ReplicasConverge
CHECK_DEADLOCK FALSE
