SPECIFICATION Spec
CONSTANTS
    r1 = r1
    r2 = r2
    Requests <- MCRequests
    MaxEvents = 2
    Mixes <- MCAlertingAsync
    Faulty = {"process"}
    MaxFaults = 1
INVARIANTS
    PendingEffectRecovered
CHECK_DEADLOCK FALSE
