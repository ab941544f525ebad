SPECIFICATION Spec
CONSTANTS
    MaxPuts = 3
    Size <- MCSize
    MaxRecords = 1
    MaxBytes = 2
    CompactMin = 6
    CompactMaxLive = 1
    MaxErrors = 1
    MaxCrashes = 1
INVARIANTS
    NoPutLost
    PromisedIsSynced
    CapacityHolds
CONSTRAINT
    Undamaged
CHECK_DEADLOCK FALSE
