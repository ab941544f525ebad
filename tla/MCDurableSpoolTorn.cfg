SPECIFICATION Spec
CONSTANTS
    MaxPuts = 2
    Size <- MCSize
    MaxRecords = 2
    MaxBytes = 3
    CompactMin = 6
    CompactMaxLive = 1
    MaxErrors = 0
    MaxCrashes = 1
INVARIANTS
    AlwaysReplayable
CHECK_DEADLOCK FALSE
