SPECIFICATION FairSpec
CONSTANTS
    MaxEvents = 3
    Priority <- MCPriority
    ProtectedPriority = 3
    MaxOutstanding = 2
    ProtectedReserve = 1
    BatchSize = 2
    MaxInflight = 1
    ReplayBatch = 2
    MaxWalPending = 2
    SpoolCapacity = 3
    MaxFaults = 2
    MaxSpoolErrors = 1
    MaxRestarts = 1
INVARIANTS
    TypeOK
    ReserveHolds
PROPERTIES
    OwedUntilDelivered
    EveryEventDelivered
    InputResumes
CHECK_DEADLOCK FALSE
