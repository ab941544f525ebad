SPECIFICATION FairSpec
CONSTANTS
    r1 = r1
    r2 = r2
    Requests <- MCRequests
    MaxEvents = 2
    Mixes <- MCMixes
    Faulty = {"client", "process", "clickhouse", "ledger", "redis"}
    MaxFaults = 2
INVARIANTS
    NothingBeforeStored
    AcknowledgedIsDone
PROPERTIES
    EveryEventSettled
CHECK_DEADLOCK FALSE
