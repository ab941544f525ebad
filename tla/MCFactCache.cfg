SPECIFICATION FairCacheSpec
CONSTANTS
    readerA = readerA
    readerB = readerB
    NBuckets = 5
    Readers <- MCReaders
    Ranges <- MCRanges
    Busy = {2, 3}
    MaxBuckets = 5
    MaxFacts = 6
    Limit = 1
    MaxPages = 2
    Replay = 1
    Ttl = 0
    CoarseExpiry = TRUE
    MaxCommits = 2
    MaxClock = 2
    MaxFailures = 1
INVARIANTS
    CacheTypeOK
    ReadIsFresh
    StaleIsJournaled
PROPERTIES
    EveryReadEnds
CHECK_DEADLOCK FALSE
