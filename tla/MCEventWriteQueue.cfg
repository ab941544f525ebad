SPECIFICATION FairSpec
CONSTANTS
    rowA = rowA
    rowB = rowB
    rowD = rowD
    c1 = c1
    c2 = c2
    Rows = {rowA, rowB, rowD}
    Buffered = {rowB}
    Calls = {c1, c2}
    Keys = {"k1", "k2"}
    Retained <- MCStable
    BatchRows = 2
    MaxRows = 2
    MaxFaults = 2
    MaxCrashes = 1
INVARIANTS
    TypeOK
    ResolvedIsDurable
    StoredOnceInOrder
PROPERTIES
    EveryCallSettles
CHECK_DEADLOCK FALSE
