SPECIFICATION Spec
CONSTANTS
    rowA = rowA
    rowB = rowB
    rowD = rowD
    c1 = c1
    c2 = c2
    Rows = {rowA, rowB, rowD}
    Buffered = {}
    Calls = {c1, c2}
    Keys = {"k1"}
    Retained <- MCRerouted
    BatchRows = 2
    MaxRows = 2
    MaxFaults = 0
    MaxCrashes = 0
INVARIANTS
    ResolvedIsDurable
CHECK_DEADLOCK FALSE
