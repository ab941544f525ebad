\* A download that is reported after the write that follows it.
SPECIFICATION BuilderSpec
CONSTANTS
    f1 = f1
    f2 = f2
    p1 = p1
    t1 = t1
    t2 = t2
    Signal <- MCSignal
    Files = {f1, f2}
    Scopes = {p1}
    Targets = {t1, t2}
    Within <- MCWithin
    Window = 4
    Inputs <- MCInputs
    Displacement = 1
    Lateness = 1
    Settle = 1
    MaxFiles = 2
    MaxFacts = 6
    MaxAmbiguous = 1
    MaxClock = 0
    MaxRestarts = 0
INVARIANT
    OutOfOrderIsMatched
CHECK_DEADLOCK FALSE
