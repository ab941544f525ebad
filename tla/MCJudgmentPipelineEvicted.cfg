SPECIFICATION Spec
CONSTANTS
    Attempts <- MCAttempts
    MaxStalled = 1
    Faulty = {}
    MaxFaults = 0
INVARIANT
    ResultsAreDurable
CHECK_DEADLOCK FALSE
