SPECIFICATION Spec
CONSTANTS
    Attempts <- MCAttempts
    MaxStalled = 1
    Faulty <- MCFastFaulty
    MaxFaults = 1
PROPERTY
    L3IsTerminal
CHECK_DEADLOCK FALSE
