SPECIFICATION FairSpec
CONSTANTS
    Attempts <- MCAttempts
    MaxStalled = 1
    Faulty <- MCFaulty
    MaxFaults = 3
INVARIANTS
    SharedOnlyIfOverlooked
    AppliedIsDurable
    EffectsMatchDecisions
PROPERTIES
    DecisionsMoveOn
    EventIsDecided
CHECK_DEADLOCK FALSE
