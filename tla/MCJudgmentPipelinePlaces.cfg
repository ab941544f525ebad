\* By hand: two failures at any of the places, publishResult of the fast
\* worker among them.  It passes.
SPECIFICATION Spec
CONSTANTS
    Attempts <- MCAttempts
    MaxStalled = 1
    Faulty <- Places
    MaxFaults = 2
INVARIANTS
    TypeOK
    SharedOnlyIfOverlooked
    AppliedIsDurable
    EffectsMatchDecisions
PROPERTY
    DecisionsMoveOn
CHECK_DEADLOCK FALSE
