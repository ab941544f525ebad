SPECIFICATION Spec
CONSTANTS
    e1 = e1
    e2 = e2
    e3 = e3
    e4 = e4
    a1 = a1
    a2 = a2
    Agents = {a1, a2}
    Episodes = {e1, e2, e3, e4}
    Topic <- MCTopic
    MaxAge = 1
    Spacing = 1
    Concurrency = 1
    MaxStalled = 1
    MaxTime = 2
    MaxFaults = 2
INVARIANTS
    CommittedIsRecorded
    CallsAreMetered
PROPERTIES
    EveryEpisodeSettles
CHECK_DEADLOCK FALSE
