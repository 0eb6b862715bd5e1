SPECIFICATION FairSpec
CHECK_DEADLOCK FALSE
CONSTANTS
    o1 = o1
    o2 = o2
    Objects <- TwoObjects
    MaxWrites = 4
    MaxFaults = 2
    InitialInterval = 4
    maxInterval = 7
    consecutiveEvaluationsBeforeNextBackoff = 3
INVARIANTS
    NothingMissed
    IntervalIsLimited
PROPERTIES
    NeverGoesBack
    EventuallyKnown
