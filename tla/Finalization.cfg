SPECIFICATION FairSpec
CONSTANTS
    w1 = w1
    w2 = w2
    Workers <- MCWorkers
    MaxGen = 3
    MaxAttempts = 2
    MaxEpoch = 3
    MaxFaults = 2
    Kinds = {"eager", "deferred", "paywalled", "migrating"}
INVARIANTS
    ProjectionMatches
    LeaseIsExclusive
    SuccessHadItsFanout
    NoPlatformTask
PROPERTIES
    TerminalIsFinal
    NoJobLeavesProcessing
    DeletedStaysDeleted
    EveryJobSettles
CHECK_DEADLOCK FALSE
