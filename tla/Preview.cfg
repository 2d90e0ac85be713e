SPECIFICATION FairSpec
CONSTANTS
    s1 = s1
    s2 = s2
    Sessions <- MCSessions
    Frames <- MCFrames
    MaxPending = 1
    Buffer = 1
    Pipe = 1
    MaxFaults = 1
INVARIANTS
    InferenceUnderLock
    OneSession
    WorkerIsFresh
    PendingIsExact
    AckIsComplete
PROPERTIES
    TeardownGoesOn
    LockComesBack
CHECK_DEADLOCK FALSE
