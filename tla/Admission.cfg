SPECIFICATION FairSpec
CONSTANTS
    p1 = p1
    p2 = p2
    d1 = d1
    d2 = d2
    Procs <- MCProcs
    Pods <- MCPods
    MaxStamp = 5
    MaxFaults = 3
    Starts = {"listening", "legacy", "huge", "deferred", "bound"}
INVARIANTS
    OneProcessor
PROPERTIES
    SweepSparesTheRenewed
    ResultIsKept
    ProcessingEnds
CHECK_DEADLOCK FALSE
