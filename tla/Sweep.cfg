SPECIFICATION FairSpec
CONSTANTS
    d1 = d1
    d2 = d2
    Size = 3
    Limit = 2
    MaxScan = 2
    MaxFaults = 1
    Pods <- MCPods
    Kinds = {"excluded", "orphan"}
PROPERTIES
    CursorIsNotRewound
    EveryOrphanIsClosed
