SPECIFICATION FairSpec
CONSTANTS
    d1 = d1
    d2 = d2
    Size = 5
    Limit = 3
    MaxScan = 6
    MaxFaults = 0
    Pods <- MCPod
    Kinds = {"excluded", "orphan", "refused"}
PROPERTIES
    EveryOrphanIsClosed
