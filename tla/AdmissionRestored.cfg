SPECIFICATION Spec
CONSTANTS
    p1 = p1
    p2 = p2
    d1 = d1
    d2 = d2
    Procs <- MCProcs
    Pods <- MCPods
    MaxStamp = 5
    MaxFaults = 0
    Starts = {"listening"}
PROPERTIES
    SweepSparesTheLiving
CHECK_DEADLOCK FALSE
