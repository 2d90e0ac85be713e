SPECIFICATION Spec
CONSTANTS
    w1 = w1
    w2 = w2
    Workers <- MCWorkers
    MaxGen = 2
    MaxAttempts = 2
    MaxEpoch = 2
    MaxFaults = 0
    Kinds = {"paywalled"}
SYMMETRY Symmetry
INVARIANTS
    ProcessingIsOwned
CHECK_DEADLOCK FALSE
