SPECIFICATION Spec
CONSTANTS
    w1 = w1
    w2 = w2
    w3 = w3
    Workers <- TwoWorkers
    Filters = 2
    MaxRequests = 2
    MaxFaults = 0
INVARIANTS EachValueOnce
