SPECIFICATION Spec
CONSTANTS
    w1 = w1
    w2 = w2
    w3 = w3
    Workers <- ThreeWorkers
    Filters = 2
    MaxRequests = 3
    MaxFaults = 1
INVARIANTS TypeOK ReprintBound NoGap MismatchesCharged
PROPERTIES PromiseSpec EveryRequestLeaves
