SPECIFICATION Spec
CONSTANTS
    w1 = w1
    w2 = w2
    w3 = w3
    Workers <- ThreeWorkers
    Filters = 2
    MaxRequests = 3
    MaxFaults = 1
INVARIANTS TypeOK CountersBound EachCounterCountsOnce ReprintBound
PROPERTIES ForksNeverHeal
