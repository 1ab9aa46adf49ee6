SPECIFICATION Spec
CONSTANTS
    Book <- Examples
    Transient <- Transients
    MaxStarts = 2
    MaxFaults = 2
    MaxSigints = 2
INVARIANTS TypeOK TornDownClean NeverBarred NeverAwaitsInVain
PROPERTIES RemovesOnlyItsOwn WebappFindsChecker
CHECK_DEADLOCK FALSE
