SPECIFICATION Spec
CONSTANTS
    Book <- Examples
    Transient <- Transients
    MaxStarts = 1
    MaxFaults = 0
    MaxSigints = 1
INVARIANTS BackToDefault
CHECK_DEADLOCK FALSE
