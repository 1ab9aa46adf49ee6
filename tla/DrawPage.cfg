SPECIFICATION Spec
CONSTANTS
    MaxStrokes = 3
    MaxPosts = 3
INVARIANTS TypeOK RestingResultFits
PROPERTIES NeverGoesBack EveryResultShown
