SPECIFICATION Spec
CONSTANTS
    danzig = danzig
    cracovia = cracovia
    frozen_camp = frozen_camp
    Cities <- ThreeCities
    Partners <- EachOther
    MinLatency <- Shortest
    MaxLatency <- Longest
    Timeout = 8
    Pause = 1
INVARIANTS TypeOK HandlersBound SilentFromTheStart
PROPERTIES TalksOn
