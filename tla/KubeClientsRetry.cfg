SPECIFICATION ProgramsSpec
CONSTANTS
    p1 = p1
    p2 = p2
    u1 = u1
    u2 = u2
    Requests <- TwoRequests
    MaxBody = 3
    BufferLimit = 2
    MaxHostFaults = 1
    Nothing = Nothing
    Arguments <- SomeNumbers
    FirstN = 10
    Width = 7
    Absent = Absent
    MaxOutages = 2
    MaxApplies = 0
    Users <- TwoUsers
    MaxSessions = 3
    MaxAwsFaults = 1
    MaxPresses = 4
INVARIANTS RetriedUntilSuccess
CHECK_DEADLOCK FALSE
