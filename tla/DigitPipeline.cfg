SPECIFICATION PipelineSpec
CONSTANTS
    r1 = r1
    r2 = r2
    q1 = q1
    q2 = q2
    None = None
    Replicas <- TwoReplicas
    Requests <- TwoRequests
    Kind <- MixedKinds
    MaxKills = 1
    MaxWebKills = 1
    MaxStops = 1
INVARIANTS PipelineTypeOK OnlyTheSaveWindow NeverWaitsInVain
PROPERTIES EmptyReplyHasCause ModelOrTorn EveryDrawingAnswered ServerSpec
