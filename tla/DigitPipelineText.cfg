SPECIFICATION PipelineSpec
CONSTANTS
    r1 = r1
    r2 = r2
    q1 = q1
    q2 = q2
    None = None
    Replicas <- TwoReplicas
    Requests <- TwoRequests
    Kind <- Drawings
    MaxKills = 0
    MaxWebKills = 0
    MaxStops = 0
INVARIANTS ResultIsJSON
