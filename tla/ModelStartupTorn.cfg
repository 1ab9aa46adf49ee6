SPECIFICATION Spec
CONSTANTS
    r1 = r1
    r2 = r2
    Replicas <- TwoReplicas
    MaxKills = 1
PROPERTIES ModelEventually
