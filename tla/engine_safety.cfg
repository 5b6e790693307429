CONSTANTS
    a = a
    b = b
    c = c
    w1 = w1
    r1 = r1
    r2 = r2
    w2 = w2
    Run = {r1, r2}
    Worker = {w1, w2}
    Deployments <- EngineDeployments
    MaxExecutions = 2
SPECIFICATION Spec
INVARIANTS TypeOK LogIsAhead ReplaySkipsCompleted ReplayAgrees InputKept
PROPERTIES CompletedIsFinal
CHECK_DEADLOCK FALSE
