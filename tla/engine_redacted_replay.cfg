CONSTANTS
    a = a
    b = b
    c = c
    w1 = w1
    w2 = w2
    r1 = r1
    r2 = r2
    Run = {r1, r2}
    Worker = {w1, w2}
    Deployments <- RedactedDeployments
    MaxExecutions = 2
SPECIFICATION Spec
INVARIANT ReplayIsIdempotent
CHECK_DEADLOCK FALSE
