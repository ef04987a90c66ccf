SPECIFICATION Spec
CONSTANTS
    Callers = {c1, c2, c3}
    Threshold = 2
    HalfOpenMax = 2
    ResetTimeout = 1
    MaxFailures = 4
PROPERTY ClosesOnlyFromHalfOpen
