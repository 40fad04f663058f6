SPECIFICATION Spec
CONSTANTS
    w1 = w1
    w2 = w2
    d1 = d1
    d2 = d2
    Workers = {w1, w2}
    Deliveries = {d1}
    MaxAttempts = 2
    Threshold = 2
    BatchSize = 1
    ZapierMade = {TRUE, FALSE}
    Combinations <- Mishaps
SYMMETRY Interchangeable
INVARIANTS
    TypeOK
    OnePostAtATime
    OnceUnlessExcused
    GivenUpForCause
PROPERTIES
    KeepsPromise
CHECK_DEADLOCK FALSE
