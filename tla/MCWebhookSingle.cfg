SPECIFICATION FairSpec
CONSTANTS
    w1 = w1
    w2 = w2
    d1 = d1
    d2 = d2
    Workers = {w1}
    Deliveries = {d1, d2}
    MaxAttempts = 2
    Threshold = 2
    BatchSize = 2
    ZapierMade = {FALSE}
    Combinations <- Attended
PROPERTIES
    RetiredForCause
    EverySettled
CHECK_DEADLOCK FALSE
