\* Under fairness a broadcast does not stay in "processing", and the task of
\* a cancelled one comes to rest.
SPECIFICATION FairSpec
CONSTANTS
    x1 = x1
    x2 = x2
    u1 = u1
    Executions = {x1, x2}
    Users = {u1}
    Batches = 1
    MaxRetries = 1
    Budget <- Mishaps
PROPERTIES
    ProcessingEnds
    CancelledTaskEnds
CHECK_DEADLOCK FALSE
