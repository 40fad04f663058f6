\* The task while its broadcast is paused, resumed and cancelled, a save is lost
\* and the recipient feed fails.
SPECIFICATION Spec
CONSTANTS
    x1 = x1
    x2 = x2
    u1 = u1
    Executions = {x1, x2}
    Users = {u1}
    Batches = 2
    MaxRetries = 1
    Budget <- Operated
SYMMETRY Interchangeable
INVARIANTS
    NothingSkipped
PROPERTIES
    CancelIsFinal
CHECK_DEADLOCK FALSE
