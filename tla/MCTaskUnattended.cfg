\* The task with nobody at the console: crashes, shutdowns, overruns, lost
\* dispatches and failed batches.
SPECIFICATION Spec
CONSTANTS
    x1 = x1
    x2 = x2
    u1 = u1
    Executions = {x1, x2}
    Users = {u1}
    Batches = 2
    MaxRetries = 1
    Budget <- Unattended
SYMMETRY Interchangeable
INVARIANTS
    TypeOK
    OneAtATime
    OnceIfUndisturbed
    OnlyFailuresSpendRetries
CHECK_DEADLOCK FALSE
