\* Liveness: one instance, no faults, the integration may come and go.
SPECIFICATION FairSpec
CONSTANTS
    e1 = e1  e2 = e2  b1 = b1  i1 = i1  w1 = w1
    None = None
    Entries = {e1}
    Broadcasts = {b1}
    SourceOf <- OneBroadcast
    Integrations = {i1}
    Workers = {w1}
    Removable = {i1}
    MaxAttempts = 2
    Threshold = 1
    BatchSize = 2
    MaxFaults = 0
    AttemptBound = 3
PROPERTY Drains
CHECK_DEADLOCK FALSE
