\* One instance of the application, one broadcast of two recipients.
SPECIFICATION Spec
CONSTANTS
    e1 = e1  e2 = e2  b1 = b1  i1 = i1  w1 = w1
    None = None
    Entries = {e1, e2}
    Broadcasts = {b1}
    SourceOf <- OneBroadcast
    Integrations = {i1}
    Workers = {w1}
    Removable = {}
    MaxAttempts = 2
    Threshold = 2
    BatchSize = 2
    MaxFaults = 1
    AttemptBound = 3
SYMMETRY EntrySymmetry
INVARIANTS TypeOK NoRecipientLost FailuresWithinBudget DuplicatesNeedFaults FailureIsOnRecord OpenCircuitStopsSends
PROPERTIES PausedStayPaused GivenUpIsFinal
CHECK_DEADLOCK FALSE
