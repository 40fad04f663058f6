\* Two callers, two workspaces, room for one full pool and a connection.
SPECIFICATION FairSpec
CONSTANTS
    a = a  b = b  c1 = c1  c2 = c2
    Workspaces = {a, b}
    Callers = {c1, c2}
    PoolBound = 3
    MaxConnections = 3
    PerDB = 2
    SystemOpen = 0
INVARIANTS TypeOK NoPoolLeaks ReservationsMatch
PROPERTIES CreationsWithinLimit EvictionSparesUse EveryCallReturns
CHECK_DEADLOCK FALSE
