\* One journey, one request, a tick of two nodes.
SPECIFICATION Spec
CONSTANTS
    ann = ann  cyd = cyd
    Admins = {ann}
    Journeys = {cyd}
    Nodes = {1, 2, 3, 4, 5}
    Kind <- Kinds
    Configs = {1}
    NodesOf <- OneConfig
    MaxRetries = 2
    MaxNodesPerTick = 2
    Copies = 1
    Mishaps = {"request", "fault", "blind"}
    Bound <- NoMishap
INVARIANT NotForgotten
CHECK_DEADLOCK FALSE
