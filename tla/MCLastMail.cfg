\* One journey, nothing goes wrong, nobody replies or unsubscribes.
SPECIFICATION Spec
CONSTANTS
    ann = ann  cyd = cyd
    Admins = {ann}
    Journeys = {cyd}
    Nodes = {1, 2}
    Kind <- Welcome
    Configs = {1}
    NodesOf <- WelcomeConfig
    MaxRetries = 2
    MaxNodesPerTick = 5
    Copies = 1
    Mishaps = {"request", "fault", "blind"}
    Bound <- NoMishap
INVARIANT OnlyExitsCancelMail
CHECK_DEADLOCK FALSE
