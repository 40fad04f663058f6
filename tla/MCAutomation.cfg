\* One journey, one admin with two requests, a fault, a failed look.
SPECIFICATION FairSpec
CONSTANTS
    ann = ann  cyd = cyd
    Admins = {ann}
    Journeys = {cyd}
    Nodes = {1, 2, 3, 4, 5}
    Kind <- Kinds
    Configs = {1, 2}
    NodesOf <- TwoConfigs
    MaxRetries = 2
    MaxNodesPerTick = 5
    Copies = 2
    Mishaps = {"request", "fault", "blind"}
    Bound <- Operated
INVARIANTS TypeOK ExitStopsMail MailOnce ForgottenForCause LiveIsArmed
PROPERTIES EndedIsFinal EveryJourneyEnds
CHECK_DEADLOCK FALSE
