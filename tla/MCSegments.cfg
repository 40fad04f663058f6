\* Two contacts, one at a time; a build at first, one for a request, one for a day.
SPECIFICATION Spec
CONSTANTS
    Number = 2
    Values = {1, 2}
    Trees = {{1}, {2}}
    MaxBuilds = 3
    BatchSize = 1
    MaxVersion = 2
    MaxRetries = 1
    Disturbances = 2
INVARIANTS TypeOK InGoodHands
PROPERTIES ComesToRest
CHECK_DEADLOCK FALSE
