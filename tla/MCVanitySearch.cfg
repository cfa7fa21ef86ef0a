SPECIFICATION FairSpec
CONSTANTS
    w1 = w1
    w2 = w2
    w3 = w3
    Workers <- ThreeWorkers
    Batch = 2
    MaxTries = 3
    Panics = TRUE
INVARIANTS
    OneWinner
    SenderNeverWaits
    NeverEmptyHanded
    AttemptsExact
PROPERTIES
    SearchEnds
CHECK_DEADLOCK FALSE
