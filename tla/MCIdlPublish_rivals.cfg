SPECIFICATION FairSpec
CONSTANTS
    p1 = p1
    p2 = p2
    Publishers = {p1, p2}
    Docs <- MCDocs
    Size <- MCSize
    Decoded <- MCDecoded
    Authorities = {"alice", "bob"}
    Jobs <- RivalJobs
    InitialCaps = {2, 5}
    HeaderLen = 1
    DefaultSize = 3
    Increment = 2
    MaxWrite = 2
    Overlap = TRUE
    Faults = {"tx_fails", "client_stops"}
INVARIANTS
    NeverMixed
    SuccessClosesResizeBuffers
    SuccessEndures
PROPERTIES
    PublishedStaysWhole
    GrowthIsOptIn
    EveryRunEnds
CHECK_DEADLOCK FALSE
