SPECIFICATION Spec
CONSTANTS
    p1 = p1
    p2 = p2
    p3 = p3
    Publishers = {p1, p2, p3}
    Docs <- MCDocs
    Size <- MCSize
    Decoded <- MCDecoded
    Authorities = {"alice"}
    Jobs <- AllJobs
    InitialCaps = {2, 5}
    HeaderLen = 1
    DefaultSize = 3
    Increment = 2
    MaxWrite = 2
    Overlap = FALSE
    Faults = {"tx_fails"}
SYMMETRY Runs
INVARIANTS
    UndisturbedRunSucceeds
PROPERTIES
    OnlySetReplaces
    ResizeRestoresOriginal
CHECK_DEADLOCK FALSE
