SPECIFICATION Spec
CONSTANTS
    p1 = p1
    p2 = p2
    Publishers = {p1, p2}
    Docs <- MCDocs
    Size <- MCSize
    Decoded <- MCDecoded
    Authorities = {"alice"}
    Jobs <- ResizingJobs
    InitialCaps = {2, 5}
    HeaderLen = 1
    DefaultSize = 3
    Increment = 2
    MaxWrite = 2
    Overlap = FALSE
    Faults = {"client_stops"}
SYMMETRY Runs
PROPERTIES
    ResizeRestoresOriginal
CHECK_DEADLOCK FALSE
