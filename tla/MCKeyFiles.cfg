SPECIFICATION Spec
CONSTANTS
    p1 = p1
    p2 = p2
    p3 = p3
    x = x
    y = y
    Processes = {p1, p2, p3}
    Earlier = Earlier
    Paths = {x, y}
    Jobs <- AllJobs
    Faults = {"search_fails", "write_fails", "killed"}
SYMMETRY Executions
INVARIANTS
    HeldIsStored
    KeygenDelivers
    ClashIsRival
    TornIsAccounted
PROPERTIES
    NeverReplaced
CHECK_DEADLOCK FALSE
