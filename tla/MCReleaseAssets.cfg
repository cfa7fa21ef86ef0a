SPECIFICATION Spec
CONSTANTS
    j1 = j1
    j2 = j2
    j3 = j3
    Jobs = {j1, j2, j3}
    Builds = {"first", "second"}
    Files <- MCFiles
    Faults = {"request_fails", "answer_lost", "cancelled"}
SYMMETRY Executions
INVARIANTS
    AssetsMatch
    SuccessIsComplete
    RerunSucceeds
PROPERTIES
    AssetsNeverReplaced
CHECK_DEADLOCK FALSE
