SPECIFICATION Spec
CONSTANTS
    r1 = r1
    r2 = r2
    Runs = {r1, r2}
    Jobs <- AllJobs
    Target = 3
    Grant = 2
    MaxBalance = 3
    Faults = {"run_fails", "spent", "sent"}
SYMMETRY Executions
INVARIANTS
    GrantsBounded
    
    
CHECK_DEADLOCK FALSE
