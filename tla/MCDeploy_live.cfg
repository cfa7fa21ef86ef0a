SPECIFICATION FairSpec
CONSTANTS
    r1 = r1
    r2 = r2
    Runs = {r1, r2}
    Jobs <- FundedJobs
    Target = 4
    Grant = 1
    MaxBalance = 4
    Faults = {"spent"}
PROPERTIES
    EveryRunEnds
CHECK_DEADLOCK FALSE
