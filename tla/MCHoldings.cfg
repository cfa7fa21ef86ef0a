SPECIFICATION SessionSpec
CONSTANTS
    Base = 3
    MaxAmount = 100
    Scales = {0, 1, 2, 3, 6}
    Texts <- AllTexts
    Addresses <- MCAddresses
    Mints <- MCMints
    DecimalsOf <- MCDecimalsOf
    Owners = {"alice", "bob"}
    Balances = {0, 7}
    BatchSize = 2
    Queries <- MCQueries
    InitialHoldings <- MCHoldings
    Faults = {"request_fails", "answer_short", "answer_bad"}
    MaxTurns = 2
INVARIANTS
    ParsedIsDenoted
    ShownIsRead
    ReportIsSnapshot
CHECK_DEADLOCK FALSE
