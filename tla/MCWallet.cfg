SPECIFICATION Spec
CONSTANTS
    c1 = c1
    c2 = c2
    Commands = {c1, c2}
    Keys = {"alice", "bob", "mint"}
    MintKey = "mint"
    Addresses = {"alice_ata", "bob_ata", "mint_ata", "vault"}
    Ata <- MCAta
    MaxAmount = 5
    Fee = 1
    MaxTurns = 1
    Requests <- AllRequests
    InitialLedgers <- MCLedgers
    Remote = {"mint", "bob"}
    Faults = {"tx_fails", "client_stops", "frozen", "spent", "revoked", "opened"}
INVARIANTS
    SentIsSigned
    FixedSupplySealed
    ValidatedIsAccepted
PROPERTIES
    ImplementsPromise
CHECK_DEADLOCK FALSE
