\* Two transactions, a set, another client, a lost connection, a refusal and a purge.
SPECIFICATION Spec
CONSTANTS
    Kids <- TwoKids
    NTxns = 2
    NSets = 1
    TxnPaths <- RootAndA
    SetPaths <- JustA
    Hidden = {1}
    Picky = {2}
    MaxRetries = 2
    MaxForeign = 1
    MaxDrops = 1
    MaxDenials = 1
    MaxPurges = 1
INVARIANTS
    OutcomeIsTrue
    IdleShowsServer
    TransactionsInOrder
    AcksFindTheirWrite
PROPERTIES
    LostOnlyToStaleRun
CHECK_DEADLOCK FALSE
