SPECIFICATION Spec
CONSTANTS
    Kids <- TwoKids
    NTxns = 3
    NSets = 0
    TxnPaths <- RootAndKids
    SetPaths <- JustA
    Hidden = {}
    Picky = {}
    MaxRetries = 2
    MaxForeign = 1
    MaxDrops = 1
    MaxDenials = 0
    MaxPurges = 0
INVARIANTS
    TypeOK
    TransactionsInOrder
    IdleShowsServer
    AcksFindTheirWrite
CHECK_DEADLOCK FALSE
