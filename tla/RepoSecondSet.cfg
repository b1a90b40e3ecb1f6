SPECIFICATION FairSpec
CONSTANTS
    Kids <- OneKid
    NTxns = 1
    NSets = 2
    TxnPaths <- JustA
    SetPaths <- JustA
    Hidden = {}
    Picky = {}
    MaxRetries = 2
    MaxForeign = 1
    MaxDrops = 0
    MaxDenials = 0
    MaxPurges = 0
PROPERTY
    EveryTransactionEnds
CHECK_DEADLOCK FALSE
