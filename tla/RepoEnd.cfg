SPECIFICATION FairSpec
CONSTANTS
    Kids <- OneKid
    NTxns = 2
    NSets = 1
    TxnPaths <- JustA
    SetPaths <- JustA
    Hidden = {2}
    Picky = {}
    MaxRetries = 2
    MaxForeign = 1
    MaxDrops = 1
    MaxDenials = 0
    MaxPurges = 0
PROPERTY
    EveryTransactionEnds
CHECK_DEADLOCK FALSE
