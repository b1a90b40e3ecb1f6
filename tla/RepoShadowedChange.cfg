SPECIFICATION Spec
CONSTANTS
    Kids <- TwoKids
    NTxns = 2
    NSets = 0
    TxnPaths <- RootAndA
    SetPaths <- JustA
    Hidden = {}
    Picky = {}
    MaxRetries = 2
    MaxForeign = 1
    MaxDrops = 0
    MaxDenials = 0
    MaxPurges = 0
PROPERTY
    ForeignKept
CHECK_DEADLOCK FALSE
