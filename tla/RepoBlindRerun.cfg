SPECIFICATION Spec
CONSTANTS
    Kids <- OneKid
    NTxns = 2
    NSets = 0
    TxnPaths <- JustA
    SetPaths <- JustA
    Hidden = {}
    Picky = {}
    MaxRetries = 2
    MaxForeign = 0
    MaxDrops = 0
    MaxDenials = 0
    MaxPurges = 0
PROPERTY
    NoLostUpdate
CHECK_DEADLOCK FALSE
