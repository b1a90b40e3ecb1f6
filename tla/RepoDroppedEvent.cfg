SPECIFICATION Spec
CONSTANTS
    Kids <- OneKid
    NTxns = 2
    NSets = 0
    TxnPaths <- JustA
    SetPaths <- JustA
    Hidden = {}
    Picky = {}
    MaxRetries = 2
    MaxForeign = 1
    MaxDrops = 0
    MaxDenials = 0
    MaxPurges = 0
INVARIANT
    ListenerSeesServer
CHECK_DEADLOCK FALSE
