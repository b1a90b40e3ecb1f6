SPECIFICATION Spec
CONSTANTS
    Kids <- TwoKids
    NTxns = 0
    NSets = 3
    TxnPaths <- JustA
    SetPaths <- RootAndA
    Hidden = {}
    Picky = {}
    MaxRetries = 2
    MaxForeign = 1
    MaxDrops = 1
    MaxDenials = 2
    MaxPurges = 0
INVARIANT
    ListenerSeesServer
CHECK_DEADLOCK FALSE
