SPECIFICATION Spec
CONSTANTS
    Kids <- OneKid
    NTxns = 1
    NSets = 1
    TxnPaths <- JustA
    SetPaths <- RootAndA
    Hidden = {}
    Picky = {1}
    MaxRetries = 2
    MaxForeign = 2
    MaxDrops = 2
    MaxDenials = 1
    MaxPurges = 1
INVARIANTS
    ListenerSeesServer
CHECK_DEADLOCK FALSE
