SPECIFICATION Spec
CONSTANTS
    Kids <- TwoKids
    NTxns = 1
    NSets = 2
    TxnPaths <- JustB
    SetPaths <- RootAndA
    Hidden = {1}
    Picky = {}
    MaxRetries = 2
    MaxForeign = 0
    MaxDrops = 0
    MaxDenials = 1
    MaxPurges = 0
INVARIANT
    HiddenNotShown
CHECK_DEADLOCK FALSE
