SPECIFICATION Spec
CONSTANTS
    Kids <- TwoKids
    NTxns = 2
    NSets = 2
    TxnPaths <- RootAndKids
    SetPaths <- JustRoot
    Hidden = {}
    Picky = {}
    MaxRetries = 2
    MaxForeign = 0
    MaxDrops = 0
    MaxDenials = 0
    MaxPurges = 0
INVARIANT
    NoEnumerationTrap
CHECK_DEADLOCK FALSE
