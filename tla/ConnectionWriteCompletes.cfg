\* The documented promise of a write with a completion block.
SPECIFICATION FairSpec
CONSTANTS
    NumGets = 0
    NumPuts = 1
    Transactions = {}
    NumListens = 1
    QueryOf <- MCOneQuery
    NumOnDisconnects = 0
    HasAuth = FALSE
    MaxRefreshes = 0
    MaxVersion = 1
    MaxDelay = 1
    Failure = Failure
PROPERTY
    EveryWriteCompletes
