\* The documented promise of getData.
SPECIFICATION FairSpec
CONSTANTS
    NumGets = 1
    NumPuts = 0
    Transactions = {}
    NumListens = 0
    QueryOf <- MCNoQueries
    NumOnDisconnects = 0
    HasAuth = FALSE
    MaxRefreshes = 0
    MaxVersion = 1
    MaxDelay = 1
    Failure = Failure
PROPERTY
    EveryGetCompletes
