\* Every write is answered on a connection that stays usable.
SPECIFICATION FairSpec
CONSTANTS
    NumGets = 0
    NumPuts = 2
    Transactions = {}
    NumListens = 1
    QueryOf <- MCOneQuery
    NumOnDisconnects = 0
    HasAuth = FALSE
    MaxRefreshes = 0
    MaxVersion = 1
    MaxDelay = 1
    Failure = Failure
PROPERTY
    EveryWriteIsAnswered
