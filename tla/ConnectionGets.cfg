\* The build of the app: no credentials, two gets.
SPECIFICATION FairSpec
CONSTANTS
    NumGets = 2
    NumPuts = 0
    Transactions = {}
    NumListens = 0
    QueryOf <- MCNoQueries
    NumOnDisconnects = 0
    HasAuth = FALSE
    MaxRefreshes = 0
    MaxVersion = 2
    MaxDelay = 2
    Failure = Failure
INVARIANTS
    KeepsTrying
PROPERTIES
    ServiceSpec
    EveryGetEnds
    Reconnects
