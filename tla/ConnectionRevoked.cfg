\* The comment on a revoked token.
SPECIFICATION Spec
CONSTANTS
    NumGets = 0
    NumPuts = 0
    Transactions = {}
    NumListens = 0
    QueryOf <- MCNoQueries
    NumOnDisconnects = 0
    HasAuth = TRUE
    MaxRefreshes = 0
    MaxVersion = 1
    MaxDelay = 1
    Failure = Failure
INVARIANT
    RevokedTokenIsRefreshed
