\* With credentials: fetched for every attempt, pushed, refused and revoked.
SPECIFICATION Spec
CONSTANTS
    NumGets = 1
    NumPuts = 0
    Transactions = {}
    NumListens = 0
    QueryOf <- MCNoQueries
    NumOnDisconnects = 1
    HasAuth = TRUE
    MaxRefreshes = 1
    MaxVersion = 1
    MaxDelay = 1
    Failure = Failure
INVARIANTS
    LayersAgree
    CredentialFirst
