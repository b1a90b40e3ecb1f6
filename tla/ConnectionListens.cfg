\* Listens: one query is listened to again after it was removed or refused.
SPECIFICATION Spec
CONSTANTS
    NumGets = 0
    NumPuts = 0
    Transactions = {}
    NumListens = 2
    QueryOf <- MCSameQuery
    NumOnDisconnects = 0
    HasAuth = TRUE
    MaxRefreshes = 0
    MaxVersion = 1
    MaxDelay = 1
    Failure = Failure
INVARIANTS
    TypeOK
    ListensServed
    UnackedListensCounted
