\* Writes, one of them a transaction, beside a query that is listened to twice.
SPECIFICATION Spec
CONSTANTS
    NumGets = 0
    NumPuts = 2
    Transactions = {2}
    NumListens = 2
    QueryOf <- MCSameQuery
    NumOnDisconnects = 0
    HasAuth = FALSE
    MaxRefreshes = 0
    MaxVersion = 1
    MaxDelay = 1
    Failure = Failure
INVARIANTS
    NothingForgotten
    TransactionSentOnce
    AcknowledgedWriteStays
    ListensServed
    UnackedListensCounted
    CompletedAtMostOnce
