\* The start screen with partial dictionaries.
SPECIFICATION FairSpec
CONSTANTS
    MaxVersion = 2
    Content <- MCPartial
    TzOffset = 10800
    MaxScreens = 2
    MaxRows = 3
    Failure = Failure
    Malformed = Malformed
INVARIANTS
    TypeOK
    OneDownloadPerScreen
    DownloadIsAccountedFor
    AlertRefusedOnlyWithSchedule
    RowsFollowStore
    CellShowsItsStation
PROPERTIES
    NeverOlder
    CacheSpec
    DownloadReported
    RetryingEnds
