\* The three screens in one process.
SPECIFICATION AppSpec
CONSTANTS
    MaxVersion = 2
    Content <- MCContent
    TzOffset = 10800
    MaxScreens = 2
    MaxRows = 1
    Failure = Failure
    Malformed = Malformed
    Instants <- MCInstants
INVARIANTS
    CachedCellsLead
    WeekdaySheetIsFull
PROPERTIES
    TimeSpec
    FullSpec
    TrapNeedsPendingDownload
