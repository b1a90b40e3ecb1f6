\* The table of a downloaded dictionary with a gap.
SPECIFICATION Spec
CONSTANTS
    MaxVersion = 2
    Content <- MCPartial
    TzOffset = 10800
    MaxScreens = 1
    MaxRows = 3
    Failure = Failure
    Malformed = Malformed
INVARIANT LoadedTableShowsEachStationOnce
