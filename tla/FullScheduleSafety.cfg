SPECIFICATION Spec
CONSTANTS
    MaxVersion = 2
    Content <- MCContent
    TzOffset = 10800
INVARIANTS
    TypeOK
    WeekdayIsFull
    TrapNeedsFewerHours
