SPECIFICATION Spec
CONSTANTS
    MaxVersion = 1
    Content <- MCService
    TzOffset = 10800
INVARIANTS
    FullScheduleIsFull
