\* A keep-alive frame beside a message of two segments.
SPECIFICATION Spec
CONSTANTS
    InSegments <- MCOne
    OutSegments <- MCLong
    MaxNops = 1
    MaxPings = 0
    Faults <- MCWriteFaults
INVARIANTS
    HeaderCountsSegments
CHECK_DEADLOCK FALSE
