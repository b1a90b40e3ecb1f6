\* Messages of one and two segments written beside keep-alives.
SPECIFICATION Spec
CONSTANTS
    InSegments <- MCOne
    OutSegments <- MCLong
    MaxNops = 1
    MaxPings = 1
    Faults <- MCWriteFaults
INVARIANTS
    WrittenInOrder
CHECK_DEADLOCK FALSE
