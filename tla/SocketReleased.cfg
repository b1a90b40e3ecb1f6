\* Sockets and timers are released.
SPECIFICATION FairSpec
CONSTANTS
    InSegments <- MCOne
    OutSegments <- MCNone
    MaxNops = 0
    MaxPings = 0
    Faults <- MCAllFaults
PROPERTIES
    Released
CHECK_DEADLOCK FALSE
