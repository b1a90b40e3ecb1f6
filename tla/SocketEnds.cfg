\* Messages and every end of a connection.
SPECIFICATION FairSpec
CONSTANTS
    InSegments <- MCLong
    OutSegments <- MCNone
    MaxNops = 0
    MaxPings = 0
    Faults <- MCAllFaults
PROPERTIES
    SocketSpec
    AttemptEnds
    EndIsReported
CHECK_DEADLOCK FALSE
