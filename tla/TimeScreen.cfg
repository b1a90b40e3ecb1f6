\* The time screen from Friday morning to Saturday, with a schedule replaced under it.
SPECIFICATION Spec
CONSTANTS
    MaxVersion = 2
    Content <- MCContent
    TzOffset = 10800
    Instants <- MCInstants
INVARIANTS
    RowsKeepTheirHour
    LabelLeadsTableByDay
    AnnouncedTrainIsNext
PROPERTIES
    NoTrapBeforeDeparture
