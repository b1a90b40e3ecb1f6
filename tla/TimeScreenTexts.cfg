\* What the label, the table and the heading say, at every hour of the day.
SPECIFICATION Spec
CONSTANTS
    MaxVersion = 2
    Content <- MCContent
    TzOffset = 10800
    Instants <- MCInstants
INVARIANT ScreenTellsNextTrains
