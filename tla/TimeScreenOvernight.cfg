\* The heading of the table in an app that stays in memory overnight.
SPECIFICATION Spec
CONSTANTS
    MaxVersion = 2
    Content <- MCContent
    TzOffset = 10800
    Instants <- MCInstants
INVARIANT HeadingNamesTable
