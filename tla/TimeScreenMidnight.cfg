\* The comment on the condition after 00:00.
SPECIFICATION Spec
CONSTANTS
    MaxVersion = 2
    Content <- MCContent
    TzOffset = 10800
    Instants <- MCInstants
INVARIANT LabelLeadsTable
