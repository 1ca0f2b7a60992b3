\* A ROUTE message that mentions HI, in the name of a node for instance.
SPECIFICATION Spec
CONSTANTS
    Message <- MCMessage
    Raw <- MCRaw
    NoRouting = NoRouting
    MaxWritten = 1
    RouteWords = {{"ROUTE", "HI"}}
INVARIANTS
    RouteTablesAreReadAsSuch
CHECK_DEADLOCK FALSE
