\* Messages written and read over a connection that may break, with peers
\* that do not keep to the protocol.
SPECIFICATION FairSpec
CONSTANTS
    Message <- MCMessage
    Raw <- MCRaw
    NoRouting = NoRouting
    MaxWritten = 2
    RouteWords = {{"ROUTE"}, {"ROUTE", "HI"}}
INVARIANTS
    TypeOK
    ReadAsWritten
    OnlyFaultsEndReading
    BlocksOnlyBetweenMessages
PROPERTIES
    WrittenIsRead
CHECK_DEADLOCK FALSE
