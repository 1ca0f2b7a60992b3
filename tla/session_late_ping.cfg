SPECIFICATION FairSpec
CONSTANTS
    n1 = n1
    n2 = n2
    i1 = i1
    j1 = j1
    j2 = j2
    NoNode = NoNode
    NoId = NoId
    Hi = Hi
    Node = {n1}
    PingId = {i1}
    JobId = {}
    BufferedChannelSize = 1
    MaxIncoming = 2
    MaxHi = 1
PROPERTIES
    ClosedSessionsUnregister
CHECK_DEADLOCK FALSE
