SPECIFICATION FairSpec
CONSTANTS
    n1 = n1
    n2 = n2
    i1 = i1
    j1 = j1
    j2 = j2
    NoNode = NoNode
    NoId = NoId
    Hi = Hi
    Node = {n1}
    PingId = {i1}
    JobId = {j1, j2}
    BufferedChannelSize = 1
    MaxIncoming = 3
    MaxHi = 1
INVARIANTS
    TypeOK
    JobsAreWrittenInOrder
    AnswersReachTheirPing
    NoRegistrationLeft
    ReplyPrecedesPings
    OnlyBareSendsBlock
PROPERTIES
    OnlyDispatchBlocksUnregister
    CallsReturn
CHECK_DEADLOCK FALSE
