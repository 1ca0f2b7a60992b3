SPECIFICATION FairSpec
CONSTANTS
    p1 = p1
    p2 = p2
    c1 = c1
    c2 = c2
    c3 = c3
    k1 = k1
    NoPod = NoPod
    NoConn = NoConn
    Pod = {p1, p2}
    Conn = {c1, c2}
    Key = {k1}
    PodOf <- OneAndOne
    KeyOf <- SameNode
    NumIndexes = 1
    Faults = {"crash"}
PROPERTIES
    KeysOfDownPodsAreRemoved
CHECK_DEADLOCK FALSE
