SPECIFICATION Spec
CONSTANTS
    p1 = p1
    p2 = p2
    c1 = c1
    c2 = c2
    c3 = c3
    k1 = k1
    NoPod = NoPod
    NoConn = NoConn
    Pod = {p1, p2}
    Conn = {c1, c2, c3}
    Key = {k1}
    PodOf <- TwoAndOne
    KeyOf <- SameNode
    NumIndexes = 2
    Faults = {}
SYMMETRY Symmetry
INVARIANTS
    UniqueRegistration
    IndexEntriesAreBacked
PROPERTIES
    ImplementsAbstractRegistry
CHECK_DEADLOCK FALSE
