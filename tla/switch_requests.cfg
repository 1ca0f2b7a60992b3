SPECIFICATION FairSpec
CONSTANTS
    r1 = r1
    r2 = r2
    r3 = r3
    r4 = r4
    p1 = p1
    NoPod = NoPod
    Pod = {p1}
    Request = {r1, r2, r3, r4}
    KindOf <- EveryKind
INVARIANTS
    JobAnswersAreTrue
    ConnectedMeansFound
PROPERTIES
    RequestsAreAnswered
