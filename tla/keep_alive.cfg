\* In half seconds, with the default of PongWait: pings, pongs and messages of a node that may slow down or vanish.
SPECIFICATION FairSpec
CONSTANTS
    PongWait = 50
    Latency = 2
    Jitter = 2
    Never = Never
INVARIANTS
    TypeOK
    PromptPeerIsKept
PROPERTIES
    VanishedPeerIsNoticed
CHECK_DEADLOCK FALSE
