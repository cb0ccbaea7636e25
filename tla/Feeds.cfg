CONSTANTS
    Adders = {p, q}
    Readers = {r, s}
    RingCap = 2
    PageLimit = 1
    PollLimit = 1
    MaxClock = 3
    QueueCap = 2
    TopicCap = 1
    Bounds <- MCBounds
SPECIFICATION Spec
CHECK_DEADLOCK FALSE
INVARIANTS
    TypeOK
    NothingIsSkipped
    AcceptedIsCarriedOut
PROPERTY CatchesUp
