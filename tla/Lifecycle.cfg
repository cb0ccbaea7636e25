CONSTANTS
    Procs = {p1, p2, p3}
    NoProc = NoProc
    HasReadiness = FALSE
    Stops = {"stop", "restart", "force"}
SPECIFICATION Spec
SYMMETRY Symmetry
CHECK_DEADLOCK FALSE
INVARIANTS
    TypeOK
    OneForker
    StateIsCarried
PROPERTY RestIsLeftByRequest
