\* Two processes of a service with a readiness check, and what must happen.
CONSTANTS
    Procs = {p1, p2}
    NoProc = NoProc
    HasReadiness = TRUE
    Stops = {"stop"}
SPECIFICATION FairSpec
CHECK_DEADLOCK FALSE
PROPERTY NothingHangs
