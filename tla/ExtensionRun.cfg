CONSTANTS
    ChanCap = 2
    MaxLines = 3
SPECIFICATION RunFairSpec
CHECK_DEADLOCK FALSE
INVARIANTS
    RunTypeOK
    VerdictFollowsCause
PROPERTY RunsEndUnlessStuck
