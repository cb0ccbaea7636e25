CONSTANTS
    svc = svc
    own = own
    Top = Top
    Dirs = {svc, own}
    Parent <- MCParent
    Start <- MCStart
    Services = {svc}
    Versions = {"v1", "v2"}
    Scheduled = {"v1"}
    EventCap = 1
    BatchCap = 1
    MaxChanges = 2
    MaxManual = 1
    Overlapping = FALSE
SPECIFICATION FairSpec
CHECK_DEADLOCK FALSE
INVARIANTS
    TypeOK
    
 
