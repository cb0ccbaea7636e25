CONSTANTS
    Keys = {a, b}
    MaxRetries = 2
    Slots = {s1, s2, s3}
    MaxFires = 3
    MaxReloads = 1
    Services = {a, b}
    Globals = 1
    Own = 1
    Kinds <- MCKinds
    Dispatches = {a, b}
    MaxChanges = 1
    RunIds = {a, b}
    MaxProgress = 1
SYMMETRY Symmetry
SPECIFICATION Spec
CHECK_DEADLOCK FALSE
INVARIANTS
    TypeOK
    ScheduleIsBounded
    EveryMatchRuns
    HistoryIsTrue
