CONSTANTS
    Keys = {a, b}
    MaxRetries = 0
    Slots = {s1}
    MaxFires = 0
    MaxReloads = 0
    Services = {a, b}
    Globals = 3
    Own = 1
    Kinds <- MCKinds
    Dispatches = {a}
    MaxChanges = 0
    RunIds = {a}
    MaxProgress = 1
SYMMETRY Symmetry
SPECIFICATION Spec
CHECK_DEADLOCK FALSE
INVARIANT EveryMatchRuns
