CONSTANTS
    MaxTriggers = 4
    MaxTrackers = 2
    Policies = {"replace", "serialize", "parallel", "debounce"}
    MaxQueue = 2
SPECIFICATION FairSpec
CHECK_DEADLOCK FALSE
INVARIANTS
    TypeOK
    RunsAreInHand
    ExecutedAsAnswered
PROPERTIES
    ServedInLine
    CallsReturn
