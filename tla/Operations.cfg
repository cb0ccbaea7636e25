CONSTANTS
    r1 = r1
    r2 = r2
    r3 = r3
    r4 = r4
    Runs = {r1, r2, r3, r4}
    Plans <- MCPlans
    Slots = 2
    MaxCrashes = 2
SPECIFICATION FairSpec
CHECK_DEADLOCK FALSE
INVARIANTS
    TypeOK
    RowsBeforeRuns
    EndIsRecordedTruly
    PhasesAreCarriedOut
PROPERTY RunnersEnd
