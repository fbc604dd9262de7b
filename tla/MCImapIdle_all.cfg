SPECIFICATION FairSpec
CONSTANTS
    Jobs = {j1, j2}
    Callers = {c1, c2}
    NoJob = NoJob
    ServerIdles = TRUE
    MaxNetChanges = 2
INVARIANTS TypeOK IdleStartsWithNothingPending PipeBelongsToStream
PROPERTIES WaitIsInterruptible AddedJobIsTried
