SPECIFICATION FairTimeoutSpec
CONSTANTS
    Jobs = {j1, j2}
    Callers = {c1}
    NoJob = NoJob
    MaxExclusive = 1
PROPERTY InterruptCausesJobs
