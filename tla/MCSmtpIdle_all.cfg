SPECIFICATION FairSpec
CONSTANTS
    Jobs = {j1, j2, j3}
    Callers = {c1, c2}
    NoJob = NoJob
    MaxExclusive = 2
INVARIANTS TypeOK ExclusiveJobIsAlone NoLostWakeup
PROPERTIES ImplementsService TriedUnlessSpinning SuspensionEnds
