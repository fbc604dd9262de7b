SPECIFICATION FairSpec
CONSTANTS
    Msgs = {m1, m2, m3}
    FirstMsgs = {m1}
    MaxUid = 3
    MaxValidity = 2
    MaxExpunges = 1
    MaxFaults = 1
INVARIANTS TypeOK NothingSkipped ReadAgainForAReason
PROPERTY FetchedSomeday
