SPECIFICATION FairSpec
CONSTANTS
    Incoming = {i1}
    Outgoing = {o1}
    NoJob = NoJob
    PermanentFlags = "mdnsent"
    MaxFaults = 2
INVARIANTS TypeOK OneReceipt LocationIsKnown DeletedFromServer ReadIsReported
PROPERTIES JobIsDone 
