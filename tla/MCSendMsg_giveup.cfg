SPECIFICATION FairServerSpec
CHECK_DEADLOCK FALSE
CONSTANTS
    Msgs = {m1}
    Recipients = {r1}
    Self = Self
    NoMsg = NoMsg
    JobRetries = 5
    ServerAccepts = FALSE
    ExtraUpload = TRUE
    MaxLost = 0
    MaxCrashes = 0
    MaxNetChanges = 0
    MaxMemberChanges = 0
PROPERTY RejectedIsGivenUp
