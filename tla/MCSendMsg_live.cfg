SPECIFICATION FairServerSpec
CHECK_DEADLOCK FALSE
CONSTANTS
    Msgs = {m1, m2}
    Recipients = {r1}
    Self = Self
    NoMsg = NoMsg
    JobRetries = 5
    ServerAccepts = TRUE
    ExtraUpload = FALSE
    MaxLost = 0
    MaxCrashes = 0
    MaxNetChanges = 1
    MaxMemberChanges = 0
PROPERTY JobIsDone
