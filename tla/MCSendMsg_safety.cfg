SPECIFICATION Spec
CHECK_DEADLOCK FALSE
CONSTANTS
    Msgs = {m1, m2}
    Recipients = {r1, r2}
    Self = Self
    NoMsg = NoMsg
    JobRetries = 5
    ServerAccepts = TRUE
    ExtraUpload = TRUE
    MaxLost = 2
    MaxCrashes = 1
    MaxNetChanges = 0
    MaxMemberChanges = 1
CONSTRAINT FewDisturbances
SYMMETRY Symmetry
INVARIANTS TypeOK PendingHasJob DuplicatesAreExplained
PROPERTIES  ImplementsOutbox
