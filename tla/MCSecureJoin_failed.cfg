SPECIFICATION Spec
CHECK_DEADLOCK FALSE
CONSTANTS
    Inviters = {a1, a2}
    Groups = {a2}
    Users = {u1, u2}
    NoOne = NoOne
    MaxJoins = 2
    MaxTroubles = 1
INVARIANT FailedReturnsZero
