SPECIFICATION Spec
CHECK_DEADLOCK FALSE
CONSTANTS
    Peers = {p1, p2}
    Keys = {k1, k2}
    NoPeer = NoPeer
    NoKey = NoKey
    Dates = {0, 1, 2}
    MaxInputs = 2
SYMMETRY Symmetry
CONSTRAINTS MessageNotDone FewHeaders
INVARIANTS TypeOK NewestMailCounts MembersAreVerified
PROPERTY ImplementsVerifiedGroup
