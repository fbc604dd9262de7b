SPECIFICATION Spec
CHECK_DEADLOCK FALSE
CONSTANTS
    Imap = imap
    Smtp = smtp
    Users = {u1, u2}
    NoThread = NoThread
    MaxOps = 3
    MaxCrashes = 1
SYMMETRY Symmetry
INVARIANTS TypeOK NoTransactionLeftOpen AsOnItsOwn
