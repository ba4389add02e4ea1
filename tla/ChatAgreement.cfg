\* Two entry nodes, nothing is lost.
CONSTANTS
    n1 = n1  n2 = n2  n3 = n3  n4 = n4  n5 = n5
    u1 = u1  u2 = u2
    Nodes = {n1,n2,n3}
    RF = 2
    Users = {u1, u2}
    Creators = {u1}
    Entry <- OwnEntry
    BlockSize = 1
    BlockHistory = 2
    OverflowChecks = TRUE
    MaxNonce = 3
    MaxLosses = 0
    Restarting = {n1}
    MaxRestarts = 0
SPECIFICATION Spec
INVARIANTS BlockAgreement
CHECK_DEADLOCK FALSE
