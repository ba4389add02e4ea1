\* Each client has its own entry node; one request is lost and the first entry node restarts empty. Clients stop after MaxNonce actions.
CONSTANTS
    n1 = n1  n2 = n2  n3 = n3  n4 = n4  n5 = n5
    u1 = u1  u2 = u2
    Nodes = {n1,n2,n3}
    RF = 2
    Users = {u1, u2}
    Creators = {u1}
    Entry <- OwnEntry
    BlockSize = 1
    BlockHistory = 1
    OverflowChecks = TRUE
    MaxNonce = 2
    MaxLosses = 1
    Restarting = {n1}
    MaxRestarts = 1
SPECIFICATION Spec
INVARIANTS QuorumBacked NoReplay
CHECK_DEADLOCK FALSE
