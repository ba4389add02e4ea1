\* All clients use one entry node, nothing is lost, nodes keep handling requests. Clients stop after MaxNonce actions.
CONSTANTS
    n1 = n1  n2 = n2  n3 = n3  n4 = n4  n5 = n5
    u1 = u1  u2 = u2
    Nodes = {n1,n2,n3}
    RF = 2
    Users = {u1}
    Creators = {u1}
    Entry <- OneEntry
    BlockSize = 1
    BlockHistory = 1
    OverflowChecks = TRUE
    MaxNonce = 4
    MaxLosses = 0
    Restarting = {n1}
    MaxRestarts = 0
SPECIFICATION FairSpec
INVARIANTS TypeOK OneProposalPerNumber BlockAgreement
PROPERTIES VoteEnds
CHECK_DEADLOCK FALSE
