\* Replication: the real replication factor, one node more than the group has; two calls may be
\* lost.  Rpc: one peer with two connections.  Clients stop after their calls.
SPECIFICATION CallsSpec
CONSTANTS
    Requests = {r1}
    Remotes = {q1, q2, q3, q4, q5}
    RF = 4
    Oks = {v}
    Errs = {e}
    Nothing = Nothing
    MaxLost = 2
    Peers = {p1}
    Conns = {c1, c2}
    NoConn = NoConn
    MaxFaults = 2
    MaxIncoming = 1
    MaxCalls = 2
    MaxServed = 1
INVARIANTS MajorityBacked StreamsAccounted WrittenOnce
PROPERTIES AgreedIsAnswered PromiseKept OutcomeIsFinal RequestAnswered
CHECK_DEADLOCK FALSE
