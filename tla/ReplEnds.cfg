\* No call is lost.
CONSTANTS
    Requests = {r1}
    Remotes = {p1, p2, p3, p4}
    RF = 4
    Oks = {v}
    Errs = {e}
    Nothing = Nothing
    MaxLost = 0
SPECIFICATION ReplFairSpec
PROPERTY RequestEnds
CHECK_DEADLOCK FALSE
