SPECIFICATION MailSpec
CONSTANTS
    Group = {a, b, c}
    NoNode = NoNode
    m1 = m1
    Ops <- MailOps
    Starts <- Complete
    BoxCap = 3
    MaxOps = 2
    MaxConnects = 1
INVARIANTS NoMailTwice
CHECK_DEADLOCK FALSE
