SPECIFICATION MailSpec
CONSTANTS
    Group = {a, b, c}
    NoNode = NoNode
    m1 = m1
    Ops <- AllOps
    Starts <- AllStarts
    BoxCap = 2
    MaxOps = 2
    MaxConnects = 1
INVARIANTS AckedVaultDurable ToldMailArrived RestoringIsFed
PROPERTIES NoncesGoForward
SYMMETRY MailSymmetry
CHECK_DEADLOCK FALSE
