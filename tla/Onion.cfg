SPECIFICATION Spec
CONSTANTS
    ann = ann
    n1 = n1
    n2 = n2
    n3 = n3
    Nodes <- MCNodes
    NoNode = NoNode
    MaxPaths = 2
    Routes <- MCRoutes
    NoRoute <- MCNoRoute
    MaxConns = 2
    Starts <- MCStarts
    MaxErrorStreams = 0
INVARIANTS Slots PathsDoNotCross EndToEnd NothingForgotten
PROPERTIES ToldOnce PathReported
CHECK_DEADLOCK FALSE
