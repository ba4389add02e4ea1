SPECIFICATION Spec
CONSTANTS
    n1 = n1
    n2 = n2
    n3 = n3
    n4 = n4
    mine = mine
    chat1 = chat1
    chat2 = chat2
    chat3 = chat3
    Peers <- MCPeers
    Topics <- MCTopics
    Me = mine
    Chats <- MCChats
    Group <- MCGroup
    Vaults <- MCVaults
    MinNodes = 3
    MaxPaths = 3
    NoStream = NoStream
    Nothing = Nothing
    MaxJobs = 5
    Asked <- MCAsked
    Starts <- MCStarts
INVARIANTS BootCovers NoOvertaking SelectedIsHeard
PROPERTY DispatchEnds
CHECK_DEADLOCK FALSE
