------------------------------ MODULE MCClient ------------------------------
(***************************************************************************)
(* Four nodes, and groups of two of them for a profile and three chats: no *)
(* node replicates all chats.                                              *)
(***************************************************************************)
EXTENDS ClientNode

CONSTANTS n1, n2, n3, n4, mine, chat1, chat2, chat3

MCPeers == {n1, n2, n3, n4}
MCTopics == {mine, chat1, chat2, chat3}
MCChats == {chat1, chat2, chat3}
MCGroup == [t \in MCTopics |-> CASE t = mine  -> {n1, n2}
                                 [] t = chat1 -> {n2, n3}
                                 [] t = chat2 -> {n3, n4}
                                 [] t = chat3 -> {n4, n1}]
MCVaults == {{}, MCChats}
MCAsked == {chat1, chat2}
MCStarts == {[uses |-> 3, events |-> 0, faults |-> 0], [uses |-> 2, events |-> 0, faults |-> 1],
             [uses |-> 1, events |-> 2, faults |-> 1]}
=============================================================================
