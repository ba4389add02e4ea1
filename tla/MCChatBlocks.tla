---------------------------- MODULE MCChatBlocks ----------------------------
(* ChatBlocks with the smallest group that votes: RF = 2, three nodes. *)
EXTENDS ChatBlocks, TLC

CONSTANTS n1, n2, n3, n4, n5, u1, u2

\* Every client talks to the same entry node.
OneEntry  == [u \in Users |-> {n1}]
\* Each client has an entry node of its own.
OwnEntry  == [u \in Users |-> IF u = u1 THEN {n1} ELSE {n2}]
\* A client may talk to two of the nodes.
TwoEntries == [u \in Users |-> {n1, n2}]

\* The nodes no client talks to may be exchanged.
Symmetry == Permutations(Nodes \ {n1})
=============================================================================
