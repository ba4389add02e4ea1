------------------------------ MODULE MCOnion ------------------------------
(***************************************************************************)
(* One client, and three servers in a row.  Two paths that get into each   *)
(* other's way without faults, with relays for two streams and for one;    *)
(* one path with faults, and connections by other behaviours.              *)
(***************************************************************************)
EXTENDS Onion

CONSTANTS ann, n1, n2, n3

MCNodes  == {ann, n1, n2, n3}
MCRoutes == {[client |-> ann, path |-> <<n3, n2, n1>>]}
Start(max_streams_, opens_, faults_, others_) ==
    [max_streams |-> max_streams_, opens |-> opens_, faults |-> faults_, others |-> others_]

MCStarts == {Start(0, 2, 0, 0), Start(1, 2, 0, 0), Start(1, 1, 2, 1)}
MCNoRoute == [client |-> NoNode, path |-> <<>>]
=============================================================================
