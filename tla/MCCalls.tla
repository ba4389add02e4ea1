------------------------------ MODULE MCCalls ------------------------------
(***************************************************************************)
(* The replication of a client's request by calls of other nodes, and rpc, *)
(* which carries calls.  They share no state (what rpc does with a call is *)
(* a choice in Replication); a behaviour is one of one of them.            *)
(***************************************************************************)
EXTENDS Replication, Rpc

VARIABLE layer

callsVars == <<layer, replVars, vars>>

CallsInit == layer \in {"replication", "rpc"} /\ ReplInit /\ Init

CallsNext == /\ \/ layer = "replication" /\ ReplNext /\ UNCHANGED vars
                \/ layer = "rpc" /\ Next /\ UNCHANGED replVars
             /\ UNCHANGED layer

\* In the initial states no action that is treated fairly is enabled, so that the layer that
\* stays there is none the less fair.
CallsSpec == CallsInit /\ [][CallsNext]_callsVars /\ ReplFairness /\ Fairness
=============================================================================
