---------------------------- MODULE Membership ----------------------------
(***************************************************************************)
(* How servers learn which nodes are in the network: on its start a server *)
(* reads the list of the node_staker contract (deal_with_chain), puts it   *)
(* into its routing table (Server::new), and from then on follows the      *)
(* contract's events (handle_stake_event).                                 *)
(*                                                                         *)
(* The chain runs the contract on its best block.  The list is read there, *)
(* but a subscription delivers the events of blocks as they become final.  *)
(* The contract takes any bytes for a node's id, valid or not, and the     *)
(* same for several stakes.  The table of a server has a number of routes  *)
(* per id: the list is put in as it is, and an event replaces or removes   *)
(* one route (RoutingTable has the sorted vector).                         *)
(***************************************************************************)
EXTENDS NodeStaker

CONSTANTS
    Servers,
    ValidIds,       \* the node ids that are keys: unpack_node_id takes them
    MaxMissed       \* bound: the events a server fails to read from the chain

ASSUME MemberAssumption == ValidIds \subseteq NodeIds /\ MaxMissed \in Nat

VARIABLES
    final,      \* how many events of the log are in final blocks
    stage,      \* stage[s]: "off", "listed" (before it subscribes) or "on"
    table,      \* table[s][e]: the routes to e in the routing table of s
    delivered,  \* delivered[s]: the events of the log that s has been delivered, or skips
    missed,     \* events lost to read errors so far
    gapless     \* history: since its list s has skipped no event its list did not contain

serverVars == <<stage, table, delivered, missed, gapless>>
memberVars == <<stakerVars, final, serverVars>>

-----------------------------------------------------------------------------

StakesFor(e) == {i \in Staked : stakes[i].id = e}

\* What list returns: an entry per stake.
Listed == [e \in NodeIds |-> Cardinality(StakesFor(e))]

NoRoutes == [e \in NodeIds |-> 0]

MemberInit == /\ StakerInit
              /\ final = 0
              /\ stage = [s \in Servers |-> "off"]
              /\ table = [s \in Servers |-> NoRoutes]
              /\ delivered = [s \in Servers |-> 0]
              /\ missed = 0
              /\ gapless = [s \in Servers |-> TRUE]

\* The contract executes a message.
Chain == StakerNext /\ UNCHANGED <<final, serverVars>>

Finalize == /\ \E n \in final + 1 .. Len(log) : final' = n
            /\ UNCHANGED <<stakerVars, serverVars>>

\* client.list, on the best block.  How far the log was is kept in delivered.
FetchList(s) == /\ stage[s] = "off"
                /\ stage' = [stage EXCEPT ![s] = "listed"]
                /\ table' = [table EXCEPT ![s] = Listed]
                /\ delivered' = [delivered EXCEPT ![s] = Len(log)]
                /\ UNCHANGED <<stakerVars, final, missed, gapless>>

\* unpack_node_id takes every id of the list; Server::new fails otherwise.
ListUnpacks(s) == \A e \in NodeIds \ ValidIds : table[s][e] = 0

\* node_contract_event_stream: the events of blocks that become final from now on.  The server
\* starts if its list can be unpacked.
Subscribe(s) == /\ stage[s] = "listed" /\ ListUnpacks(s)
                /\ stage' = [stage EXCEPT ![s] = "on"]
                /\ delivered' = [delivered EXCEPT ![s] = final]
                /\ gapless' = [gapless EXCEPT ![s] = final <= delivered[s]]
                /\ UNCHANGED <<stakerVars, final, table, missed>>

\* Mutant of AfterEvent: the event of a node that leaves is taken for one that joins.
AfterEventJoined(routes, event) == [routes EXCEPT ![event.node] = IF @ = 0 THEN 1 ELSE @]

\* insert replaces the route there is, remove takes one away.
AfterEvent(routes, event) ==
    [routes EXCEPT ![event.node] = IF event.type = "Joined" THEN IF @ = 0 THEN 1 ELSE @
                                   ELSE IF @ = 0 THEN 0 ELSE @ - 1]

\* An event about an id that is not valid is logged and left.
HandleStakeEvent(s) ==
    /\ stage[s] = "on" /\ delivered[s] < final
    /\ delivered' = [delivered EXCEPT ![s] = @ + 1]
    /\ LET event == log[delivered[s] + 1]
       IN  table' = IF event.node \in ValidIds
                    THEN [table EXCEPT ![s] = AfterEvent(@, event)] ELSE table
    /\ UNCHANGED <<stakerVars, final, stage, missed, gapless>>

\* Reading a block fails: the error is logged, and the block's events are gone.
MissEvent(s) == /\ stage[s] = "on" /\ delivered[s] < final
                /\ missed < MaxMissed
                /\ missed' = missed + 1
                /\ delivered' = [delivered EXCEPT ![s] = @ + 1]
                /\ gapless' = [gapless EXCEPT ![s] = FALSE]
                /\ UNCHANGED <<stakerVars, final, stage, table>>

\* The server stops, or does not get to start.  The table is only kept in memory.
Restart(s) == /\ stage[s] # "off"
              /\ stage' = [stage EXCEPT ![s] = "off"]
              /\ table' = [table EXCEPT ![s] = NoRoutes]
              /\ UNCHANGED <<stakerVars, final, delivered, missed, gapless>>

MemberNext == \/ Chain
              \/ Finalize
              \/ \E s \in Servers : \/ FetchList(s) \/ Subscribe(s)
                                    \/ HandleStakeEvent(s) \/ MissEvent(s) \/ Restart(s)

MemberSpec == MemberInit /\ [][MemberNext]_memberVars

-----------------------------------------------------------------------------

\* A server that has handled every event there is.
CaughtUp(s) == stage[s] = "on" /\ delivered[s] = Len(log)

\* No event of the log after the k-th is about the node.
Silent(k, e) == \A j \in k + 1 .. Len(log) : log[j].node # e

\* The last event about the node told that a stake for it was reclaimed.
LastReclaimed(e) == \E k \in DOMAIN log : log[k] = Event("Reclaimed", e) /\ Silent(k, e)

\* A server that has handled all events has no more routes to a node than the node has stakes,
\* and so none to a node that has left; and it has a route to every staked node with a valid id,
\* unless another stake for the same node was reclaimed last.  This is so even after it was
\* delivered events that its list contained already, if nothing became final between its list
\* and its subscription and it missed no event; a restart makes up for both.
TablesMatchStakes ==
    \A s \in Servers : CaughtUp(s) /\ gapless[s] => \A e \in ValidIds :
        /\ table[s][e] <= Listed[e]
        /\ Listed[e] > 0 /\ ~LastReclaimed(e) => table[s][e] > 0
=============================================================================
