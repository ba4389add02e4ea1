---------------------------- MODULE MajorityCall ----------------------------
(***************************************************************************)
(* What replication promises a client, without how it is done: a group of  *)
(* nodes is asked, each of them votes for a result once, and the client is *)
(* told one thing, once: a result that a majority voted for, that there    *)
(* can be no majority, or, before anybody is asked, that the request is    *)
(* rejected.  Replication implements this specification.                   *)
(***************************************************************************)
EXTENDS Integers, FiniteSets

CONSTANTS Requests, Peers, RF, Results, Nothing

VARIABLES
    group,  \* group[r]: the nodes that are asked
    votes,  \* votes[r][p]: the result p voted for, or Nothing
    told    \* told[r]: what the client was told

promiseVars == <<group, votes, told>>

Told(kind, result) == [kind |-> kind, result |-> result]
Untold             == Told("Untold", Nothing)

Init == /\ group = [r \in Requests |-> {}]
        /\ votes = [r \in Requests |-> [p \in Peers |-> Nothing]]
        /\ told  = [r \in Requests |-> Untold]

Tell(r, message) == /\ told[r] = Untold
                    /\ told' = [told EXCEPT ![r] = message]
                    /\ UNCHANGED <<group, votes>>

Reject(r) == /\ group[r] = {}
             /\ \E message \in {Told("InvalidTopic", Nothing)} \cup {Told("Inner", v) : v \in Results} :
                   Tell(r, message)

Ask(r) == /\ told[r] = Untold /\ group[r] = {}
          /\ \E asked \in SUBSET Peers : /\ Cardinality(asked) <= RF
                                         /\ group' = [group EXCEPT ![r] = asked]
          /\ UNCHANGED <<votes, told>>

Vote(r, p) == /\ p \in group[r] /\ votes[r][p] = Nothing
              /\ \E v \in Results : votes' = [votes EXCEPT ![r][p] = v]
              /\ UNCHANGED <<group, told>>

\* Nodes asked about r that voted for one of the given results.
For(r, results) == {p \in group[r] : votes[r][p] \in results}

Decide(r) == \E v \in Results : /\ Cardinality(For(r, {v})) > RF \div 2
                                /\ Tell(r, Told("Response", v))

\* Even with every vote that is still to come there is no majority for the entry's result.
GiveUp(r) == \E v \in Results : /\ Cardinality(For(r, {v, Nothing})) <= RF \div 2
                                /\ Tell(r, Told("NoMajority", v))

Next == \/ \E r \in Requests : Reject(r) \/ Ask(r) \/ Decide(r) \/ GiveUp(r)
        \/ \E r \in Requests, p \in Peers : Vote(r, p)

Spec == Init /\ [][Next]_promiseVars
=============================================================================
