---------------------------- MODULE Replication ----------------------------
(***************************************************************************)
(* Repl, the wrapper that executes a client's request on the node that     *)
(* received it and on the other nodes of the topic's replication group     *)
(* (nodes/server/src/handlers/replicated.rs), together with the nest of    *)
(* suspended handlers (handlers.rs) that hands rpc events to it.           *)
(*                                                                         *)
(* The wrapped handler is any handler: what it computes is a choice over   *)
(* the encoded results, here and on each of the other nodes.  An rpc call  *)
(* is known by the request and the node it asks, because a request asks a  *)
(* node once and call ids are unique.                                      *)
(***************************************************************************)
EXTENDS Integers, FiniteSets

CONSTANTS
    Requests,   \* the requests clients send to this node
    Remotes,    \* the other nodes of the network
    RF,         \* REPLICATION_FACTOR
    Oks, Errs,  \* encoded results of the wrapped handler
    Nothing,    \* no result yet
    MaxLost     \* bound: the calls that are never answered

ASSUME ReplicationAssumption == RF \in Nat /\ MaxLost \in Nat /\ IsFiniteSet(Remotes)
ASSUME ResultAssumption == Oks \cap Errs = {} /\ Nothing \notin Oks \cup Errs

VARIABLES
    handler,    \* handler[r]: the suspended handler of request r
    answer,     \* answer[r]: what the client that sent r has been told; for NoMajority
                \* also, as a history, the result of this node
    calls,      \* calls[r][p]: the rpc call that asks p to execute r
    executed,   \* executed[r][p]: what the wrapped handler computed on node p
    up          \* this node has not panicked

replVars == <<handler, answer, calls, executed, up>>

-----------------------------------------------------------------------------

Results  == Oks \cup Errs
Majority == RF \div 2

ReplErrors == {"InvalidTopic", "NoMajority"}

Idle(status) == [tag |-> status, response |-> Nothing, ongoing |-> {}, matched |-> 0]

Replicating(response, ongoing, matched) ==
    [tag |-> "Replicating", response |-> response, ongoing |-> ongoing, matched |-> matched]

\* A request has not arrived, waits for the wrapped handler, or has left the nest.
New       == Idle("New")
Resolving == Idle("Resolving")
Gone      == Idle("Gone")

Told(kind, result) == [kind |-> kind, result |-> result]
Untold             == Told("Untold", Nothing)

LostCalls == {rp \in Requests \X Remotes : calls[rp[1]][rp[2]] = "lost"}

ReplInit == /\ handler  = [r \in Requests |-> New]
            /\ answer   = [r \in Requests |-> Untold]
            /\ calls    = [r \in Requests |-> [p \in Remotes |-> "none"]]
            /\ executed = [r \in Requests |-> [p \in Remotes |-> Nothing]]
            /\ up       = TRUE

-----------------------------------------------------------------------------

\* The handler is done: its instance leaves the nest and the client is told.
Finish(r, told) == /\ handler' = [handler EXCEPT ![r] = Gone]
                   /\ answer'  = [answer EXCEPT ![r] = told]

\* The others among the RF + 1 nodes closest to the topic.  This node is one of the RF + 1
\* when a request arrives (is_valid_topic), but the routing table may change while the
\* wrapped handler waits for other nodes.
OtherReplicators(r) ==
    {others \in SUBSET Remotes : Cardinality(others) <= IF handler[r] = New THEN RF ELSE RF + 1}

\* rpc.request of every other replicator.  The buffer of a stream may be full, which is
\* an error and leaves the node out; while a stream is being opened already the request
\* is dropped, and nobody is told.  The calls are collected into a vector of capacity RF.
NewReplicating(r, response) ==
    \E others \in OtherReplicators(r) : \E asked \in SUBSET others : \E dropped \in SUBSET asked :
        /\ Cardinality(asked) <= RF
        /\ Cardinality(dropped) + Cardinality(LostCalls) <= MaxLost
        /\ handler' = [handler EXCEPT ![r] = Replicating(response, asked, 0)]
        /\ calls' = [calls EXCEPT ![r] = [p \in Remotes |-> IF p \in dropped THEN "lost"
                                                      ELSE IF p \in asked THEN "sent" ELSE "none"]]

\* More than RF calls do not fit: the process panics.
Overflow(r) == /\ up /\ handler[r] = Resolving
               /\ \E others \in OtherReplicators(r) : Cardinality(others) > RF
               /\ up' = FALSE
               /\ UNCHANGED <<handler, answer, calls, executed>>

InvalidTopic(r) == /\ up /\ handler[r] = New
                   /\ Finish(r, Told("InvalidTopic", Nothing))
                   /\ UNCHANGED <<calls, executed, up>>

\* The wrapped handler waits for other nodes before it can compute a result.
Suspend(r) == /\ up /\ handler[r] = New
              /\ handler' = [handler EXCEPT ![r] = Resolving]
              /\ UNCHANGED <<answer, calls, executed, up>>

\* The wrapped handler has a result, at once or when it is resumed.
Fail(r) == /\ up /\ handler[r] \in {New, Resolving}
           /\ \E e \in Errs : Finish(r, Told("Inner", e))
           /\ UNCHANGED <<calls, executed, up>>

Replicate(r) == /\ up /\ handler[r] \in {New, Resolving}
                /\ \E v \in Oks : NewReplicating(r, v)
                /\ UNCHANGED <<answer, executed, up>>

\* Another node executes the request.
Execute(r, p) == /\ calls[r][p] = "sent" /\ executed[r][p] = Nothing
                 /\ \E v \in Results : executed' = [executed EXCEPT ![r][p] = v]
                 /\ UNCHANGED <<handler, answer, calls, up>>

\* The stream to a node fails.  Its calls are moved to the events of the rpc behaviour,
\* from where nothing takes them.
StreamFails(p) ==
    LET open == {r \in Requests : calls[r][p] = "sent"}
    IN  /\ open # {}
        /\ Cardinality(open) + Cardinality(LostCalls) <= MaxLost
        /\ calls' = [r \in Requests |-> IF r \in open THEN [calls[r] EXCEPT ![p] = "lost"]
                                                      ELSE calls[r]]
        /\ UNCHANGED <<handler, answer, executed, up>>

-----------------------------------------------------------------------------
(* resume, of a handler in state h with the remote response of node p *)

Matched(h, remote) == h.matched + IF remote = h.response THEN 1 ELSE 0

Ongoing(h, p) == h.ongoing \ {p}

\* Mutant of Succeeded: half of the others is enough.
SucceededHalf(h, remote) == Matched(h, remote) >= Majority

\* Mutant of Succeeded: all the others have to agree.
SucceededAll(h, remote) == Matched(h, remote) = RF

Succeeded(h, remote) == Matched(h, remote) > Majority

\* Mutant of Hopeless: the answers that are still to come are forgotten.
HopelessEarly(h, p, remote) == Matched(h, remote) < Majority

Hopeless(h, p, remote) == Cardinality(Ongoing(h, p)) + Matched(h, remote) < Majority

Resume(r, p) ==
    LET h == handler[r]
        remote == executed[r][p]
    IN  IF h.tag # "Replicating" \/ p \notin h.ongoing
          THEN UNCHANGED <<handler, answer>>
        ELSE IF Succeeded(h, remote) THEN Finish(r, Told("Response", remote))
        ELSE IF Hopeless(h, p, remote) THEN Finish(r, Told("NoMajority", h.response))
        ELSE /\ handler' = [handler EXCEPT ![r] = Replicating(h.response, Ongoing(h, p),
                                                              Matched(h, remote))]
             /\ UNCHANGED answer

\* The response of node p arrives.
RemoteResponse(r, p) == /\ up /\ calls[r][p] = "sent" /\ executed[r][p] # Nothing
                        /\ calls' = [calls EXCEPT ![r][p] = "answered"]
                        /\ Resume(r, p)
                        /\ UNCHANGED <<executed, up>>

ReplNext == \/ \E r \in Requests : \/ InvalidTopic(r) \/ Suspend(r) \/ Fail(r)
                                   \/ Replicate(r) \/ Overflow(r)
            \/ \E r \in Requests, p \in Remotes : Execute(r, p) \/ RemoteResponse(r, p)
            \/ \E p \in Remotes : StreamFails(p)

ReplSpec == ReplInit /\ [][ReplNext]_replVars

\* The event loops of the nodes take every request and every response from their streams.
ReplFairness == \A r \in Requests, p \in Remotes : /\ WF_replVars(Execute(r, p))
                                                  /\ WF_replVars(RemoteResponse(r, p))

ReplFairSpec == ReplSpec /\ ReplFairness

-----------------------------------------------------------------------------

Handlers == [tag : {"New", "Resolving", "Replicating", "Gone"}, response : Oks \cup {Nothing},
             ongoing : SUBSET Remotes, matched : Nat]

\* The state has the shape the declarations promise; a call that was never made, or is
\* lost, is not counted, so that matched never exceeds the number of nodes asked.
TypeOK ==
    /\ handler \in [Requests -> Handlers]
    /\ answer \in [Requests -> [kind : {"Untold", "Inner", "Response"} \cup ReplErrors,
                                result : Results \cup {Nothing}]]
    /\ calls \in [Requests -> [Remotes -> {"none", "sent", "answered", "lost"}]]
    /\ executed \in [Requests -> [Remotes -> Results \cup {Nothing}]]
    /\ up \in BOOLEAN
    /\ \A r \in Requests : handler[r].matched + Cardinality(handler[r].ongoing) <= RF

\* With the calls c and the results e of a request: the nodes that have answered v, and
\* those that have been asked and have not computed anything but v.
Agreeing(c, e, v) == {p \in Remotes : c[p] = "answered" /\ e[p] = v}
Possible(c, e, v) == {p \in Remotes : c[p] # "none" /\ e[p] \in {v, Nothing}}

\* A client is told a result only if more than half of the replication factor of other
\* nodes executed the request with that very result, whatever became of the other calls.
MajorityBacked ==
    \A r \in Requests : answer[r].kind = "Response" =>
        Cardinality(Agreeing(calls[r], executed[r], answer[r].result)) > Majority

\* NoMajority is told only when it is certain: even if every node that has not computed
\* something else agreed with this one, there would be no majority.
NoMajorityIsCertain ==
    \A r \in Requests : answer[r].kind = "NoMajority" =>
        Cardinality(Possible(calls[r], executed[r], answer[r].result)) <= Majority

\* The nodes a request was sent to, whatever became of the calls.
Asked(c) == {p \in Remotes : c[p] # "none"}

Promise == INSTANCE MajorityCall WITH Peers <- Remotes,
                                      group <- [r \in Requests |-> Asked(calls[r])],
                                      votes <- executed, told <- answer

\* Repl, with its vectors of calls, counters, early outcomes, late answers and lost calls,
\* does what a single vote among the nodes asked would do: every step is a step of MajorityCall
\* or changes nothing a client or another node can see.  In particular a client is told once.
PromiseKept == Promise!Spec

\* The nodes that have executed r with the result of this node, on calls not yet lost.
Backing(r) == {p \in Remotes : /\ calls[r][p] \in {"sent", "answered"}
                               /\ executed[r][p] = handler[r].response}

\* A request a majority has executed alike is answered, or a stream or this node fails.
AgreedIsAnswered ==
    \A r \in Requests :
        (handler[r].tag = "Replicating" /\ Cardinality(Backing(r)) > Majority)
            ~> (answer[r] # Untold \/ LostCalls # {} \/ ~up)

\* Once every other node of a full replication group has been asked to execute a request,
\* the client is told its result or an error, unless the node itself fails.
RequestEnds ==
    \A r \in Requests :
        Cardinality({p \in Remotes : calls[r][p] # "none"}) = RF ~> answer[r] # Untold \/ ~up
=============================================================================
