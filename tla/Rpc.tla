-------------------------------- MODULE Rpc --------------------------------
(***************************************************************************)
(* Requests and responses over streams (core/rpc/src/lib.rs), on top of    *)
(* the behaviour that opens the streams.                                   *)
(*                                                                         *)
(* A stream is known by the connection that carries it, or by NoConn once  *)
(* it is broken and poll has not met the error yet; after that it is dead: *)
(* its io part is taken, and it leaves the set of streams when it is       *)
(* polled again.  Until then it is still found by its peer and written to. *)
(* The remote side is external: it answers what reached it, on any stream  *)
(* of its own, and sends requests.                                         *)
(*                                                                         *)
(* A call of peer p is <<p, i>>.  The buffer of a stream is abstracted to  *)
(* whether a write fits, payloads and round trip times are left out.  The  *)
(* responses poll puts in events are never taken out: a call in "failed"   *)
(* is one whose failure is recorded and not reported.                      *)
(***************************************************************************)
EXTENDS Streaming

CONSTANTS MaxCalls, MaxServed   \* bounds: requests to, and from, each peer

ASSUME RpcAssumption == MaxCalls \in Nat /\ MaxServed \in Nat

VARIABLES
    streams,    \* streams[p][c]: streams to p carried by c, broken ones under NoConn
    dead,       \* dead[p]: streams to p whose io part is taken
    call,       \* where a request is
    reply,      \* where the response to a request of a peer is
    heard,      \* calls written to a stream that was open: the peer may answer them
    written     \* history, written[k]: how many streams k was written to

vars == <<streamingVars, streams, dead, call, reply, heard, written>>

Calls    == Peers \X (1 .. MaxCalls)
Served == Peers \X (1 .. MaxServed)
Places   == Conns \cup {NoConn}

Init == /\ StreamingInit
        /\ streams = [p \in Peers |-> [c \in Places |-> 0]]
        /\ dead = [p \in Peers |-> 0]
        /\ call = [k \in Calls |-> "new"]
        /\ reply = [q \in Served |-> "new"]
        /\ heard = {}
        /\ written = [k \in Calls |-> 0]

PlacesOf(p)  == {c \in Places : streams[p][c] > 0}
HasStream(p) == PlacesOf(p) # {} \/ dead[p] > 0
PendingCalls(p)   == {k \in Calls : k[1] = p /\ call[k] = "pending"}
PendingReplies(p) == {q \in Served : q[1] = p /\ reply[q] = "pending"}

-----------------------------------------------------------------------------
(* request *)

\* The first unused call of a peer.
FirstUnused(k) == call[k] = "new" /\ \A j \in 1 .. k[2] - 1 : call[<<k[1], j>>] # "new"

\* The first stream of the peer is taken, whatever state it is in, and the call counts as
\* ongoing before it is written: when the write fails the caller is told, and the entry stays.
RequestOnStream(k) ==
    /\ FirstUnused(k)
    /\ HasStream(k[1])
    /\ \/ /\ call' = [call EXCEPT ![k] = "ongoing"]
          /\ written' = [written EXCEPT ![k] = @ + 1]
          /\ \/ \E c \in PlacesOf(k[1]) : heard' = IF c = NoConn THEN heard ELSE heard \cup {k}
             \/ dead[k[1]] > 0 /\ UNCHANGED heard
          /\ UNCHANGED faults
       \/ /\ Fault
          /\ call' = [call EXCEPT ![k] = "refused"]
          /\ UNCHANGED <<heard, written>>
    /\ UNCHANGED <<swarm, connected_peers, dial_requests, stream_requests, requested, events,
                   incoming, due, streams, dead, reply>>

RequestPending(k) ==
    /\ FirstUnused(k)
    /\ ~HasStream(k[1]) /\ ~IsResolvingStreamFor(k[1])
    /\ CreateStream(k[1])
    /\ call' = [call EXCEPT ![k] = "pending"]
    /\ UNCHANGED <<streams, dead, reply, heard, written>>

\* The caller gets the id of a call that is kept nowhere.
RequestIgnored(k) ==
    /\ FirstUnused(k)
    /\ ~HasStream(k[1]) /\ IsResolvingStreamFor(k[1])
    /\ call' = [call EXCEPT ![k] = "ignored"]
    /\ UNCHANGED <<streamingVars, streams, dead, reply, heard, written>>

-----------------------------------------------------------------------------
(* respond *)

\* A failed write, and one to a stream that is not open, is lost without notice.
RespondOnStream(q) ==
    /\ reply[q] = "owed"
    /\ HasStream(q[1])
    /\ \/ /\ \E c \in PlacesOf(q[1]) : reply' = [reply EXCEPT ![q] = IF c = NoConn THEN "lost" ELSE "sent"]
          /\ UNCHANGED faults
       \/ /\ dead[q[1]] > 0
          /\ reply' = [reply EXCEPT ![q] = "lost"]
          /\ UNCHANGED faults
       \/ /\ Fault
          /\ reply' = [reply EXCEPT ![q] = "lost"]
    /\ UNCHANGED <<swarm, connected_peers, dial_requests, stream_requests, requested, events,
                   incoming, due, streams, dead, call, heard, written>>

RespondPending(q) ==
    /\ reply[q] = "owed"
    /\ ~HasStream(q[1]) /\ ~IsResolvingStreamFor(q[1])
    /\ CreateStream(q[1])
    /\ reply' = [reply EXCEPT ![q] = "pending"]
    /\ UNCHANGED <<streams, dead, call, heard, written>>

RespondIgnored(q) ==
    /\ reply[q] = "owed"
    /\ ~HasStream(q[1]) /\ IsResolvingStreamFor(q[1])
    /\ reply' = [reply EXCEPT ![q] = "ignored"]
    /\ UNCHANGED <<streamingVars, streams, dead, call, heard, written>>

-----------------------------------------------------------------------------
(* poll: what the streams yield *)

rpcUnchangedByStreams == UNCHANGED <<swarm, connected_peers, dial_requests, stream_requests,
                                     requested, events, incoming, due>>

\* Mutant of Response: an answer is taken whatever became of the call.
ResponseAnyTime(k) ==
    /\ k \in heard
    /\ PlacesOf(k[1]) \ {NoConn} # {}
    /\ heard' = heard \ {k}
    /\ call' = [call EXCEPT ![k] = "answered"]
    /\ rpcUnchangedByStreams
    /\ UNCHANGED <<faults, streams, dead, reply, written>>

\* An answer arrives on an open stream of the peer; it counts only while the call is ongoing.
Response(k) ==
    /\ k \in heard
    /\ PlacesOf(k[1]) \ {NoConn} # {}
    /\ heard' = heard \ {k}
    /\ call' = [call EXCEPT ![k] = IF @ = "ongoing" THEN "answered" ELSE @]
    /\ rpcUnchangedByStreams
    /\ UNCHANGED <<faults, streams, dead, reply, written>>

\* A request of a peer arrives and is handed to the application.
IncomingRequest(q) ==
    /\ reply[q] = "new" /\ \A j \in 1 .. q[2] - 1 : reply[<<q[1], j>>] # "new"
    /\ PlacesOf(q[1]) \ {NoConn} # {}
    /\ reply' = [reply EXCEPT ![q] = "owed"]
    /\ rpcUnchangedByStreams
    /\ UNCHANGED <<faults, streams, dead, call, heard, written>>

\* clean_failed_requests: every request to the peer, also those on its other streams.  None of
\* them is waiting (WrittenOnce).
FailedCalls(p) == {k \in Calls : k[1] = p /\ call[k] \in {"ongoing", "refused", "pending"}}

\* poll meets the error of a broken stream.
StreamError(p) ==
    /\ streams[p][NoConn] > 0
    /\ streams' = [streams EXCEPT ![p][NoConn] = @ - 1]
    /\ dead' = [dead EXCEPT ![p] = @ + 1]
    /\ call' = [k \in Calls |-> IF k \in FailedCalls(p) THEN "failed" ELSE call[k]]
    /\ reply' = [q \in Served |-> IF q \in PendingReplies(p) THEN "lost" ELSE reply[q]]
    /\ rpcUnchangedByStreams
    /\ UNCHANGED <<faults, heard, written>>

\* A dead stream yields nothing and is dropped.
DropStream(p) ==
    /\ dead[p] > 0
    /\ dead' = [dead EXCEPT ![p] = @ - 1]
    /\ rpcUnchangedByStreams
    /\ UNCHANGED <<faults, streams, call, reply, heard, written>>

-----------------------------------------------------------------------------
(* poll: what streaming yields *)

\* The calls that a new stream to p takes.
StreamTo(p) == PendingCalls(p)

\* Mutant of Taken: the request stays in the queue it is taken from.
TakenCopy(k, unfit) == IF k \in unfit THEN "failed" ELSE "pending"

\* Where a request is after it was given to a new stream.
Taken(k, unfit) == IF k \in unfit THEN "failed" ELSE "ongoing"

\* A stream, ours or the peer's, takes all that waited for one.  A request that does not fit
\* has failed, a response that does not fit is lost.
NewStream ==
    /\ GenerateEvent
    /\ Last(events).kind # "failed"
    /\ LET p == Last(events).peer
           c == Last(events).conn
       IN  \E unfit \in SUBSET (StreamTo(p) \cup PendingReplies(p)) :
              /\ Cardinality(unfit) <= MaxFaults - faults
              /\ faults' = faults + Cardinality(unfit)
              /\ streams' = [streams EXCEPT ![p][c] = @ + 1]
              /\ call' = [k \in Calls |-> IF k \in StreamTo(p) THEN Taken(k, unfit) ELSE call[k]]
              /\ written' = [k \in Calls |-> IF k \in StreamTo(p) \ unfit THEN written[k] + 1
                                             ELSE written[k]]
              /\ heard' = IF c = NoConn THEN heard ELSE heard \cup (StreamTo(p) \ unfit)
              /\ reply' = [q \in Served |->
                              IF q \notin PendingReplies(p) THEN reply[q]
                              ELSE IF q \in unfit \/ c = NoConn THEN "lost" ELSE "sent"]
    /\ UNCHANGED dead

\* There is no stream: responses that waited for it are dropped, requests go on waiting.
NoStream ==
    /\ GenerateEvent
    /\ Last(events).kind = "failed"
    /\ reply' = [q \in Served |-> IF q \in PendingReplies(Last(events).peer) THEN "lost"
                                    ELSE reply[q]]
    /\ UNCHANGED <<faults, streams, dead, call, heard, written>>

-----------------------------------------------------------------------------
(* The swarm *)

\* The streams of a closed connection are broken.
Closed(p, c) ==
    /\ ConnectionClosed(p, c)
    /\ streams' = [streams EXCEPT ![p][c] = 0, ![p][NoConn] = @ + streams[p][c]]
    /\ UNCHANGED <<dead, call, reply, heard, written>>

\* A stream breaks, or carries a packet that cannot be decoded.
StreamBreaks(p, c) ==
    /\ Fault
    /\ streams[p][c] > 0
    /\ streams' = [streams EXCEPT ![p][c] = @ - 1, ![p][NoConn] = @ + 1]
    /\ rpcUnchangedByStreams
    /\ UNCHANGED <<dead, call, reply, heard, written>>

SwarmStep == \/ \E p \in Peers : DialFailure(p) \/ Dial(p)
             \/ \E p \in Peers, c \in Conns :
                   \/ ConnectionEstablished(p, c)
                   \/ OutgoingStream(p, c) \/ IncomingStream(p, c) \/ NotifyHandler(p, c)

Next == \/ \E k \in Calls : RequestOnStream(k) \/ RequestPending(k) \/ RequestIgnored(k) \/ Response(k)
        \/ \E q \in Served : RespondOnStream(q) \/ RespondPending(q) \/ RespondIgnored(q) \/ IncomingRequest(q)
        \/ \E p \in Peers : StreamError(p) \/ DropStream(p)
        \/ \E p \in Peers, c \in Conns : Closed(p, c) \/ StreamBreaks(p, c)
        \/ NewStream \/ NoStream
        \/ SwarmStep /\ UNCHANGED <<streams, dead, call, reply, heard, written>>

\* The executor polls the behaviour and the handlers, a dial ends, and a peer answers.
Fairness ==
    /\ \A p \in Peers :
        /\ WF_vars(Dial(p) /\ UNCHANGED <<streams, dead, call, reply, heard, written>>)
        /\ WF_vars(StreamError(p)) /\ WF_vars(DropStream(p))
        /\ WF_vars(/\ dial_requests[p].dialed
                   /\ \E c \in Conns : ConnectionEstablished(p, c)
                   /\ UNCHANGED <<streams, dead, call, reply, heard, written>>)
        /\ \A c \in Conns :
            WF_vars(/\ NotifyHandler(p, c) \/ OutgoingStream(p, c)
                    /\ UNCHANGED <<streams, dead, call, reply, heard, written>>)
    /\ WF_vars(NewStream \/ NoStream)
    /\ \A k \in Calls : WF_vars(Response(k))

Spec == Init /\ [][Next]_vars /\ Fairness

-----------------------------------------------------------------------------

\* A request is written to one stream at most, also when several streams to the peer are being
\* opened and when the stream that took it breaks: a peer never runs it twice.  Nor is a request
\* that was kept when a stream could not be opened overtaken: as long as it waits the peer has
\* no stream, broken or not, that a later request would take, so the next stream in either
\* direction takes the requests in the order they were made.
WrittenOnce ==
    /\ \A k \in Calls : written[k] <= 1
    /\ \A p \in Peers : HasStream(p) => PendingCalls(p) = {} /\ PendingReplies(p) = {}

\* Once a stream to the peer has failed, the requests that were on their way are failed for
\* good: an answer that comes late, on another stream, does not count.
OutcomeIsFinal ==
    [][\A k \in Calls : call[k] \in {"answered", "failed"} => call'[k] = call[k]]_vars

\* Without faults every request that is kept is answered, and every response that waits for a
\* stream is sent, though it takes a dial, a connection, a handler and a stream.  A request
\* made while a stream to the peer is being opened is not kept (RequestIgnored).
RequestAnswered ==
    /\ \A k \in Calls :
          call[k] \in {"pending", "ongoing"} ~> (call[k] = "answered" \/ faults > 0)
    /\ \A q \in Served : reply[q] = "pending" ~> (reply[q] = "sent" \/ faults > 0)
=============================================================================
