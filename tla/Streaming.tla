----------------------------- MODULE Streaming -----------------------------
(***************************************************************************)
(* The behaviour that opens streams to peers (core/streaming/src/lib.rs):  *)
(* it dials a peer it has no connection to, asks the handler of the        *)
(* connection for a stream, and reports every stream, or why there is      *)
(* none, as an event.                                                      *)
(*                                                                         *)
(* The swarm is external: connections come and go as it pleases, several   *)
(* to one peer too, and it refuses to dial a peer that it is connected to  *)
(* (DialPeerConditionFalse, which is ignored).  Of a connection's handler  *)
(* only the number of streams it still has to report is kept: its queues   *)
(* die with the connection.  Entries are kept per peer and connection;     *)
(* which peer's entry poll takes first is left open.                       *)
(***************************************************************************)
EXTENDS Integers, Sequences, SequencesExt, FiniteSets

CONSTANTS
    Peers,
    Conns, NoConn,  \* connection ids of a peer, and none of them
    MaxFaults,      \* bound: failed dials and streams, closed connections, full buffers
    MaxIncoming     \* bound: streams that peers open

ASSUME StreamingAssumption ==
    MaxFaults \in Nat /\ MaxIncoming \in Nat /\ NoConn \notin Conns /\ IsFiniteSet(Conns)

VARIABLES
    swarm,              \* swarm[p]: the established connections to p
    connected_peers,    \* connected_peers[p]: the connection to ask for streams, or NoConn
    dial_requests,      \* dial_requests[p]: the entry of p, or NoDial
    stream_requests,    \* stream_requests[p][c]: how many entries
    requested,          \* requested[p][c]: streams the handler of c has not reported yet
    events,             \* streams, and failures to get one, to be reported
    faults, incoming,   \* how much of the bounds is used
    due                 \* history, due[p]: streams to p that are still to be reported

streamingVars == <<swarm, connected_peers, dial_requests, stream_requests, requested,
                   events, faults, incoming, due>>

-----------------------------------------------------------------------------

DialRequest(dialed, count) == [dialed |-> dialed, count |-> count]
NoDial                     == DialRequest(FALSE, -1)

Event(kind, p, c) == [kind |-> kind, peer |-> p, conn |-> c]

\* How many entries there are when a connection c has counts[c] of them: the pairs <<c, i>>.
Total(counts) == Cardinality(UNION {{c} \X (1 .. counts[c]) : c \in Conns})

\* All entries of stream_requests for a peer.
StreamRequestsOf(p) == Total(stream_requests[p])

IsResolvingStreamFor(p) == StreamRequestsOf(p) > 0 \/ dial_requests[p] # NoDial

StreamingInit == /\ swarm = [p \in Peers |-> {}]
                 /\ connected_peers = [p \in Peers |-> NoConn]
                 /\ dial_requests = [p \in Peers |-> NoDial]
                 /\ stream_requests = [p \in Peers |-> [c \in Conns |-> 0]]
                 /\ requested = [p \in Peers |-> [c \in Conns |-> 0]]
                 /\ events = <<>>
                 /\ faults = 0 /\ incoming = 0
                 /\ due = [p \in Peers |-> 0]

-----------------------------------------------------------------------------

CreateStream(p) ==
    /\ IF connected_peers[p] # NoConn
         THEN /\ stream_requests' = [stream_requests EXCEPT ![p][connected_peers[p]] = @ + 1]
              /\ UNCHANGED dial_requests
         ELSE /\ dial_requests' = [dial_requests EXCEPT ![p] =
                                       IF @ = NoDial THEN DialRequest(FALSE, 0)
                                                     ELSE DialRequest(@.dialed, @.count + 1)]
              /\ UNCHANGED stream_requests
    /\ due' = [due EXCEPT ![p] = @ + 1]
    /\ UNCHANGED <<swarm, connected_peers, requested, events, faults, incoming>>

-----------------------------------------------------------------------------
(* on_swarm_event.  A fault is counted against MaxFaults. *)

Fault == faults < MaxFaults /\ faults' = faults + 1

\* A dial of this behaviour, or of another one, to a peer with an entry fails.  The failure
\* is reported for all the streams of the entry, and the entry stays.
DialFailure(p) ==
    /\ Fault
    /\ swarm[p] = {} /\ dial_requests[p] # NoDial
    /\ LET streams == dial_requests[p].count + 1
       IN  /\ events' = events \o [i \in 1 .. streams |-> Event("failed", p, NoConn)]
           /\ due' = [due EXCEPT ![p] = @ + streams]
    /\ UNCHANGED <<swarm, connected_peers, dial_requests, stream_requests, requested, incoming>>

\* Mutant of ConnectionEstablished: one stream for all that were waiting but one.
ConnectionEstablishedExclusive(p, c) ==
    /\ c \notin swarm[p]
    /\ swarm' = [swarm EXCEPT ![p] = @ \cup {c}]
    /\ connected_peers' = [connected_peers EXCEPT ![p] = c]
    /\ stream_requests' = IF dial_requests[p] = NoDial THEN stream_requests
                          ELSE [stream_requests EXCEPT ![p][c] = @ + dial_requests[p].count]
    /\ dial_requests' = [dial_requests EXCEPT ![p] = NoDial]
    /\ UNCHANGED <<requested, events, faults, incoming, due>>

ConnectionEstablished(p, c) ==
    /\ c \notin swarm[p]
    /\ swarm' = [swarm EXCEPT ![p] = @ \cup {c}]
    /\ connected_peers' = [connected_peers EXCEPT ![p] = c]
    /\ stream_requests' = IF dial_requests[p] = NoDial THEN stream_requests
                          ELSE [stream_requests EXCEPT ![p][c] = @ + dial_requests[p].count + 1]
    /\ dial_requests' = [dial_requests EXCEPT ![p] = NoDial]
    /\ UNCHANGED <<requested, events, faults, incoming, due>>

\* Mutant of StreamRequestsKept: entries for the closed connection stay.
StreamRequestsKeptAll(p) == stream_requests[p]

\* The entries of p that outlive one of its connections: none, whatever connection they name.
StreamRequestsKept(p) == [c \in Conns |-> 0]

\* The entries that had not been given to a handler go back to dialling; what the handler of
\* the closed connection had not reported is gone, and a stream in the events is a dead one.
ConnectionClosed(p, c) ==
    LET count == StreamRequestsOf(p)
    IN  /\ Fault
        /\ c \in swarm[p]
        /\ swarm' = [swarm EXCEPT ![p] = @ \ {c}]
        /\ connected_peers' = [connected_peers EXCEPT ![p] = NoConn]
        /\ stream_requests' = [stream_requests EXCEPT ![p] = StreamRequestsKept(p)]
        /\ dial_requests' = IF count = 0 THEN dial_requests
                            ELSE [dial_requests EXCEPT ![p] =
                                     IF @ = NoDial THEN DialRequest(FALSE, count - 1)
                                     ELSE DialRequest(@.dialed, @.count + count - 1)]
        /\ requested' = [requested EXCEPT ![p][c] = 0]
        /\ due' = [due EXCEPT ![p] = @ - requested[p][c]]
        /\ events' = [i \in DOMAIN events |->
                         IF events[i].peer = p /\ events[i].conn = c
                           THEN [events[i] EXCEPT !.conn = NoConn] ELSE events[i]]
        /\ UNCHANGED incoming

-----------------------------------------------------------------------------
(* Handler, and on_connection_handler_event *)

\* A stream that was asked for is open, or could not be opened.
OutgoingStream(p, c) ==
    /\ requested[p][c] > 0
    /\ requested' = [requested EXCEPT ![p][c] = @ - 1]
    /\ \/ events' = Append(events, Event("outgoing", p, c)) /\ UNCHANGED faults
       \/ events' = Append(events, Event("failed", p, c)) /\ Fault
    /\ UNCHANGED <<swarm, connected_peers, dial_requests, stream_requests, incoming, due>>

IncomingStream(p, c) ==
    /\ c \in swarm[p]
    /\ incoming < MaxIncoming /\ incoming' = incoming + 1
    /\ events' = Append(events, Event("incoming", p, c))
    /\ UNCHANGED <<swarm, connected_peers, dial_requests, stream_requests, requested, faults,
                   due>>

-----------------------------------------------------------------------------
(* poll: first dial, then ask handlers for streams, then report.  Entries of *)
(* connected peers are moved to stream_requests first, but there are none    *)
(* (StreamsAccounted).                                                     *)

UndialledPeers == {p \in Peers : dial_requests[p] # NoDial /\ ~dial_requests[p].dialed}

Dial(p) == /\ p \in UndialledPeers
           /\ dial_requests' = [dial_requests EXCEPT ![p].dialed = TRUE]
           /\ UNCHANGED <<swarm, connected_peers, stream_requests, requested, events, faults,
                          incoming, due>>

NotifyHandler(p, c) ==
    /\ UndialledPeers = {}
    /\ stream_requests[p][c] > 0
    /\ stream_requests' = [stream_requests EXCEPT ![p][c] = @ - 1]
    /\ requested' = [requested EXCEPT ![p][c] = @ + 1]
    /\ UNCHANGED <<swarm, connected_peers, dial_requests, events, faults, incoming, due>>

\* The last event is reported first.
GenerateEvent ==
    /\ UndialledPeers = {}
    /\ \A p \in Peers : StreamRequestsOf(p) = 0
    /\ events # <<>>
    /\ events' = Front(events)
    /\ due' = IF Last(events).kind = "incoming" THEN due
              ELSE [due EXCEPT ![Last(events).peer] = @ - 1]
    /\ UNCHANGED <<swarm, connected_peers, dial_requests, stream_requests, requested, incoming>>

-----------------------------------------------------------------------------

EventsOf(p) == {i \in DOMAIN events : events[i].peer = p /\ events[i].kind # "incoming"}

\* Every stream that was asked for is on its way to being reported exactly once, however
\* connections come and go: a request is neither lost nor doubled on its way through dialling,
\* the queue of requests, the handlers and the events.  Only a connection that is closed takes
\* the requests of its handler with it, and a failed dial reports a request it keeps.  The
\* queues never name a connection of the past: a handler is only asked on a connection that is
\* open, and a peer is only dialled while no connection to it is known.
StreamsAccounted ==
    \A p \in Peers :
        /\ due[p] = dial_requests[p].count + 1 + StreamRequestsOf(p)
                    + Total(requested[p]) + Cardinality(EventsOf(p))
        /\ \A c \in Conns : stream_requests[p][c] + requested[p][c] > 0 => c \in swarm[p]
        /\ connected_peers[p] # NoConn => connected_peers[p] \in swarm[p]
        /\ dial_requests[p] # NoDial => connected_peers[p] = NoConn
=============================================================================
