------------------------------- MODULE Onion -------------------------------
(***************************************************************************)
(* Onion paths (core/onion/src): a client opens a stream to a server over  *)
(* two relays.  behaviour.rs keeps what is pending and joins streams to    *)
(* channels, handler.rs writes and reads the first packet of a stream, and *)
(* packet.rs has the layers of that packet.                                *)
(*                                                                         *)
(* The swarm is external: it dials, opens and closes connections, several  *)
(* between two nodes too, and both ends learn of it in one step.  Other    *)
(* behaviours of a node dial on the same swarm (rpc on a server, the start *)
(* of the client), and those of a server may deny a connection.  A stream  *)
(* is <<k, tries>>: path k, and for each hop so far which try it was, so   *)
(* that the stream it is relayed from is the one without the last try.     *)
(* The key of a node is the node; the secret that a client shares with the *)
(* destination is the first stream of the path, as each try makes a new    *)
(* one.  What a stream carries back is the answer of the destination or of *)
(* a relay; what the ends say to each other later only keeps channels      *)
(* alive.  Clients pick distinct servers and are not servers (pick_route   *)
(* of the client), so that no node is asked for a stream to itself.        *)
(***************************************************************************)
EXTENDS Integers, Sequences, SequencesExt, FiniteSets

CONSTANTS
    Nodes, NoNode,
    MaxPaths,               \* bound, as are the opens of a start
    Routes, NoRoute,        \* a route is [client, path], the destination first, the entry last
    MaxConns,               \* bound: connections between two nodes at a time
    MaxErrorStreams,        \* max_error_streams
    Starts                  \* [max_streams, opens, faults, others]: the limit of every node, and
                            \* bounds on paths, faults, and connections of other behaviours

ASSUME OnionAssumption ==
    /\ NoNode \notin Nodes /\ NoRoute \notin Routes
    /\ {MaxErrorStreams, MaxPaths, MaxConns} \subseteq Nat
    /\ Starts \subseteq [max_streams : Nat, opens : Nat, faults : Nat, others : Nat]
    /\ \A r \in Routes : /\ r.path \in [1 .. 3 -> Nodes]
                         /\ IsInjective(r.path)
                         /\ r.client \in Nodes \ {r.path[i] : i \in 1 .. 3}

VARIABLES
    swarm,              \* open connections: <<{n, m}, c>>
    dialing,            \* dialing[n]: the peers that the swarm of n dials
    foreign,            \* foreign[n]: those of them that it dials for another behaviour
    peer_to_connection, \* peer_to_connection[n][m]: the connection n uses, NoConn or DeadConn
    route,              \* route[k]: the route of path k, or NoRoute
    pending_requests,   \* paths the client has not been told about
    outcome,            \* outcome[k]: what the client was told: "none", "ok", "failed"
    stream,             \* the streams there are, or were
    upgrading,          \* streams of clients that wait for an answer
    arriving,           \* streams with a packet their receiver has not read
    pending_connections,\* pending_connections[n]: incoming streams that wait for the next one
    router,             \* router[n]: channels, [from, to, state]
    error_streams,      \* error_streams[n]: [stream, kind] to be written
    inbound,            \* inbound[n]: streams n got as their destination
    max_streams,
    opens, faults, others,  \* how much is left of the bounds
    cut                 \* history: pairs of nodes a connection of which was closed or denied, or
                        \* a dial of which failed that somebody else had asked for

Paths    == 1 .. MaxPaths
Conns    == 1 .. MaxConns
NoConn   == 0
DeadConn == -1          \* a connection that was denied
Servers  == {r.path[i] : r \in Routes, i \in 1 .. 3}

conn == <<swarm, dialing, foreign, peer_to_connection>>
client == <<route, pending_requests, outcome, upgrading>>
relay == <<pending_connections, router, error_streams, inbound>>
bounds == <<max_streams, opens, faults, others, cut>>
vars == <<conn, client, relay, bounds, stream, arriving>>

-----------------------------------------------------------------------------

Init == /\ swarm = {}
        /\ dialing = [n \in Nodes |-> {}] /\ foreign = [n \in Nodes |-> {}]
        /\ peer_to_connection = [n \in Nodes |-> [m \in Nodes |-> NoConn]]
        /\ route = [k \in Paths |-> NoRoute]
        /\ pending_requests = {} /\ upgrading = {}
        /\ outcome = [k \in Paths |-> "none"]
        /\ stream = <<>> /\ arriving = {}
        /\ pending_connections = [n \in Nodes |-> {}]
        /\ router = [n \in Nodes |-> {}]
        /\ error_streams = [n \in Nodes |-> {}]
        /\ inbound = [n \in Nodes |-> {}]
        /\ \E start \in Starts : /\ max_streams = start.max_streams
                                 /\ opens = start.opens
                                 /\ faults = start.faults
                                 /\ others = start.others
        /\ cut = {}

Fault == faults > 0 /\ faults' = faults - 1 /\ UNCHANGED <<max_streams, opens, others, cut>>

Source(s)     == <<s[1], Front(s[2])>>
IsFirst(s)    == Len(s[2]) = 1
Children(s)   == {q \in DOMAIN stream : ~IsFirst(q) /\ Source(q) = s}
FirstsOf(k)   == {q \in DOMAIN stream : IsFirst(q) /\ q[1] = k}
NextStream(s) == <<s[1], Append(s[2], Cardinality(Children(s)) + 1)>>
FirstStream(k) == <<k, <<Cardinality(FirstsOf(k)) + 1>>>>
Opener(s)     == IF IsFirst(s) THEN route[s[1]].client ELSE stream[Source(s)].to
Entry(r)      == r.path[3]

Nothing == [kind |-> "nothing"]
NewStream(to, c, packet) == [to |-> to, conn |-> c, packet |-> packet, stage |-> "asked",
                             back |-> Nothing]
WithStream(s, new) == [q \in DOMAIN stream \cup {s} |-> IF q \in DOMAIN stream THEN stream[q] ELSE new]

\* Nobody hears of a stream that is asked of a connection that was denied.
Heard(s, new) == IF new.conn = DeadConn THEN stream ELSE WithStream(s, new)

-----------------------------------------------------------------------------
(* The first packet *)

\* The keys are moved one element along the path, so that each layer is for the node that reads
\* it and names the next one; the innermost is for the destination.
Layers(path) == <<[key |-> path[3], to |-> path[2]], [key |-> path[2], to |-> path[1]],
                  [key |-> path[1], to |-> NoNode]>>

NewInitial(r, secret) == [secret |-> secret, layers |-> Layers(r.path)]

CanPeel(n, packet) == Head(packet.layers).key = n
NextHop(packet)    == Head(packet.layers).to
Peeled(packet)     == [packet EXCEPT !.layers = Tail(@)]

-----------------------------------------------------------------------------
(* Connections *)

Connected(n, m) == \E c \in Conns : <<{n, m}, c>> \in swarm

\* handle_missing_connection: the swarm refuses to dial a peer that it is connected to or that
\* it dials already, for whomever, and the refusal is ignored.
HandleMissingConnection(n, m) ==
    dialing' = IF Connected(n, m) THEN dialing ELSE [dialing EXCEPT ![n] = @ \cup {m}]

RelayedWaiting(n, m) ==
    {NextStream(q) : q \in {q \in pending_connections[n] : NextHop(stream[q].packet) = m}}

RequestsWaiting(n, m) ==
    {FirstStream(k) : k \in {k \in pending_requests : route[k].client = n /\ Entry(route[k]) = m}}

\* The streams that a new connection of n to m is asked for: all that wait for m, whether a
\* stream for them is under way on another connection or not.
Waiting(n, m) == RelayedWaiting(n, m) \cup RequestsWaiting(n, m)

\* add_connection on one end: the first connection is kept.
Added(n, m)   == IF peer_to_connection[n][m] = NoConn THEN Waiting(n, m) ELSE {}
Kept(n, m, c) == IF peer_to_connection[n][m] = NoConn THEN c ELSE peer_to_connection[n][m]

Asked(s, to, c) == NewStream(to, c, IF IsFirst(s) THEN NewInitial(route[s[1]], s)
                                    ELSE Peeled(stream[Source(s)].packet))

Establish(n, m, c) ==
    /\ n # m /\ <<{n, m}, c>> \notin swarm
    /\ \A x \in 1 .. c - 1 : <<{n, m}, x>> \in swarm
    /\ swarm' = swarm \cup {<<{n, m}, c>>}
    /\ peer_to_connection' = [peer_to_connection EXCEPT ![n][m] = Kept(n, m, c),
                                                        ![m][n] = Kept(m, n, c)]
    /\ stream' = [s \in DOMAIN stream \cup Added(n, m) \cup Added(m, n) |->
                     IF s \in DOMAIN stream THEN stream[s]
                     ELSE IF s \in Added(n, m) THEN Asked(s, m, c) ELSE Asked(s, n, c)]
    /\ upgrading' = upgrading \cup {s \in DOMAIN stream' \ DOMAIN stream : IsFirst(s)}
    /\ UNCHANGED <<route, pending_requests, outcome, relay, arriving>>

\* The swarm of n no longer dials m.
DialEnds(n, m) ==
    /\ m \in dialing[n]
    /\ dialing' = [dialing EXCEPT ![n] = @ \ {m}]
    /\ foreign' = [foreign EXCEPT ![n] = @ \ {m}]

DialSucceeds(n, m, c) ==
    /\ DialEnds(n, m)
    /\ Establish(n, m, c)
    /\ UNCHANGED bounds

\* The server dials an address it is started with: the swarm does so whatever it dials already,
\* and a dial that fails concerns nobody.
OtherConnects(n, m, c) ==
    /\ {n, m} \subseteq Servers
    /\ others > 0 /\ others' = others - 1
    /\ Establish(n, m, c)
    /\ UNCHANGED <<dialing, foreign, max_streams, opens, faults, cut>>

\* Another behaviour of n dials m, for a call or to collect the keys of the servers.
OtherDials(n, m) ==
    /\ m \in Servers \ {n} /\ m \notin dialing[n] /\ ~Connected(n, m)
    /\ others > 0 /\ others' = others - 1
    /\ dialing' = [dialing EXCEPT ![n] = @ \cup {m}]
    /\ foreign' = [foreign EXCEPT ![n] = @ \cup {m}]
    /\ UNCHANGED <<swarm, peer_to_connection, client, relay, stream, arriving, max_streams, opens,
                   faults, cut>>

\* Its dial is not one of dialing_peers: what waits for the peer, because a dial of its own was
\* refused, is not reported.
OtherDialFails(n, m) ==
    /\ m \in foreign[n] /\ DialEnds(n, m)
    /\ faults > 0 /\ faults' = faults - 1
    /\ cut' = IF Waiting(n, m) = {} THEN cut ELSE cut \cup {{n, m}}
    /\ UNCHANGED <<swarm, peer_to_connection, client, relay, stream, arriving, max_streams, opens,
                   others>>

\* filter_incoming of m denies the connection of a server it has not in its table, after this
\* behaviour of m recorded it; m is not told that there is none.  n is connected until m hangs
\* up, before a stream is open.
Denied(n, m) ==
    /\ {n, m} \subseteq Servers /\ n # m /\ DialEnds(n, m)
    /\ faults > 0 /\ faults' = faults - 1
    /\ cut' = cut \cup {{n, m}}
    /\ peer_to_connection' = [peer_to_connection EXCEPT ![n][m] = NoConn,
                                  ![m][n] = IF @ = NoConn THEN DeadConn ELSE @]
    /\ UNCHANGED <<swarm, client, relay, stream, arriving, max_streams, opens, others>>

\* report_unreachable; streams under way for what is reported go on.
DialFails(n, m) ==
    LET unreachable == {k \in pending_requests : route[k].client = n /\ Entry(route[k]) = m}
        given_up    == {q \in pending_connections[n] : NextHop(stream[q].packet) = m}
    IN  /\ m \notin foreign[n] /\ DialEnds(n, m)
        /\ Fault
        /\ pending_connections' = [pending_connections EXCEPT ![n] = @ \ given_up]
        /\ error_streams' = [error_streams EXCEPT ![n] =
                                 @ \cup {[stream |-> q, kind |-> "missing"] : q \in given_up}]
        /\ pending_requests' = pending_requests \ unreachable
        /\ outcome' = [k \in Paths |-> IF k \in unreachable THEN "failed" ELSE outcome[k]]
        /\ UNCHANGED <<swarm, peer_to_connection, route, upgrading, router, inbound, stream,
                       arriving>>

\* The entry for the peer goes, also when it names another connection.  What waited on the
\* connection is asked for again when there is a new one; nobody acts on ConnectRequest.
ConnectionClosed(n, m, c) ==
    LET gone == {s \in DOMAIN stream : stream[s].conn = c /\ {Opener(s), stream[s].to} = {n, m}}
    IN  /\ <<{n, m}, c>> \in swarm
        /\ faults > 0 /\ faults' = faults - 1
        /\ cut' = cut \cup {{n, m}}
        /\ swarm' = swarm \ {<<{n, m}, c>>}
        /\ peer_to_connection' = [peer_to_connection EXCEPT ![n][m] = NoConn, ![m][n] = NoConn]
        /\ stream' = [s \in DOMAIN stream |->
                         IF s \in gone THEN [stream[s] EXCEPT !.stage = "lost", !.back = Nothing]
                         ELSE stream[s]]
        /\ upgrading' = upgrading \ gone
        /\ arriving' = arriving \ gone
        /\ UNCHANGED <<dialing, foreign, route, pending_requests, outcome, relay, max_streams, opens,
                       others>>

-----------------------------------------------------------------------------
(* The client *)

OpenPath(k, r) ==
    LET n == r.client
        c == peer_to_connection[n][Entry(r)]
        s == FirstStream(k)
    IN  /\ route[k] = NoRoute /\ \A j \in 1 .. k - 1 : route[j] # NoRoute
        /\ opens > 0 /\ opens' = opens - 1
        /\ route' = [route EXCEPT ![k] = r]
        /\ pending_requests' = pending_requests \cup {k}
        /\ IF c = NoConn
             THEN /\ HandleMissingConnection(n, Entry(r))
                  /\ UNCHANGED <<stream, upgrading>>
             ELSE /\ stream' = Heard(s, NewStream(Entry(r), c, NewInitial(r, s)))
                  /\ upgrading' = upgrading \cup ({s} \cap DOMAIN stream')
                  /\ UNCHANGED dialing
        /\ UNCHANGED <<swarm, foreign, peer_to_connection, outcome, relay, max_streams, faults,
                       others, cut, arriving>>

\* The packet is written, and the upgrade goes on to read the answer.
WriteRequest(s) ==
    /\ s \in upgrading /\ stream[s].stage = "asked"
    /\ stream' = [stream EXCEPT ![s].stage = "open"]
    /\ arriving' = arriving \cup {s}
    /\ UNCHANGED <<conn, client, relay, bounds>>

\* Mutant of Conclude: the request is found among those that wait, and not taken out.
ConcludeKeeps(s, result) ==
    /\ upgrading' = upgrading \ {s}
    /\ UNCHANGED pending_requests
    /\ outcome' = IF s[1] \in pending_requests THEN [outcome EXCEPT ![s[1]] = result] ELSE outcome
    /\ stream' = [stream EXCEPT ![s].back = Nothing,
                                ![s].stage = IF result = "ok" THEN @ ELSE "closed"]

\* The upgrade of s ends.  If a try before it was reported, or the dial that failed, the stream
\* is dropped.
Conclude(s, result) ==
    LET told == s[1] \in pending_requests
    IN  /\ upgrading' = upgrading \ {s}
        /\ pending_requests' = pending_requests \ {s[1]}
        /\ outcome' = IF told THEN [outcome EXCEPT ![s[1]] = result] ELSE outcome
        /\ stream' = [stream EXCEPT ![s].back = Nothing,
                                    ![s].stage = IF told /\ result = "ok" THEN @ ELSE "closed"]

\* Mutant of Accepts: an occupied relay counts as success.
AcceptsAny(s) == stream[s].back.kind # "missing"

\* The confirmation is made with the secret of this try.
Accepts(s) == stream[s].back.kind = "ok" /\ stream[s].back.secret = s

\* The answer is read; the confirmation may be read in part only, and does not verify then.
ReadAnswer(s) ==
    /\ s \in upgrading /\ stream[s].back # Nothing
    /\ \/ Conclude(s, IF Accepts(s) THEN "ok" ELSE "failed") /\ UNCHANGED bounds
       \/ Accepts(s) /\ Conclude(s, "failed") /\ Fault
    /\ UNCHANGED <<conn, route, relay, arriving>>

\* An io error, or the time for an upgrade is over.
UpgradeFails(s) ==
    /\ s \in upgrading
    /\ Conclude(s, "failed")
    /\ UNCHANGED <<conn, route, relay, bounds, arriving>>

-----------------------------------------------------------------------------
(* The relays and the destination *)

\* Mutant of NoticeIdle: a channel that was found idle is not shut down.
NoticeIdleOnly(channels) == channels

\* is_valid of all channels: one without traffic for keep_alive_interval is invalid for good.
NoticeIdle(channels) ==
    {IF ch.state = "idle" THEN [ch EXCEPT !.state = "invalid"] ELSE ch : ch \in channels}

\* More streams than max_streams are needed to refuse one: max_streams + 1 are admitted.
Full(n) == Cardinality({ch \in router[n] : ch.state = "open"})
           + Cardinality(pending_connections[n]) > max_streams

\* push_incoming_stream
PushIncomingStream(n, s) ==
    LET to == NextHop(stream[s].packet)
        c  == peer_to_connection[n][to]
    IN  /\ router' = [router EXCEPT ![n] = NoticeIdle(@)]
        /\ IF Full(n)
             THEN IF Cardinality(error_streams[n]) > MaxErrorStreams
                    THEN /\ stream' = [stream EXCEPT ![s].stage = "closed"]
                         /\ UNCHANGED <<dialing, pending_connections, error_streams>>
                    ELSE /\ error_streams' = [error_streams EXCEPT ![n] =
                                                  @ \cup {[stream |-> s, kind |-> "occupied"]}]
                         /\ UNCHANGED <<dialing, pending_connections, stream>>
             ELSE /\ pending_connections' = [pending_connections EXCEPT ![n] = @ \cup {s}]
                  /\ IF c = NoConn
                       THEN HandleMissingConnection(n, to) /\ UNCHANGED stream
                       ELSE /\ stream' = Heard(NextStream(s),
                                               NewStream(to, c, Peeled(stream[s].packet)))
                            /\ UNCHANGED dialing
                  /\ UNCHANGED error_streams
        /\ UNCHANGED inbound

\* upgrade_inbound reads a packet from a stream that its opener may have left already; one that
\* was not made for this node is dropped.
Relay(s) ==
    LET n == stream[s].to
    IN  /\ s \in arriving /\ NextHop(stream[s].packet) # NoNode
        /\ arriving' = arriving \ {s}
        /\ IF CanPeel(n, stream[s].packet)
             THEN PushIncomingStream(n, s)
             ELSE stream' = [stream EXCEPT ![s].stage = "closed"] /\ UNCHANGED <<dialing, relay>>
        /\ UNCHANGED <<swarm, foreign, peer_to_connection, client, bounds>>

\* The destination answers with a confirmation and has its stream; on a stream that was closed
\* the answer may already fail to be written.
Arrive(s) ==
    LET n == stream[s].to
        ok == CanPeel(n, stream[s].packet)
    IN  /\ s \in arriving /\ NextHop(stream[s].packet) = NoNode
        /\ arriving' = arriving \ {s}
        /\ \/ /\ inbound' = [inbound EXCEPT ![n] = IF ok THEN @ \cup {s} ELSE @]
              /\ stream' = IF ok /\ stream[s].stage = "open"
                             THEN [stream EXCEPT ![s].back = [kind |-> "ok",
                                                     secret |-> stream[s].packet.secret]]
                             ELSE stream
           \/ stream[s].stage = "closed" /\ UNCHANGED <<inbound, stream>>
        /\ UNCHANGED <<conn, client, pending_connections, router, error_streams, bounds>>

\* Mutant of Partner: found by the peer it waits for instead of the path.
PartnerByPeer(n, s) == {q \in pending_connections[n] : NextHop(stream[q].packet) = stream[s].to}

\* What a stream of a relay is joined with.
Partner(n, s) == {q \in pending_connections[n] : q = Source(s)}

\* upgrade_outbound on a relay: the packet is written, and NewChannel joins the streams, unless
\* the incoming one was joined with another try or given up.
NewChannel(s) ==
    LET n == Opener(s)
    IN  /\ ~IsFirst(s) /\ stream[s].stage = "asked"
        /\ arriving' = arriving \cup {s}
        /\ IF Partner(n, s) = {}
             THEN /\ stream' = [stream EXCEPT ![s].stage = "closed"]
                  /\ UNCHANGED <<pending_connections, router>>
             ELSE \E q \in Partner(n, s) :
                  /\ stream' = [stream EXCEPT ![s].stage = "open"]
                  /\ pending_connections' = [pending_connections EXCEPT ![n] = @ \ {q}]
                  /\ router' = [router EXCEPT ![n] =
                                    @ \cup {[from |-> q, to |-> s, state |-> "open"]}]
        /\ UNCHANGED <<conn, client, error_streams, inbound, bounds>>

\* The handler ignores that a stream of a relay could not be opened: the incoming one stays.
RelayUpgradeFails(s) ==
    /\ ~IsFirst(s) /\ stream[s].stage = "asked"
    /\ Fault
    /\ stream' = [stream EXCEPT ![s].stage = "closed"]
    /\ UNCHANGED <<conn, client, relay, arriving>>

\* ClosingStream: one byte, and the stream is dropped.
WriteError(n, e) ==
    /\ e \in error_streams[n]
    /\ error_streams' = [error_streams EXCEPT ![n] = @ \ {e}]
    /\ stream' = IF stream[e.stream].stage = "open"
                   THEN [stream EXCEPT ![e.stream].stage = "closed", ![e.stream].back.kind = e.kind]
                   ELSE stream
    /\ UNCHANGED <<conn, client, pending_connections, router, inbound, bounds, arriving>>

-----------------------------------------------------------------------------
(* Channels *)

SetState(n, ch, state) == [router EXCEPT ![n] = (@ \ {ch}) \cup {[ch EXCEPT !.state = state]}]

Forward(n, ch) ==
    /\ ch \in router[n] /\ ch.state # "invalid"
    /\ stream[ch.to].back # Nothing /\ stream[ch.from].stage = "open"
    /\ router' = SetState(n, ch, "open")
    /\ stream' = [stream EXCEPT ![ch.from].back = stream[ch.to].back, ![ch.to].back = Nothing]
    /\ UNCHANGED <<conn, client, pending_connections, error_streams, inbound, bounds, arriving>>

\* keep_alive_interval passes without traffic; traffic before anybody noticed.
FallsIdle(n, ch) ==
    /\ ch \in router[n]
    /\ \/ ch.state = "open" /\ router' = SetState(n, ch, "idle")
       \/ /\ ch.state = "idle" /\ stream[ch.from].stage = "open" /\ stream[ch.to].stage = "open"
          /\ router' = SetState(n, ch, "open")
    /\ UNCHANGED <<conn, client, pending_connections, error_streams, inbound, bounds, stream,
                   arriving>>

\* The channel is invalid, a stream has ended, or one of them takes no more bytes just now.
ChannelEnds(n, ch) ==
    /\ ch \in router[n]
    /\ \/ /\ \/ ch.state = "invalid" \/ stream[ch.from].stage # "open"
             \/ stream[ch.to].stage # "open" /\ stream[ch.to].back = Nothing
          /\ UNCHANGED bounds
       \/ Fault
    /\ router' = [router EXCEPT ![n] = @ \ {ch}]
    /\ stream' = [s \in DOMAIN stream |->
                     IF s \in {ch.from, ch.to} /\ stream[s].stage = "open"
                       THEN [stream[s] EXCEPT !.stage = "closed"] ELSE stream[s]]
    /\ UNCHANGED <<conn, client, pending_connections, error_streams, inbound, arriving>>

-----------------------------------------------------------------------------

Next == \/ \E k \in Paths, r \in Routes : OpenPath(k, r)
        \/ \E n, m \in Nodes : \/ DialFails(n, m) \/ Denied(n, m)
                               \/ OtherDials(n, m) \/ OtherDialFails(n, m)
        \/ \E n, m \in Nodes, c \in Conns : \/ DialSucceeds(n, m, c) \/ OtherConnects(n, m, c)
                                            \/ ConnectionClosed(n, m, c)
        \/ \E s \in DOMAIN stream : \/ WriteRequest(s) \/ ReadAnswer(s) \/ UpgradeFails(s)
                                    \/ Relay(s) \/ Arrive(s)
                                    \/ NewChannel(s) \/ RelayUpgradeFails(s)
        \/ \E n \in Nodes : \E e \in error_streams[n] : WriteError(n, e)
        \/ \E n \in Nodes : \E ch \in router[n] :
              Forward(n, ch) \/ FallsIdle(n, ch) \/ ChannelEnds(n, ch)

\* A dial ends one way or the other, and so does an upgrade, for which the swarm allows ten
\* seconds.
Fairness == /\ \A n, m \in Nodes :
                  WF_vars(\/ DialFails(n, m) \/ OtherDialFails(n, m)
                          \/ \E c \in Conns : DialSucceeds(n, m, c))
            /\ \A k \in Paths : WF_vars(\E s \in FirstsOf(k) : UpgradeFails(s) \/ ReadAnswer(s))

Spec == Init /\ [][Next]_vars /\ Fairness

-----------------------------------------------------------------------------

\* The streams a relay holds: those that wait for the next stream and channels that still carry
\* bytes.
Held(n) == Cardinality({ch \in router[n] : ch.state # "invalid"}) + Cardinality(pending_connections[n])

\* The configuration (gen_config, max_streams): "the maximum number of streams that can be opened
\* at the same time".  push_incoming_stream compares before it adds and admits one more.
StreamLimit == \A n \in Nodes : Held(n) <= max_streams

\* The limit that the code does keep: never more than max_streams + 1, though a channel may fall
\* silent, be passed over by the count, and carry bytes again.
Slots == \A n \in Nodes : Held(n) <= max_streams + 1

\* Relays join the two streams of one path, of the same try: however many paths wait for the
\* same peer, and however often a stream is asked for again after a connection was closed,
\* nobody is connected to the stream of somebody else.
PathsDoNotCross ==
    \A n \in Nodes : \A ch \in router[n] :
        stream[ch.from].packet.secret = stream[ch.to].packet.secret

\* What a client is told to be open has been accepted by the destination it asked for, which
\* has the same secret, and by no other node: a refusal of a relay is never taken for it.
EndToEnd ==
    \A k \in Paths : outcome[k] = "ok" =>
        \E s \in FirstsOf(k) :
            {n \in Nodes : \E q \in inbound[n] : stream[q].packet.secret = s} = {route[k].path[1]}

\* Nothing waits for a peer without anything being under way for it: the peer is dialled, or a
\* stream to it asked for.  The code has these exceptions and no other: a relay keeps an incoming
\* stream for which the next one could not be opened; once a connection to the peer was closed or
\* denied, what waits for the peer waits for somebody else to connect; and so does what waited
\* for a dial of another behaviour that failed.
NothingForgotten ==
    /\ \A k \in pending_requests :
          LET n == route[k].client
              m == Entry(route[k])
          IN  m \in dialing[n] \/ FirstsOf(k) \cap upgrading # {} \/ {n, m} \in cut
    /\ \A n \in Nodes : \A s \in pending_connections[n] :
          LET m == NextHop(stream[s].packet)
          IN  \/ m \in dialing[n] \/ {n, m} \in cut
              \/ \E q \in Children(s) : stream[q].stage \in {"asked", "closed"}

\* A client is told once what became of a path, also when a new connection asks for a
\* stream of it again, or an answer comes after the time was over.
ToldOnce == [][\A k \in Paths : outcome[k] # "none" => outcome'[k] = outcome[k]]_vars

\* Every path is reported to the client, unless its connection to the entry was closed, or it
\* waited for a dial of the program itself that failed.
PathReported ==
    \A k \in Paths : k \in pending_requests ~>
                        (k \notin pending_requests \/ {route[k].client, Entry(route[k])} \in cut)
=============================================================================
