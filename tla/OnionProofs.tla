---------------------------- MODULE OnionProofs ----------------------------
(***************************************************************************)
(* Proofs about onion paths (Onion), for any number of nodes, routes,      *)
(* paths and connections.                                                  *)
(***************************************************************************)
EXTENDS Onion, FiniteSetTheorems, SequenceTheorems, TLAPS

-----------------------------------------------------------------------------
(* What a client is told.                                                   *)

\* A path that is waited for has a route and no outcome, and one with an outcome has a route.
ToldInv ==
    /\ route \in [Paths -> Routes \cup {NoRoute}]
    /\ outcome \in [Paths -> {"none", "ok", "failed"}]
    /\ pending_requests \subseteq Paths
    /\ \A k \in pending_requests : route[k] # NoRoute /\ outcome[k] = "none"
    /\ \A k \in Paths : outcome[k] # "none" => route[k] # NoRoute

\* What is told stays.
OutcomesKept == \A k \in Paths : outcome[k] # "none" => outcome'[k] = outcome[k]

LEMMA ToldInit == Init => ToldInv
BY DEF Init, ToldInv

LEMMA ToldUnchanged ==
    ASSUME ToldInv, UNCHANGED <<route, pending_requests, outcome>>
    PROVE  ToldInv' /\ OutcomesKept
BY DEF ToldInv, OutcomesKept

LEMMA ToldOpenPath ==
    ASSUME ToldInv, NEW k \in Paths, NEW r \in Routes, OpenPath(k, r)
    PROVE  ToldInv' /\ OutcomesKept
<1>1. /\ route[k] = NoRoute /\ route' = [route EXCEPT ![k] = r]
      /\ pending_requests' = pending_requests \cup {k} /\ outcome' = outcome
  BY DEF OpenPath
<1>2. r # NoRoute
  BY OnionAssumption
<1> QED
  BY <1>1, <1>2 DEF ToldInv, OutcomesKept

LEMMA ToldDialFails ==
    ASSUME ToldInv, NEW n \in Nodes, NEW m \in Nodes, DialFails(n, m)
    PROVE  ToldInv' /\ OutcomesKept
<1> DEFINE unreachable == {k \in pending_requests : route[k].client = n /\ Entry(route[k]) = m}
<1>1. /\ route' = route /\ pending_requests' = pending_requests \ unreachable
      /\ outcome' = [k \in Paths |-> IF k \in unreachable THEN "failed" ELSE outcome[k]]
  BY DEF DialFails
<1>2. unreachable \subseteq pending_requests
  OBVIOUS
<1> HIDE DEF unreachable
<1> QED
  BY <1>1, <1>2 DEF ToldInv, OutcomesKept

LEMMA ToldConclude ==
    ASSUME ToldInv, NEW s, NEW result \in {"ok", "failed"}, Conclude(s, result), route' = route
    PROVE  ToldInv' /\ OutcomesKept
<1>1. /\ pending_requests' = pending_requests \ {s[1]}
      /\ outcome' = IF s[1] \in pending_requests THEN [outcome EXCEPT ![s[1]] = result] ELSE outcome
  BY DEF Conclude
<1> DEFINE k == s[1]
<1>2. pending_requests' = pending_requests \ {k}
      /\ outcome' = IF k \in pending_requests THEN [outcome EXCEPT ![k] = result] ELSE outcome
  BY <1>1
<1> HIDE DEF k
<1> QED
  BY <1>2 DEF ToldInv, OutcomesKept

LEMMA ToldReadAnswer ==
    ASSUME ToldInv, NEW s, ReadAnswer(s)
    PROVE  ToldInv' /\ OutcomesKept
<1>1. route' = route
  BY DEF ReadAnswer
<1>2. \E result \in {"ok", "failed"} : Conclude(s, result)
  <2>1. (IF Accepts(s) THEN "ok" ELSE "failed") \in {"ok", "failed"} /\ "failed" \in {"ok", "failed"}
    OBVIOUS
  <2> QED
    BY <2>1, Zenon DEF ReadAnswer
<1> QED
  BY <1>1, <1>2, ToldConclude

LEMMA ToldNext ==
    ASSUME ToldInv, [Next]_vars
    PROVE  ToldInv' /\ OutcomesKept
<1>1. ASSUME NEW k \in Paths, NEW r \in Routes, OpenPath(k, r) PROVE ToldInv' /\ OutcomesKept
  BY <1>1, ToldOpenPath
<1>2. ASSUME NEW n \in Nodes, NEW m \in Nodes, DialFails(n, m) PROVE ToldInv' /\ OutcomesKept
  BY <1>2, ToldDialFails
<1>3. ASSUME NEW n \in Nodes, NEW m \in Nodes, NEW c \in Conns,
             DialSucceeds(n, m, c) \/ OtherConnects(n, m, c) \/ ConnectionClosed(n, m, c)
      PROVE  ToldInv' /\ OutcomesKept
  BY <1>3, ToldUnchanged DEF DialSucceeds, OtherConnects, Establish, ConnectionClosed
<1>4. ASSUME NEW s \in DOMAIN stream,
             WriteRequest(s) \/ Relay(s) \/ Arrive(s) \/ NewChannel(s) \/ RelayUpgradeFails(s)
      PROVE  ToldInv' /\ OutcomesKept
  BY <1>4, ToldUnchanged DEF WriteRequest, Relay, Arrive, NewChannel, RelayUpgradeFails, client
<1>5. ASSUME NEW s \in DOMAIN stream, ReadAnswer(s) PROVE ToldInv' /\ OutcomesKept
  BY <1>5, ToldReadAnswer
<1>6. ASSUME NEW s \in DOMAIN stream, UpgradeFails(s) PROVE ToldInv' /\ OutcomesKept
  BY <1>6, ToldConclude DEF UpgradeFails
<1>7. ASSUME NEW n \in Nodes, NEW e \in error_streams[n], WriteError(n, e)
      PROVE  ToldInv' /\ OutcomesKept
  BY <1>7, ToldUnchanged DEF WriteError, client
<1>8. ASSUME NEW n \in Nodes, NEW ch \in router[n],
             Forward(n, ch) \/ FallsIdle(n, ch) \/ ChannelEnds(n, ch)
      PROVE  ToldInv' /\ OutcomesKept
  BY <1>8, ToldUnchanged DEF Forward, FallsIdle, ChannelEnds, client
<1>9. CASE UNCHANGED vars
  BY <1>9, ToldUnchanged DEF vars, client
<1>10. ASSUME NEW n \in Nodes, NEW m \in Nodes, Denied(n, m) \/ OtherDials(n, m) \/ OtherDialFails(n, m)
       PROVE  ToldInv' /\ OutcomesKept
  BY <1>10, ToldUnchanged DEF Denied, OtherDials, OtherDialFails, client
<1> QED
  BY <1>1, <1>2, <1>3, <1>4, <1>5, <1>6, <1>7, <1>8, <1>9, <1>10 DEF Next

LEMMA ToldInvHolds == Spec => []ToldInv
<1>1. ToldInv /\ [Next]_vars => ToldInv'
  BY ToldNext
<1> QED
  BY <1>1, ToldInit, PTL DEF Spec

\* A client is told once what became of a path (on_connection_handler_event and
\* report_unreachable), also when a stream is asked for again or an answer comes late.
THEOREM ToldOnceHolds == Spec => ToldOnce
<1>1. ToldInv /\ [Next]_vars => [OutcomesKept]_vars
  BY ToldNext
<1> QED
  BY <1>1, ToldInvHolds, PTL DEF Spec, ToldOnce, OutcomesKept

-----------------------------------------------------------------------------
(* The limit of a relay.                                                    *)

Live(channels) == {ch \in channels : ch.state # "invalid"}

IsChannel(ch) ==
    /\ ch = [from |-> ch.from, to |-> ch.to, state |-> ch.state]
    /\ ch.state \in {"open", "idle", "invalid"}

AllChannels(channels) == \A ch \in channels : IsChannel(ch)

\* A relay with these channels and these streams that wait keeps to the limit.
WithinLimit(channels, waiting, limit) ==
    /\ AllChannels(channels)
    /\ IsFiniteSet(Live(channels)) /\ IsFiniteSet(waiting)
    /\ Cardinality(Live(channels)) + Cardinality(waiting) <= limit + 1

SlotsInv ==
    /\ max_streams \in Nat
    /\ router = [n \in Nodes |-> router[n]]
    /\ pending_connections = [n \in Nodes |-> pending_connections[n]]
    /\ \A n \in Nodes : WithinLimit(router[n], pending_connections[n], max_streams)

LEMMA WithState ==
    ASSUME NEW ch, IsChannel(ch), NEW state \in {"open", "idle", "invalid"}
    PROVE  IsChannel([ch EXCEPT !.state = state]) /\ [ch EXCEPT !.state = state].state = state
           /\ [ch EXCEPT !.state = state].from = ch.from /\ [ch EXCEPT !.state = state].to = ch.to
BY DEF IsChannel

LEMMA LimitInit ==
    ASSUME NEW limit \in Nat PROVE WithinLimit({}, {}, limit)
<1>1. Live({}) = {}
  BY DEF Live
<1>2. IsFiniteSet({}) /\ Cardinality({}) = 0
  BY FS_EmptySet
<1>3. IsFiniteSet(Live({})) /\ Cardinality(Live({})) = 0
  BY <1>1, <1>2, Zenon
<1>4. AllChannels({})
  BY DEF AllChannels
<1>5. Cardinality(Live({})) + Cardinality({}) <= limit + 1
  BY <1>2, <1>3
<1> QED
  BY <1>2, <1>3, <1>4, <1>5, Zenon DEF WithinLimit

\* With fewer live channels and fewer streams that wait a relay stays within its limit.
LEMMA LimitFewer ==
    ASSUME NEW C, NEW W, NEW limit \in Nat, WithinLimit(C, W, limit),
           NEW D, AllChannels(D), Live(D) \subseteq Live(C), NEW V \in SUBSET W
    PROVE  WithinLimit(D, V, limit)
<1>1. IsFiniteSet(Live(D)) /\ Cardinality(Live(D)) <= Cardinality(Live(C))
  <2>1. IsFiniteSet(Live(C)) /\ Live(D) \in SUBSET Live(C)
    BY DEF WithinLimit
  <2> QED
    BY <2>1, FS_Subset
<1>2. IsFiniteSet(V) /\ Cardinality(V) <= Cardinality(W)
  BY FS_Subset DEF WithinLimit
<1>3. /\ Cardinality(Live(D)) \in Nat /\ Cardinality(Live(C)) \in Nat
      /\ Cardinality(V) \in Nat /\ Cardinality(W) \in Nat
  BY <1>1, <1>2, FS_CardinalityType DEF WithinLimit
<1> QED
  BY <1>1, <1>2, <1>3 DEF WithinLimit

\* A channel is put in the place of a live one, in another state.
LEMMA LimitReplaced ==
    ASSUME NEW C, NEW W, NEW limit \in Nat, WithinLimit(C, W, limit),
           NEW ch \in C, ch.state # "invalid", NEW new, IsChannel(new)
    PROVE  WithinLimit((C \ {ch}) \cup {new}, W, limit)
<1> DEFINE D == (C \ {ch}) \cup {new}
           L == Live(C) \ {ch}
<1>1. AllChannels(D)
  BY DEF WithinLimit, AllChannels
<1>2. ch \in Live(C) /\ IsFiniteSet(Live(C)) /\ Live(D) \subseteq L \cup {new}
  BY DEF Live, WithinLimit
<1>3. IsFiniteSet(L) /\ Cardinality(L) = Cardinality(Live(C)) - 1
  BY <1>2, FS_RemoveElement
<1>4. /\ IsFiniteSet(L \cup {new})
      /\ Cardinality(L \cup {new}) = IF new \in L THEN Cardinality(L) ELSE Cardinality(L) + 1
  BY <1>3, FS_AddElement
<1> HIDE DEF L, D
<1>5. IsFiniteSet(Live(D)) /\ Cardinality(Live(D)) <= Cardinality(L \cup {new})
  BY <1>2, <1>4, FS_Subset
<1>6. /\ Cardinality(Live(D)) \in Nat /\ Cardinality(Live(C)) \in Nat /\ Cardinality(L) \in Nat
      /\ Cardinality(W) \in Nat /\ Cardinality(L \cup {new}) \in Nat
  BY <1>2, <1>3, <1>4, <1>5, FS_CardinalityType DEF WithinLimit
<1>7. Cardinality(Live(D)) <= Cardinality(Live(C))
  BY <1>3, <1>4, <1>5, <1>6
<1>8. WithinLimit(D, W, limit)
  BY <1>1, <1>5, <1>6, <1>7 DEF WithinLimit
<1> QED
  BY <1>8 DEF D

\* A stream that waited is joined: it makes room for the channel.
LEMMA LimitJoined ==
    ASSUME NEW C, NEW W, NEW limit \in Nat, WithinLimit(C, W, limit),
           NEW q \in W, NEW new, IsChannel(new)
    PROVE  WithinLimit(C \cup {new}, W \ {q}, limit)
<1> DEFINE D == C \cup {new}
           V == W \ {q}
<1>1. AllChannels(D)
  BY DEF WithinLimit, AllChannels
<1>2. IsFiniteSet(Live(C)) /\ IsFiniteSet(W) /\ Live(D) \subseteq Live(C) \cup {new}
  BY DEF Live, WithinLimit
<1>3. IsFiniteSet(V) /\ Cardinality(V) = Cardinality(W) - 1
  BY <1>2, FS_RemoveElement
<1>4. /\ IsFiniteSet(Live(C) \cup {new})
      /\ Cardinality(Live(C) \cup {new}) <= Cardinality(Live(C)) + 1
  <2>1. /\ IsFiniteSet(Live(C) \cup {new})
        /\ Cardinality(Live(C) \cup {new})
              = IF new \in Live(C) THEN Cardinality(Live(C)) ELSE Cardinality(Live(C)) + 1
    BY <1>2, FS_AddElement
  <2>2. Cardinality(Live(C)) \in Nat
    BY <1>2, FS_CardinalityType
  <2> QED
    BY <2>1, <2>2
<1> HIDE DEF D, V
<1>5. IsFiniteSet(Live(D)) /\ Cardinality(Live(D)) <= Cardinality(Live(C) \cup {new})
  BY <1>2, <1>4, FS_Subset
<1>6. /\ Cardinality(Live(D)) \in Nat /\ Cardinality(Live(C)) \in Nat /\ Cardinality(V) \in Nat
      /\ Cardinality(W) \in Nat /\ Cardinality(Live(C) \cup {new}) \in Nat
  BY <1>2, <1>3, <1>4, <1>5, FS_CardinalityType
<1>7. Cardinality(Live(C)) + Cardinality(W) <= limit + 1
  BY DEF WithinLimit
<1>8. Cardinality(Live(D)) + Cardinality(V) <= limit + 1
  BY <1>3, <1>4, <1>5, <1>6, <1>7
<1>9. WithinLimit(D, V, limit)
  BY <1>1, <1>3, <1>5, <1>8 DEF WithinLimit
<1> QED
  BY <1>9 DEF D, V

\* What is left of the channels once the idle ones are found.
LEMMA NoticedIdle ==
    ASSUME NEW C, AllChannels(C)
    PROVE  /\ AllChannels(NoticeIdle(C))
           /\ Live(NoticeIdle(C)) = {ch \in C : ch.state = "open"}
           /\ Live(NoticeIdle(C)) \subseteq Live(C)
<1>1. \A ch \in C : IsChannel(ch) /\ IsChannel([ch EXCEPT !.state = "invalid"])
                    /\ [ch EXCEPT !.state = "invalid"].state = "invalid"
                    /\ ch.state \in {"open", "idle", "invalid"}
  BY WithState DEF AllChannels, IsChannel
<1>2. \A x : x \in NoticeIdle(C) <=>
          \E ch \in C : x = IF ch.state = "idle" THEN [ch EXCEPT !.state = "invalid"] ELSE ch
  BY DEF NoticeIdle
<1>3. AllChannels(NoticeIdle(C))
  BY <1>1, <1>2 DEF AllChannels
<1>4. ASSUME NEW x \in Live(NoticeIdle(C)) PROVE x \in C /\ x.state = "open"
  <2>1. x \in NoticeIdle(C) /\ x.state # "invalid"
    BY DEF Live
  <2>2. PICK ch \in C : x = IF ch.state = "idle" THEN [ch EXCEPT !.state = "invalid"] ELSE ch
    BY <1>2, <2>1
  <2>3. CASE ch.state = "idle"
    BY <1>1, <2>1, <2>2, <2>3
  <2>4. CASE ch.state # "idle"
    BY <1>1, <2>1, <2>2, <2>4
  <2> QED
    BY <2>3, <2>4
<1>5. ASSUME NEW x \in C, x.state = "open" PROVE x \in Live(NoticeIdle(C))
  <2>1. x \in NoticeIdle(C)
    BY <1>2, <1>5
  <2> QED
    BY <1>5, <2>1 DEF Live
<1> QED
  BY <1>3, <1>4, <1>5 DEF Live

\* A stream is let in.
LEMMA LimitAdmitted ==
    ASSUME NEW C, NEW W, NEW limit \in Nat, WithinLimit(C, W, limit), NEW s,
           ~ (Cardinality({ch \in C : ch.state = "open"}) + Cardinality(W) > limit)
    PROVE  WithinLimit(NoticeIdle(C), W \cup {s}, limit)
<1> DEFINE open == {ch \in C : ch.state = "open"}
<1>1. /\ AllChannels(NoticeIdle(C)) /\ Live(NoticeIdle(C)) = open
      /\ Live(NoticeIdle(C)) \subseteq Live(C)
  BY NoticedIdle DEF WithinLimit
<1> HIDE DEF open
<1>2. IsFiniteSet(open) /\ IsFiniteSet(W)
  BY <1>1, FS_Subset DEF WithinLimit
<1>3. /\ IsFiniteSet(W \cup {s})
      /\ Cardinality(W \cup {s}) = IF s \in W THEN Cardinality(W) ELSE Cardinality(W) + 1
  BY <1>2, FS_AddElement
<1>4. Cardinality(open) \in Nat /\ Cardinality(W) \in Nat
  BY <1>2, FS_CardinalityType
<1>5. ~ (Cardinality(open) + Cardinality(W) > limit)
  BY DEF open
<1>6. Cardinality(open) + Cardinality(W \cup {s}) <= limit + 1
  BY <1>3, <1>4, <1>5
<1> QED
  BY <1>1, <1>2, <1>3, <1>6 DEF WithinLimit

LEMMA SlotsInit == Init => SlotsInv
<1> SUFFICES ASSUME Init PROVE SlotsInv
  OBVIOUS
<1>1. max_streams \in Nat
  BY OnionAssumption DEF Init
<1>2. \A n \in Nodes : router[n] = {} /\ pending_connections[n] = {}
  BY DEF Init
<1>3. WithinLimit({}, {}, max_streams)
  BY <1>1, LimitInit
<1>4. \A n \in Nodes : WithinLimit(router[n], pending_connections[n], max_streams)
  BY <1>2, <1>3, Zenon
<1> QED
  BY <1>1, <1>4 DEF Init, SlotsInv

\* One relay's channels and waiting streams change, and it stays within its limit.
LEMMA SlotsAtOne ==
    ASSUME SlotsInv, max_streams' = max_streams, NEW n, NEW C, NEW W,
           router' = [router EXCEPT ![n] = C],
           pending_connections' = [pending_connections EXCEPT ![n] = W],
           n \in Nodes => WithinLimit(C, W, max_streams)
    PROVE  SlotsInv'
<1>1. max_streams' \in Nat
  BY DEF SlotsInv
<1>2. /\ router' = [x \in Nodes |-> router'[x]]
      /\ pending_connections' = [x \in Nodes |-> pending_connections'[x]]
  BY DEF SlotsInv
<1>3. ASSUME NEW x \in Nodes PROVE WithinLimit(router'[x], pending_connections'[x], max_streams')
  <2>1. WithinLimit(router[x], pending_connections[x], max_streams)
    BY DEF SlotsInv
  <2>2. CASE x = n
    <3>1. router'[x] = C /\ pending_connections'[x] = W /\ n \in Nodes
      BY <2>2 DEF SlotsInv
    <3> QED
      BY <3>1
  <2>3. CASE x # n
    <3>1. router'[x] = router[x] /\ pending_connections'[x] = pending_connections[x]
      BY <2>3 DEF SlotsInv
    <3> QED
      BY <2>1, <3>1
  <2> QED
    BY <2>2, <2>3
<1> QED
  BY <1>1, <1>2, <1>3 DEF SlotsInv

LEMMA SlotsUnchanged ==
    ASSUME SlotsInv, UNCHANGED <<router, pending_connections, max_streams>>
    PROVE  SlotsInv'
BY DEF SlotsInv

\* A function with the value it has somewhere.
LEMMA Unaltered ==
    ASSUME SlotsInv, NEW n
    PROVE  /\ router = [router EXCEPT ![n] = router[n]]
           /\ pending_connections = [pending_connections EXCEPT ![n] = pending_connections[n]]
BY DEF SlotsInv

LEMMA SlotsDialFails ==
    ASSUME SlotsInv, NEW n \in Nodes, NEW m \in Nodes, DialFails(n, m)
    PROVE  SlotsInv'
<1> DEFINE given_up == {q \in pending_connections[n] : NextHop(stream[q].packet) = m}
           W == pending_connections[n] \ given_up
<1>1. /\ router' = router /\ max_streams' = max_streams
      /\ pending_connections' = [pending_connections EXCEPT ![n] = W]
  BY DEF DialFails, Fault
<1>2. W \in SUBSET pending_connections[n]
  OBVIOUS
<1> HIDE DEF W
<1>3. WithinLimit(router[n], pending_connections[n], max_streams) /\ max_streams \in Nat
  BY DEF SlotsInv
<1>4. AllChannels(router[n])
  BY <1>3 DEF WithinLimit
<1>5. WithinLimit(router[n], W, max_streams)
  BY <1>2, <1>3, <1>4, LimitFewer
<1> QED
  BY <1>1, <1>5, SlotsAtOne, Unaltered

LEMMA SlotsRelay ==
    ASSUME SlotsInv, NEW s, Relay(s)
    PROVE  SlotsInv'
<1> DEFINE n == stream[s].to
           C == NoticeIdle(router[n])
           W == pending_connections[n]
<1>1. max_streams' = max_streams
  BY DEF Relay, bounds
<1>2. CASE UNCHANGED <<router, pending_connections>>
  BY <1>1, <1>2, SlotsUnchanged
<1>3. CASE PushIncomingStream(n, s)
  <2>1. /\ router' = [router EXCEPT ![n] = C]
    BY <1>3 DEF PushIncomingStream
  <2>2. CASE Full(n)
    <3>1. pending_connections' = pending_connections
      BY <1>3, <2>2 DEF PushIncomingStream
    <3>2. ASSUME n \in Nodes PROVE WithinLimit(C, W, max_streams)
      <4>1. WithinLimit(router[n], W, max_streams) /\ max_streams \in Nat
        BY <3>2 DEF SlotsInv
      <4>2. AllChannels(router[n])
        BY <4>1 DEF WithinLimit
      <4>3. AllChannels(C) /\ Live(C) \subseteq Live(router[n])
        BY <4>2, NoticedIdle
      <4>4. W \in SUBSET W
        OBVIOUS
      <4> HIDE DEF C, W
      <4> QED
        BY <4>1, <4>3, <4>4, LimitFewer
    <3>3. pending_connections' = [pending_connections EXCEPT ![n] = W]
      BY <3>1, Unaltered
    <3> HIDE DEF C, W, n
    <3> QED
      BY <1>1, <2>1, <3>2, <3>3, SlotsAtOne
  <2>3. CASE ~Full(n)
    <3>1. pending_connections' = [pending_connections EXCEPT ![n] = W \cup {s}]
      BY <1>3, <2>3 DEF PushIncomingStream
    <3>2. ASSUME n \in Nodes PROVE WithinLimit(C, W \cup {s}, max_streams)
      <4>1. WithinLimit(router[n], W, max_streams) /\ max_streams \in Nat
        BY <3>2 DEF SlotsInv
      <4>2. ~ (Cardinality({ch \in router[n] : ch.state = "open"}) + Cardinality(W) > max_streams)
        BY <2>3 DEF Full
      <4> HIDE DEF W
      <4> QED
        BY <4>1, <4>2, LimitAdmitted
    <3> HIDE DEF C, W, n
    <3> QED
      BY <1>1, <2>1, <3>1, <3>2, SlotsAtOne
  <2> QED
    BY <2>2, <2>3
<1> QED
  BY <1>2, <1>3 DEF Relay, relay

LEMMA SlotsNewChannel ==
    ASSUME SlotsInv, NEW s, NewChannel(s)
    PROVE  SlotsInv'
<1> DEFINE n == Opener(s)
<1>1. max_streams' = max_streams
  BY DEF NewChannel, bounds
<1>2. CASE UNCHANGED <<router, pending_connections>>
  BY <1>1, <1>2, SlotsUnchanged
<1>3. ASSUME NEW q \in Partner(n, s),
             pending_connections' = [pending_connections EXCEPT ![n] = @ \ {q}],
             router' = [router EXCEPT ![n] = @ \cup {[from |-> q, to |-> s, state |-> "open"]}]
      PROVE  SlotsInv'
  <2> DEFINE new == [from |-> q, to |-> s, state |-> "open"]
             C == router[n]
             W == pending_connections[n]
  <2>1. q \in W
    BY DEF Partner
  <2>2. IsChannel(new)
    BY DEF IsChannel
  <2>3. /\ router' = [router EXCEPT ![n] = C \cup {new}]
        /\ pending_connections' = [pending_connections EXCEPT ![n] = W \ {q}]
    BY <1>3
  <2>4. n \in Nodes => WithinLimit(C, W, max_streams) /\ max_streams \in Nat
    BY DEF SlotsInv
  <2> HIDE DEF new, C, W, n
  <2>5. n \in Nodes => WithinLimit(C \cup {new}, W \ {q}, max_streams)
    BY <2>1, <2>2, <2>4, LimitJoined
  <2> QED
    BY <1>1, <2>3, <2>5, SlotsAtOne
<1> QED
  BY <1>2, <1>3 DEF NewChannel

LEMMA SlotsChannel ==
    ASSUME SlotsInv, NEW n \in Nodes, NEW ch \in router[n],
           Forward(n, ch) \/ FallsIdle(n, ch) \/ ChannelEnds(n, ch)
    PROVE  SlotsInv'
<1> DEFINE C == router[n]
           W == pending_connections[n]
           new(state) == [ch EXCEPT !.state = state]
<1>1. max_streams' = max_streams /\ pending_connections' = pending_connections
  BY DEF Forward, FallsIdle, ChannelEnds, bounds, Fault
<1>2. /\ WithinLimit(C, W, max_streams) /\ max_streams \in Nat /\ AllChannels(C) /\ IsChannel(ch)
      /\ W \in SUBSET W
  BY DEF SlotsInv, WithinLimit, AllChannels
<1>3. pending_connections' = [pending_connections EXCEPT ![n] = W]
  BY <1>1, Unaltered
<1>4. ASSUME NEW state \in {"open", "idle"}, ch.state # "invalid", router' = SetState(n, ch, state)
      PROVE  SlotsInv'
  <2>1. router' = [router EXCEPT ![n] = (C \ {ch}) \cup {new(state)}]
    BY <1>4 DEF SetState
  <2>2. IsChannel(new(state))
    BY <1>2, WithState
  <2> HIDE DEF new, C, W
  <2>3. ch \in C
    BY DEF C
  <2>4. WithinLimit((C \ {ch}) \cup {new(state)}, W, max_streams)
    BY <1>2, <1>4, <2>2, <2>3, LimitReplaced
  <2> QED
    BY <1>1, <1>3, <2>1, <2>4, SlotsAtOne
<1>5. CASE Forward(n, ch)
  BY <1>4, <1>5 DEF Forward
<1>6. CASE FallsIdle(n, ch)
  BY <1>4, <1>6 DEF FallsIdle
<1>7. CASE ChannelEnds(n, ch)
  <2>1. router' = [router EXCEPT ![n] = C \ {ch}]
    BY <1>7 DEF ChannelEnds
  <2>2. AllChannels(C \ {ch}) /\ Live(C \ {ch}) \subseteq Live(C)
    BY <1>2 DEF AllChannels, Live
  <2> HIDE DEF C, W
  <2>3. WithinLimit(C \ {ch}, W, max_streams)
    BY <1>2, <2>2, LimitFewer
  <2> QED
    BY <1>1, <1>3, <2>1, <2>3, SlotsAtOne
<1> QED
  BY <1>5, <1>6, <1>7

LEMMA SlotsNext ==
    ASSUME SlotsInv, [Next]_vars
    PROVE  SlotsInv'
<1>1. ASSUME NEW k \in Paths, NEW r \in Routes, OpenPath(k, r) PROVE SlotsInv'
  BY <1>1, SlotsUnchanged DEF OpenPath, relay
<1>2. ASSUME NEW n \in Nodes, NEW m \in Nodes, DialFails(n, m) PROVE SlotsInv'
  BY <1>2, SlotsDialFails
<1>3. ASSUME NEW n \in Nodes, NEW m \in Nodes, NEW c \in Conns,
             DialSucceeds(n, m, c) \/ OtherConnects(n, m, c) \/ ConnectionClosed(n, m, c)
      PROVE  SlotsInv'
  BY <1>3, SlotsUnchanged DEF DialSucceeds, OtherConnects, Establish, ConnectionClosed, relay, bounds
<1>4. ASSUME NEW s \in DOMAIN stream,
             WriteRequest(s) \/ ReadAnswer(s) \/ UpgradeFails(s) \/ Arrive(s) \/ RelayUpgradeFails(s)
      PROVE  SlotsInv'
  BY <1>4, SlotsUnchanged DEF WriteRequest, ReadAnswer, UpgradeFails, Arrive, RelayUpgradeFails,
                              relay, bounds, Fault
<1>5. ASSUME NEW s \in DOMAIN stream, Relay(s) \/ NewChannel(s) PROVE SlotsInv'
  BY <1>5, SlotsRelay, SlotsNewChannel
<1>6. ASSUME NEW n \in Nodes, NEW e \in error_streams[n], WriteError(n, e) PROVE SlotsInv'
  BY <1>6, SlotsUnchanged DEF WriteError, bounds
<1>7. ASSUME NEW n \in Nodes, NEW ch \in router[n],
             Forward(n, ch) \/ FallsIdle(n, ch) \/ ChannelEnds(n, ch)
      PROVE  SlotsInv'
  BY <1>7, SlotsChannel
<1>8. CASE UNCHANGED vars
  BY <1>8, SlotsUnchanged DEF vars, relay, bounds
<1>9. ASSUME NEW n \in Nodes, NEW m \in Nodes, Denied(n, m) \/ OtherDials(n, m) \/ OtherDialFails(n, m)
      PROVE  SlotsInv'
  BY <1>9, SlotsUnchanged DEF Denied, OtherDials, OtherDialFails, relay
<1> QED
  BY <1>1, <1>2, <1>3, <1>4, <1>5, <1>6, <1>7, <1>8, <1>9 DEF Next

LEMMA SlotsInvHolds == Spec => []SlotsInv
<1>1. SlotsInv /\ [Next]_vars => SlotsInv'
  BY SlotsNext
<1> QED
  BY <1>1, SlotsInit, PTL DEF Spec

\* A relay never holds more than max_streams + 1 streams, though a channel may fall silent, be
\* passed over by the count (push_incoming_stream), and carry bytes again.
THEOREM SlotsHolds == Spec => []Slots
<1>1. SlotsInv => Slots
  BY DEF SlotsInv, WithinLimit, Live, Slots, Held
<1> QED
  BY <1>1, SlotsInvHolds, PTL

-----------------------------------------------------------------------------
(* The streams.                                                             *)

StreamIds == {s \in Paths \X Seq(Nat) : Len(s[2]) \in 1 .. 3}

\* What is left of the layers for the node that reads them d-th.
LayersFrom(path, d) ==
    IF d = 1 THEN Layers(path)
    ELSE IF d = 2 THEN <<[key |-> path[2], to |-> path[1]], [key |-> path[1], to |-> NoNode]>>
    ELSE <<[key |-> path[1], to |-> NoNode]>>

PacketOf(s, r) == [secret |-> <<s[1], <<s[2][1]>>>>, layers |-> LayersFrom(r.path, Len(s[2]))]

\* The node a stream of this route goes to.
HopOf(s, r) == r.path[4 - Len(s[2])]

Kinds == {"nothing", "ok", "missing", "occupied"}
Backs == [kind : Kinds] \cup [kind : Kinds, secret : Paths \X Seq(Nat)]

Stages == {"asked", "open", "closed", "lost"}

\* What stream s of a path with route r can be: where it goes, and the packet it carries, are
\* those of its place on the route.
StreamType(s, r) ==
    [to : {HopOf(s, r)}, conn : Conns, packet : {PacketOf(s, r)}, stage : Stages, back : Backs]

Made(s) ==
    /\ s \in StreamIds /\ route[s[1]] \in Routes
    /\ stream[s] \in StreamType(s, route[s[1]])
    /\ ~IsFirst(s) => Source(s) \in DOMAIN stream

AllMade == \A s \in DOMAIN stream : Made(s)

\* What relays and destinations keep: streams that wait at the node they went to and have a next
\* hop, channels that join a stream with its source, errors to be written, and streams that
\* reached the end of their route.
Waits(q, n) == q \in DOMAIN stream /\ stream[q].to = n /\ Len(q[2]) < 3
Joins(ch)   == ch.to \in DOMAIN stream /\ ~IsFirst(ch.to) /\ ch.from = Source(ch.to)
Refuses(e)  == e.stream \in DOMAIN stream /\ e.kind \in {"missing", "occupied"}
Ends(q, n)  == q \in DOMAIN stream /\ stream[q].to = n /\ Len(q[2]) = 3

AllWait   == \A n \in Nodes : \A q \in pending_connections[n] : Waits(q, n)
AllJoin   == \A n \in Nodes : \A ch \in router[n] : Joins(ch)
AllRefuse == \A n \in Nodes : \A e \in error_streams[n] : Refuses(e)
AllEnd    == \A n \in Nodes : \A q \in inbound[n] : Ends(q, n)

StreamsInv ==
    /\ AllMade /\ IsFiniteSet(DOMAIN stream)
    /\ arriving \subseteq DOMAIN stream
    /\ upgrading \subseteq {s \in DOMAIN stream : IsFirst(s)}
    /\ peer_to_connection \in [Nodes -> [Nodes -> Conns \cup {NoConn, DeadConn}]]
    /\ DOMAIN error_streams = Nodes /\ DOMAIN inbound = Nodes
    /\ AllWait /\ AllJoin /\ AllRefuse /\ AllEnd

\* What every step does to the streams: there may be more of them.
StreamsStep ==
    /\ DOMAIN stream \subseteq DOMAIN stream' /\ IsFiniteSet(DOMAIN stream')
    /\ AllMade'
    /\ \A s \in DOMAIN stream : route'[s[1]] = route[s[1]]

\* The destination of the try with this secret has accepted it.
Confirmed(secret) == \E n \in Nodes : \E q \in inbound[n] : stream[q].packet.secret = secret

\* Who is told of success, on the way back or in the end, is told by the destination.
EndInv ==
    /\ \A s \in DOMAIN stream : stream[s].back.kind = "ok" => Confirmed(stream[s].back.secret)
    /\ \A k \in Paths : outcome[k] = "ok" => \E s \in FirstsOf(k) : Confirmed(s)

\* Tries are numbered, so that the next one is new.
Numbered ==
    /\ \A k \in Paths : \A s \in FirstsOf(k) : s[2][1] <= Cardinality(FirstsOf(k))
    /\ \A q \in DOMAIN stream : \A s \in Children(q) :
          s[2][Len(s[2])] <= Cardinality(Children(q))

\* n dials m, and nothing before has connected them.
Dials(n, m) == m \in dialing[n] /\ peer_to_connection[n][m] = NoConn

\* Connected nodes know of their connection, and nodes only of connections that there are, unless
\* one of theirs was closed or denied.
ConnectionsKnown ==
    \A n, m \in Nodes : \/ Connected(n, m) /\ peer_to_connection[n][m] = NoConn
                        \/ peer_to_connection[n][m] = DeadConn
                        => {n, m} \in cut

\* A stream that was asked for, or given up.
Busy(q) == stream[q].stage \in {"asked", "closed"}

RequestSeen(k) ==
    LET n == route[k].client
        m == Entry(route[k])
    IN  Dials(n, m) \/ FirstsOf(k) \cap upgrading # {} \/ {n, m} \in cut

RelayedSeen(n, s) ==
    LET m == NextHop(stream[s].packet)
    IN  \/ Dials(n, m) \/ {n, m} \in cut
        \/ \E q \in Children(s) : Busy(q)

SeenInv ==
    /\ DOMAIN dialing = Nodes /\ Numbered
    /\ ConnectionsKnown
    /\ \A k \in pending_requests : RequestSeen(k)
    /\ \A n \in Nodes : \A s \in pending_connections[n] : RelayedSeen(n, s)

LEMMA RouteFacts ==
    ASSUME NEW r \in Routes
    PROVE  /\ r.path[1] \in Nodes /\ r.path[2] \in Nodes /\ r.path[3] \in Nodes /\ r.client \in Nodes
           /\ r.path[1] # r.path[2] /\ r.path[2] # r.path[3] /\ r.path[1] # r.path[3]
           /\ r.client # r.path[1] /\ r.client # r.path[2] /\ r.client # r.path[3]
           /\ r.path[1] # NoNode /\ r.path[2] # NoNode /\ r.path[3] # NoNode /\ r # NoRoute
<1>1. r.path \in [1 .. 3 -> Nodes] /\ IsInjective(r.path)
      /\ r.client \in Nodes \ {r.path[i] : i \in 1 .. 3} /\ NoNode \notin Nodes /\ r # NoRoute
  BY OnionAssumption
<1>2. \A a, b \in 1 .. 3 : r.path[a] = r.path[b] => a = b
  BY <1>1 DEF IsInjective
<1> QED
  BY <1>1, <1>2

LEMMA PacketFacts ==
    ASSUME NEW r \in Routes, NEW s \in StreamIds
    PROVE  /\ PacketOf(s, r).secret = <<s[1], <<s[2][1]>>>>
           /\ Len(s[2]) = 1 => NextHop(PacketOf(s, r)) = r.path[2]
           /\ Len(s[2]) = 2 => NextHop(PacketOf(s, r)) = r.path[1]
           /\ Len(s[2]) = 3 => NextHop(PacketOf(s, r)) = NoNode
           /\ CanPeel(HopOf(s, r), PacketOf(s, r))
<1>1. Len(s[2]) \in {1, 2, 3}
  BY DEF StreamIds
<1>2. \A d \in {1, 2, 3} : Head(LayersFrom(r.path, d)) =
         [key |-> r.path[4 - d], to |-> IF d = 1 THEN r.path[2] ELSE IF d = 2 THEN r.path[1] ELSE NoNode]
  BY DEF LayersFrom, Layers
<1> DEFINE d == Len(s[2])
           p == PacketOf(s, r)
<1>3. p.secret = <<s[1], <<s[2][1]>>>> /\ p.layers = LayersFrom(r.path, d)
  BY DEF PacketOf
<1>4. HopOf(s, r) = r.path[4 - d]
  BY DEF HopOf
<1>5. d \in {1, 2, 3}
  BY <1>1
<1> HIDE DEF d, p
<1>6. /\ Head(p.layers).key = r.path[4 - d]
      /\ Head(p.layers).to = IF d = 1 THEN r.path[2] ELSE IF d = 2 THEN r.path[1] ELSE NoNode
  BY <1>2, <1>3, <1>5
<1>7. CanPeel(HopOf(s, r), p)
  BY <1>4, <1>6 DEF CanPeel
<1>8. NextHop(p) = IF d = 1 THEN r.path[2] ELSE IF d = 2 THEN r.path[1] ELSE NoNode
  BY <1>6 DEF NextHop
<1>9. /\ d = 1 => NextHop(p) = r.path[2]
      /\ d = 2 => NextHop(p) = r.path[1]
      /\ d = 3 => NextHop(p) = NoNode
  BY <1>8
<1> QED
  BY <1>3, <1>7, <1>9 DEF d, p

\* The packet of a stream without its outer layer is the packet of the next one.
LEMMA PeeledFacts ==
    ASSUME NEW r \in Routes, NEW s \in StreamIds, NEW t \in StreamIds,
           Len(s[2]) < 3, Len(t[2]) = Len(s[2]) + 1, t[1] = s[1], t[2][1] = s[2][1]
    PROVE  Peeled(PacketOf(s, r)) = PacketOf(t, r) /\ NextHop(PacketOf(s, r)) = HopOf(t, r)
<1>1. Len(s[2]) \in {1, 2}
  BY DEF StreamIds
<1>2. \A d \in {1, 2} : Tail(LayersFrom(r.path, d)) = LayersFrom(r.path, d + 1)
  BY DEF LayersFrom, Layers
<1>3. Tail(LayersFrom(r.path, Len(s[2]))) = LayersFrom(r.path, Len(t[2]))
  BY <1>1, <1>2
<1> DEFINE secret == <<s[1], <<s[2][1]>>>>
           layers == LayersFrom(r.path, Len(s[2]))
<1>4. PacketOf(s, r) = [secret |-> secret, layers |-> layers]
      /\ PacketOf(t, r) = [secret |-> secret, layers |-> Tail(layers)]
  BY <1>3 DEF PacketOf
<1> DEFINE rest == Tail(layers)
<1> HIDE DEF secret, layers
<1>5. Peeled(PacketOf(s, r)) = PacketOf(t, r)
  <2>1. Peeled([secret |-> secret, layers |-> layers]) =
            [[secret |-> secret, layers |-> layers] EXCEPT !.layers = rest]
    BY DEF Peeled
  <2> HIDE DEF rest
  <2>2. [[secret |-> secret, layers |-> layers] EXCEPT !.layers = rest] = [secret |-> secret, layers |-> rest]
    OBVIOUS
  <2> QED
    BY <1>4, <2>1, <2>2, Zenon DEF rest
<1>6. NextHop(PacketOf(s, r)) = HopOf(t, r)
  <2>1. CASE Len(s[2]) = 1
    BY <2>1, PacketFacts DEF HopOf
  <2>2. CASE Len(s[2]) = 2
    BY <2>2, PacketFacts DEF HopOf
  <2> QED
    BY <1>1, <2>1, <2>2
<1> QED
  BY <1>5, <1>6

LEMMA FrontFacts ==
    ASSUME NEW t \in Seq(Nat), Len(t) \in {2, 3}
    PROVE  /\ SubSeq(t, 1, Len(t) - 1) \in Seq(Nat)
           /\ Len(SubSeq(t, 1, Len(t) - 1)) = Len(t) - 1
           /\ \A j \in 1 .. Len(t) - 1 : SubSeq(t, 1, Len(t) - 1)[j] = t[j]
           /\ SubSeq(t, 1, Len(t) - 1)[1] = t[1]
<1> DEFINE n == Len(t) - 1
<1>1. n \in {1, 2} /\ n \in Int /\ 1 \in Int
  OBVIOUS
<1> HIDE DEF n
<1>2. /\ SubSeq(t, 1, n) \in Seq(Nat)
      /\ Len(SubSeq(t, 1, n)) = IF 1 <= n THEN n - 1 + 1 ELSE 0
      /\ \A i \in 1 .. n - 1 + 1 : SubSeq(t, 1, n)[i] = t[1 + i - 1]
  BY <1>1, SubSeqProperties
<1> HIDE DEF n
<1>3. Len(SubSeq(t, 1, n)) = n
  BY <1>1, <1>2
<1>4. \A i \in 1 .. n : SubSeq(t, 1, n)[i] = t[i]
  BY <1>1, <1>2
<1>5. SubSeq(t, 1, n)[1] = t[1]
  BY <1>1, <1>4
<1> QED
  BY <1>2, <1>3, <1>4, <1>5 DEF n

LEMMA PairFacts ==
    ASSUME NEW k \in Paths, NEW f \in Seq(Nat), Len(f) \in {1, 2, 3}
    PROVE  /\ <<k, f>> \in StreamIds /\ <<k, f>>[1] = k /\ <<k, f>>[2] = f
           /\ IsFirst(<<k, f>>) <=> Len(f) = 1
<1> DEFINE t == <<k, f>>
<1>1. t \in Paths \X Seq(Nat) /\ t[1] = k /\ t[2] = f
  OBVIOUS
<1> HIDE DEF t
<1>2. Len(t[2]) \in 1 .. 3
  BY <1>1
<1> QED
  BY <1>1, <1>2 DEF StreamIds, IsFirst, t

LEMMA IdFacts ==
    ASSUME NEW s \in StreamIds
    PROVE  /\ s = <<s[1], s[2]>> /\ s[1] \in Paths /\ s[2] \in Seq(Nat) /\ Len(s[2]) \in {1, 2, 3}
           /\ IsFirst(s) <=> Len(s[2]) = 1
           /\ ~IsFirst(s) => /\ Source(s) \in StreamIds /\ Source(s)[1] = s[1]
                             /\ Len(Source(s)[2]) = Len(s[2]) - 1 /\ Source(s)[2][1] = s[2][1]
<1>1. s = <<s[1], s[2]>> /\ s[1] \in Paths /\ s[2] \in Seq(Nat) /\ Len(s[2]) \in {1, 2, 3}
  BY DEF StreamIds
<1>2. ASSUME ~IsFirst(s)
      PROVE  /\ Source(s) \in StreamIds /\ Source(s)[1] = s[1]
             /\ Len(Source(s)[2]) = Len(s[2]) - 1 /\ Source(s)[2][1] = s[2][1]
  <2> DEFINE t == s[2]
             f == SubSeq(t, 1, Len(t) - 1)
  <2>1. t \in Seq(Nat) /\ Len(t) \in {2, 3}
    BY <1>1, <1>2 DEF IsFirst
  <2>2. Source(s) = <<s[1], f>>
    BY DEF Source, Front
  <2> HIDE DEF t
  <2>3. f \in Seq(Nat) /\ Len(f) = Len(t) - 1 /\ f[1] = t[1]
    BY <2>1, FrontFacts
  <2> HIDE DEF f
  <2>4. Source(s)[1] = s[1] /\ Source(s)[2] = f
    BY <2>2
  <2>5. Source(s) \in StreamIds
    <3>1. Len(f) \in {1, 2, 3}
      BY <2>1, <2>3
    <3>2. <<s[1], f>> \in StreamIds
      BY <1>1, <2>3, <3>1, PairFacts
    <3> QED
      BY <2>2, <3>2, Zenon
  <2> QED
    BY <2>3, <2>4, <2>5 DEF t
<1> QED
  BY <1>1, <1>2 DEF IsFirst

\* Every stream goes to a node of the route; those with a next hop stop before the destination.
LEMMA HopFacts ==
    ASSUME NEW s \in StreamIds, NEW r \in Routes
    PROVE  /\ HopOf(s, r) \in Nodes
           /\ Len(s[2]) = 3 => HopOf(s, r) = r.path[1]
           /\ NextHop(PacketOf(s, r)) # NoNode => Len(s[2]) < 3 /\ NextHop(PacketOf(s, r)) \in Nodes
           /\ NextHop(PacketOf(s, r)) = NoNode => Len(s[2]) = 3
           /\ Len(s[2]) < 3 => NextHop(PacketOf(s, r)) \in Nodes
<1>1. Len(s[2]) = 1 \/ Len(s[2]) = 2 \/ Len(s[2]) = 3
  BY IdFacts
<1>2. CASE Len(s[2]) = 1
  <2>1. HopOf(s, r) = r.path[3]
    BY <1>2 DEF HopOf
  <2> QED
    BY <1>2, <2>1, PacketFacts, RouteFacts
<1>3. CASE Len(s[2]) = 2
  <2>1. HopOf(s, r) = r.path[2]
    BY <1>3 DEF HopOf
  <2> QED
    BY <1>3, <2>1, PacketFacts, RouteFacts
<1>4. CASE Len(s[2]) = 3
  <2>1. HopOf(s, r) = r.path[1]
    BY <1>4 DEF HopOf
  <2> QED
    BY <1>4, <2>1, PacketFacts, RouteFacts
<1> QED
  BY <1>1, <1>2, <1>3, <1>4

LEMMA AppendFacts ==
    ASSUME NEW k \in Paths, NEW q \in Seq(Nat), Len(q) \in {1, 2}, NEW i \in Nat
    PROVE  /\ <<k, Append(q, i)>> \in StreamIds /\ ~IsFirst(<<k, Append(q, i)>>)
           /\ Source(<<k, Append(q, i)>>) = <<k, q>>
           /\ <<k, Append(q, i)>>[1] = k /\ Len(<<k, Append(q, i)>>[2]) = Len(q) + 1
           /\ <<k, Append(q, i)>>[2][1] = q[1]
<1> DEFINE a == Append(q, i)
           t == <<k, a>>
           f == SubSeq(a, 1, Len(a) - 1)
<1>1. a \in Seq(Nat) /\ Len(a) = Len(q) + 1 /\ Len(q) \in Nat
  OBVIOUS
<1>2. \A j \in 1 .. Len(q) : a[j] = q[j]
  OBVIOUS
<1> HIDE DEF a
<1>3. Len(a) \in {2, 3} /\ Len(a) - 1 = Len(q)
  <2> DEFINE lq == Len(q)
             la == Len(a)
  <2>1. lq \in {1, 2} /\ la = lq + 1
    BY <1>1
  <2> HIDE DEF t, f, lq, la
  <2>2. la \in {2, 3} /\ la - 1 = lq
    BY <2>1
  <2> QED
    BY <2>2 DEF lq, la
<1>4. f \in Seq(Nat) /\ Len(f) = Len(a) - 1 /\ \A j \in 1 .. Len(a) - 1 : f[j] = a[j]
  BY <1>1, <1>3, FrontFacts
<1>5. f = q
  <2> HIDE DEF f
  <2>1. Len(f) = Len(q) /\ \A j \in 1 .. Len(f) : f[j] = q[j]
    BY <1>1, <1>2, <1>3, <1>4
  <2> QED
    BY <1>4, <2>1, SeqEqual
<1>6. t \in StreamIds /\ t[1] = k /\ t[2] = a /\ ~IsFirst(t)
  <2>1. a \in Seq(Nat) /\ Len(a) \in {1, 2, 3} /\ Len(a) # 1
    BY <1>1, <1>3
  <2> HIDE DEF f
  <2> QED
    BY <2>1, PairFacts
<1> HIDE DEF t
<1>7. Source(t) = <<k, q>>
  BY <1>5, <1>6 DEF Source, Front
<1>8. a[1] = q[1]
  BY <1>2
<1>9. /\ t \in StreamIds /\ ~IsFirst(t) /\ Source(t) = <<k, q>>
      /\ t[1] = k /\ Len(t[2]) = Len(q) + 1 /\ t[2][1] = q[1]
  BY <1>1, <1>6, <1>7, <1>8
<1> QED
  BY <1>9 DEF t, a

LEMMA NextStreamFacts ==
    ASSUME AllMade, IsFiniteSet(DOMAIN stream), NEW q \in DOMAIN stream, Len(q[2]) < 3
    PROVE  /\ NextStream(q) \in StreamIds /\ ~IsFirst(NextStream(q)) /\ Source(NextStream(q)) = q
           /\ NextStream(q)[1] = q[1] /\ Len(NextStream(q)[2]) = Len(q[2]) + 1
           /\ NextStream(q)[2][1] = q[2][1]
<1> DEFINE i == Cardinality(Children(q)) + 1
<1>1. q \in StreamIds
  BY DEF AllMade, Made
<1>2. q = <<q[1], q[2]>> /\ q[1] \in Paths /\ q[2] \in Seq(Nat) /\ Len(q[2]) \in {1, 2}
  BY <1>1, IdFacts
<1>3. i \in Nat
  <2>1. Children(q) \in SUBSET DOMAIN stream
    BY DEF Children
  <2>2. IsFiniteSet(Children(q))
    BY <2>1, FS_Subset
  <2>3. Cardinality(Children(q)) \in Nat
    BY <2>2, FS_CardinalityType
  <2> QED
    BY <2>3
<1>4. NextStream(q) = <<q[1], Append(q[2], i)>>
  BY DEF NextStream
<1> HIDE DEF i
<1> DEFINE t == <<q[1], Append(q[2], i)>>
<1>5. /\ t \in StreamIds /\ ~IsFirst(t) /\ Source(t) = <<q[1], q[2]>>
      /\ t[1] = q[1] /\ Len(t[2]) = Len(q[2]) + 1 /\ t[2][1] = q[2][1]
  BY <1>2, <1>3, AppendFacts
<1>6. NextStream(q) = t
  BY <1>4
<1> HIDE DEF t
<1> QED
  BY <1>2, <1>5, <1>6

LEMMA FirstStreamFacts ==
    ASSUME IsFiniteSet(DOMAIN stream), NEW k \in Paths
    PROVE  /\ FirstStream(k) \in StreamIds /\ IsFirst(FirstStream(k)) /\ FirstStream(k)[1] = k
           /\ FirstStream(k) = <<k, <<FirstStream(k)[2][1]>>>>
<1> DEFINE i == Cardinality(FirstsOf(k)) + 1
<1>1. i \in Nat
  <2>1. FirstsOf(k) \in SUBSET DOMAIN stream
    BY DEF FirstsOf
  <2>2. IsFiniteSet(FirstsOf(k))
    BY <2>1, FS_Subset
  <2>3. Cardinality(FirstsOf(k)) \in Nat
    BY <2>2, FS_CardinalityType
  <2> QED
    BY <2>3
<1>2. FirstStream(k) = <<k, <<i>>>>
  BY DEF FirstStream
<1> HIDE DEF i
<1>3. <<i>> \in Seq(Nat) /\ Len(<<i>>) = 1
  BY <1>1
<1> QED
  BY <1>2, <1>3 DEF StreamIds, IsFirst
LEMMA MadeFacts ==
    ASSUME AllMade, NEW s \in DOMAIN stream
    PROVE  /\ s \in StreamIds /\ route[s[1]] \in Routes
           /\ stream[s] \in StreamType(s, route[s[1]])
           /\ stream[s].to = HopOf(s, route[s[1]]) /\ stream[s].packet = PacketOf(s, route[s[1]])
           /\ stream[s].back \in Backs /\ stream[s].stage \in Stages
           /\ ~IsFirst(s) => Source(s) \in DOMAIN stream
BY DEF AllMade, Made, StreamType

LEMMA NothingBack == Nothing \in Backs
BY DEF Nothing, Backs, Kinds

\* A stream with another stage, or another answer, is still of its type.
LEMMA Rewrites ==
    ASSUME NEW s, NEW r, NEW v \in StreamType(s, r), NEW stage \in Stages, NEW back \in Backs
    PROVE  /\ [v EXCEPT !.stage = stage] \in StreamType(s, r)
           /\ [v EXCEPT !.back = back] \in StreamType(s, r)
           /\ [v EXCEPT !.stage = stage, !.back = back] \in StreamType(s, r)
           /\ [v EXCEPT !.back = back, !.stage = stage] \in StreamType(s, r)
BY DEF StreamType

LEMMA StreamsRewritten ==
    ASSUME StreamsInv, route' = route, DOMAIN stream' = DOMAIN stream,
           \A s \in DOMAIN stream : stream'[s] \in StreamType(s, route[s[1]])
    PROVE  StreamsStep
<1>1. AllMade'
  <2> SUFFICES ASSUME NEW s \in DOMAIN stream'
               PROVE  Made(s)'
    BY DEF AllMade
  <2>1. s \in DOMAIN stream /\ Made(s)
    BY DEF StreamsInv, AllMade
  <2> QED
    BY <2>1 DEF Made, IsFirst, Source
<1> QED
  BY <1>1 DEF StreamsStep, StreamsInv

LEMMA OneRewritten ==
    ASSUME StreamsInv, route' = route, NEW s \in DOMAIN stream,
           NEW w \in StreamType(s, route[s[1]]), stream' = [stream EXCEPT ![s] = w]
    PROVE  StreamsStep
<1>1. DOMAIN stream' = DOMAIN stream
  OBVIOUS
<1>2. ASSUME NEW q \in DOMAIN stream PROVE stream'[q] \in StreamType(q, route[q[1]])
  <2>1. CASE q = s
    BY <2>1
  <2>2. CASE q # s
    BY <2>2, MadeFacts DEF StreamsInv
  <2> QED
    BY <2>1, <2>2
<1> QED
  BY <1>1, <1>2, StreamsRewritten

LEMMA StreamsSame ==
    ASSUME StreamsInv, UNCHANGED <<route, stream>>
    PROVE  StreamsStep
BY StreamsRewritten, MadeFacts DEF StreamsInv

\* The other way streams change: new ones are added to the old.
NewMade(s) ==
    /\ s \in StreamIds /\ route'[s[1]] \in Routes
    /\ stream'[s] \in StreamType(s, route'[s[1]])
    /\ ~IsFirst(s) => Source(s) \in DOMAIN stream

LEMMA StreamsAdded ==
    ASSUME StreamsInv, NEW N, IsFiniteSet(N), DOMAIN stream' = DOMAIN stream \cup N,
           \A s \in DOMAIN stream : stream'[s] = stream[s] /\ route'[s[1]] = route[s[1]],
           \A s \in N \ DOMAIN stream : NewMade(s)
    PROVE  StreamsStep
<1>1. AllMade'
  <2> SUFFICES ASSUME NEW s \in DOMAIN stream'
               PROVE  Made(s)'
    BY DEF AllMade
  <2>1. CASE s \in DOMAIN stream
    <3>1. Made(s)
      BY <2>1 DEF StreamsInv, AllMade
    <3> QED
      BY <2>1, <3>1 DEF Made, IsFirst, Source
  <2>2. CASE s \notin DOMAIN stream
    <3>1. NewMade(s)
      BY <2>2
    <3> QED
      BY <3>1 DEF NewMade, Made, IsFirst, Source
  <2> QED
    BY <2>1, <2>2
<1>2. IsFiniteSet(DOMAIN stream')
  <2>1. IsFiniteSet(DOMAIN stream)
    BY DEF StreamsInv
  <2>2. IsFiniteSet(DOMAIN stream \cup N)
    BY <2>1, FS_Union
  <2> QED
    BY <2>2
<1> QED
  BY <1>1, <1>2 DEF StreamsStep

\* The stream that a relay asks for.
LEMMA NextMade ==
    ASSUME StreamsInv, NEW n, NEW q, Waits(q, n), NEW c \in Conns
    PROVE  /\ NextStream(q) \in StreamIds /\ route[NextStream(q)[1]] \in Routes
           /\ ~IsFirst(NextStream(q)) /\ Source(NextStream(q)) = q
           /\ NewStream(NextHop(stream[q].packet), c, Peeled(stream[q].packet))
                \in StreamType(NextStream(q), route[NextStream(q)[1]])
<1> DEFINE t == NextStream(q)
           r == route[q[1]]
<1>1. q \in DOMAIN stream /\ Len(q[2]) < 3 /\ AllMade /\ IsFiniteSet(DOMAIN stream)
  BY DEF Waits, StreamsInv
<1>2. /\ t \in StreamIds /\ ~IsFirst(t) /\ Source(t) = q
      /\ t[1] = q[1] /\ Len(t[2]) = Len(q[2]) + 1 /\ t[2][1] = q[2][1]
  BY <1>1, NextStreamFacts
<1>3. r \in Routes /\ q \in StreamIds /\ stream[q].packet = PacketOf(q, r)
  BY <1>1, MadeFacts
<1> HIDE DEF t, r
<1>4. Peeled(PacketOf(q, r)) = PacketOf(t, r) /\ NextHop(PacketOf(q, r)) = HopOf(t, r)
  BY <1>1, <1>2, <1>3, PeeledFacts
<1>5. NewStream(HopOf(t, r), c, PacketOf(t, r)) \in StreamType(t, r)
  BY NothingBack DEF NewStream, StreamType, Stages
<1>6. NewStream(NextHop(stream[q].packet), c, Peeled(stream[q].packet)) \in StreamType(t, r)
  BY <1>3, <1>4, <1>5
<1>7. route[t[1]] = r
  BY <1>2 DEF r
<1> QED
  BY <1>2, <1>3, <1>6, <1>7 DEF t

\* The stream that a client asks for.
LEMMA FirstMade ==
    ASSUME StreamsInv, NEW k \in Paths, NEW r \in Routes, NEW c \in Conns
    PROVE  /\ FirstStream(k) \in StreamIds /\ IsFirst(FirstStream(k)) /\ FirstStream(k)[1] = k
           /\ NewStream(Entry(r), c, NewInitial(r, FirstStream(k))) \in StreamType(FirstStream(k), r)
<1> DEFINE s == FirstStream(k)
<1>1. s \in StreamIds /\ IsFirst(s) /\ s[1] = k /\ s = <<k, <<s[2][1]>>>>
  BY FirstStreamFacts DEF StreamsInv
<1> HIDE DEF s
<1>2. Len(s[2]) = 1
  BY <1>1 DEF IsFirst
<1>3. NewInitial(r, s) = PacketOf(s, r)
  <2>1. LayersFrom(r.path, Len(s[2])) = Layers(r.path)
    BY <1>2 DEF LayersFrom
  <2>2. <<s[1], <<s[2][1]>>>> = s
    BY <1>1
  <2> QED
    BY <2>1, <2>2, Zenon DEF NewInitial, PacketOf
<1>4. Entry(r) = HopOf(s, r)
  BY <1>2 DEF Entry, HopOf
<1>5. NewStream(HopOf(s, r), c, PacketOf(s, r)) \in StreamType(s, r)
  BY NothingBack DEF NewStream, StreamType, Stages
<1>6. NewStream(Entry(r), c, NewInitial(r, s)) \in StreamType(s, r)
  BY <1>3, <1>4, <1>5, Zenon
<1> QED
  BY <1>1, <1>6 DEF s
\* What relays and destinations keep after a step refers to streams there were before it.
RefsNext ==
    /\ \A n \in Nodes : \A q \in pending_connections'[n] : Waits(q, n)
    /\ \A n \in Nodes : \A ch \in router'[n] : Joins(ch)
    /\ \A n \in Nodes : \A e \in error_streams'[n] : Refuses(e)
    /\ \A n \in Nodes : \A q \in inbound'[n] : Ends(q, n)
    /\ DOMAIN error_streams' = Nodes /\ DOMAIN inbound' = Nodes

LEMMA KeptHops ==
    ASSUME StreamsInv, StreamsStep, NEW s \in DOMAIN stream
    PROVE  /\ s \in DOMAIN stream'
           /\ stream'[s].to = stream[s].to /\ stream'[s].packet = stream[s].packet
<1>1. s \in DOMAIN stream' /\ route'[s[1]] = route[s[1]] /\ Made(s)'
  BY DEF StreamsStep, AllMade
<1>2. stream'[s] \in StreamType(s, route[s[1]])
  BY <1>1 DEF Made
<1>3. stream[s] \in StreamType(s, route[s[1]])
  BY MadeFacts DEF StreamsInv
<1> QED
  BY <1>1, <1>2, <1>3 DEF StreamType

LEMMA RefsStep ==
    ASSUME StreamsInv, StreamsStep, RefsNext
    PROVE  AllWait' /\ AllJoin' /\ AllRefuse' /\ AllEnd'
<1>1. AllWait'
  <2> SUFFICES ASSUME NEW n \in Nodes, NEW q \in pending_connections'[n]
               PROVE  Waits(q, n)'
    BY DEF AllWait
  <2>1. Waits(q, n)
    BY DEF RefsNext
  <2> QED
    BY <2>1, KeptHops DEF Waits
<1>2. AllJoin'
  <2> SUFFICES ASSUME NEW n \in Nodes, NEW ch \in router'[n]
               PROVE  Joins(ch)'
    BY DEF AllJoin
  <2>1. Joins(ch)
    BY DEF RefsNext
  <2> QED
    BY <2>1, KeptHops DEF Joins, IsFirst, Source
<1>3. AllRefuse'
  <2> SUFFICES ASSUME NEW n \in Nodes, NEW e \in error_streams'[n]
               PROVE  Refuses(e)'
    BY DEF AllRefuse
  <2>1. Refuses(e)
    BY DEF RefsNext
  <2> QED
    BY <2>1, KeptHops DEF Refuses
<1>4. AllEnd'
  <2> SUFFICES ASSUME NEW n \in Nodes, NEW q \in inbound'[n]
               PROVE  Ends(q, n)'
    BY DEF AllEnd
  <2>1. Ends(q, n)
    BY DEF RefsNext
  <2> QED
    BY <2>1, KeptHops DEF Ends
<1> QED
  BY <1>1, <1>2, <1>3, <1>4

LEMMA RefsSame ==
    ASSUME StreamsInv, UNCHANGED relay
    PROVE  RefsNext
BY DEF StreamsInv, RefsNext, relay, AllWait, AllJoin, AllRefuse, AllEnd

LEMMA StreamsPreserved ==
    ASSUME StreamsInv, StreamsStep, RefsNext, arriving' \subseteq DOMAIN stream,
           upgrading' \subseteq {s \in DOMAIN stream' : IsFirst(s)},
           peer_to_connection' \in [Nodes -> [Nodes -> Conns \cup {NoConn, DeadConn}]]
    PROVE  StreamsInv'
<1>1. AllWait' /\ AllJoin' /\ AllRefuse' /\ AllEnd'
  BY RefsStep
<1>2. arriving' \subseteq DOMAIN stream' /\ AllMade' /\ IsFiniteSet(DOMAIN stream')
  BY DEF StreamsStep
<1>3. upgrading' \subseteq {s \in DOMAIN stream' : IsFirst(s)'}
  BY DEF IsFirst
<1> QED
  BY <1>1, <1>2, <1>3 DEF StreamsInv, RefsNext

\* The usual case: no new stream is upgraded, and connections stay.
LEMMA StreamsQuiet ==
    ASSUME StreamsInv, StreamsStep, RefsNext, arriving' \subseteq DOMAIN stream,
           upgrading' \subseteq upgrading, peer_to_connection' = peer_to_connection
    PROVE  StreamsInv'
<1>1. upgrading' \subseteq {s \in DOMAIN stream' : IsFirst(s)}
  BY DEF StreamsInv, StreamsStep
<1> QED
  BY <1>1, StreamsPreserved DEF StreamsInv

LEMMA StreamsInit == Init => StreamsInv
<1> SUFFICES ASSUME Init
             PROVE  StreamsInv
  OBVIOUS
<1>1. DOMAIN stream = {}
  BY DEF Init
<1>2. IsFiniteSet(DOMAIN stream)
  BY <1>1, FS_EmptySet
<1>3. AllMade /\ arriving \subseteq DOMAIN stream /\ upgrading \subseteq {s \in DOMAIN stream : IsFirst(s)}
  BY <1>1 DEF Init, AllMade
<1>4. peer_to_connection \in [Nodes -> [Nodes -> Conns \cup {NoConn, DeadConn}]]
      /\ DOMAIN error_streams = Nodes /\ DOMAIN inbound = Nodes
  BY DEF Init
<1>5. AllWait /\ AllJoin /\ AllRefuse /\ AllEnd
  BY DEF Init, AllWait, AllJoin, AllRefuse, AllEnd
<1> QED
  BY <1>2, <1>3, <1>4, <1>5 DEF StreamsInv

LEMMA FiniteAdded ==
    ASSUME ToldInv, SlotsInv, NEW n \in Nodes, NEW m \in Nodes
    PROVE  IsFiniteSet(Added(n, m))
<1> DEFINE P == {q \in pending_connections[n] : NextHop(stream[q].packet) = m}
           R == {k \in pending_requests : route[k].client = n /\ Entry(route[k]) = m}
           f == [q \in P |-> NextStream(q)]
           g == [k \in R |-> FirstStream(k)]
<1>1. IsFiniteSet(P)
  <2>1. P \in SUBSET pending_connections[n]
    OBVIOUS
  <2>2. IsFiniteSet(pending_connections[n])
    BY DEF SlotsInv, WithinLimit
  <2> HIDE DEF P
  <2> QED
    BY <2>1, <2>2, FS_Subset
<1>2. IsFiniteSet(R)
  <2>1. R \in SUBSET (1 .. MaxPaths)
    BY DEF ToldInv, Paths
  <2>2. IsFiniteSet(1 .. MaxPaths)
    BY OnionAssumption, FS_Interval
  <2> HIDE DEF R
  <2> QED
    BY <2>1, <2>2, FS_Subset
<1>3. RelayedWaiting(n, m) = {f[q] : q \in P} /\ RequestsWaiting(n, m) = {g[k] : k \in R}
  BY DEF RelayedWaiting, RequestsWaiting
<1>4. f \in Surjection(P, {f[q] : q \in P}) /\ g \in Surjection(R, {g[k] : k \in R})
  <2>1. f \in [P -> {f[q] : q \in P}] /\ g \in [R -> {g[k] : k \in R}]
    OBVIOUS
  <2> HIDE DEF f, g, P, R
  <2> QED
    BY <2>1 DEF Surjection
<1> HIDE DEF f, g, P, R
<1>5. IsFiniteSet({f[q] : q \in P}) /\ IsFiniteSet({g[k] : k \in R})
  BY <1>1, <1>2, <1>4, FS_Surjection
<1>6. IsFiniteSet(RelayedWaiting(n, m) \cup RequestsWaiting(n, m))
  BY <1>3, <1>5, FS_Union
<1>7. IsFiniteSet({})
  BY FS_EmptySet
<1> QED
  BY <1>6, <1>7 DEF Added, Waiting

\* What a new connection is asked for is made for the node at its other end.
LEMMA AddedMade ==
    ASSUME ToldInv, StreamsInv, NEW n \in Nodes, NEW m \in Nodes, NEW c \in Conns,
           NEW s \in Added(n, m)
    PROVE  /\ s \in StreamIds /\ route[s[1]] \in Routes
           /\ Asked(s, m, c) \in StreamType(s, route[s[1]])
           /\ ~IsFirst(s) => Source(s) \in DOMAIN stream
<1>1. s \in RelayedWaiting(n, m) \/ s \in RequestsWaiting(n, m)
  BY DEF Added, Waiting
<1>2. CASE s \in RelayedWaiting(n, m)
  <2>1. PICK q \in pending_connections[n] : NextHop(stream[q].packet) = m /\ s = NextStream(q)
    BY <1>2 DEF RelayedWaiting
  <2>2. Waits(q, n)
    BY DEF StreamsInv, AllWait
  <2>3. /\ s \in StreamIds /\ route[s[1]] \in Routes /\ ~IsFirst(s) /\ Source(s) = q
        /\ NewStream(m, c, Peeled(stream[q].packet)) \in StreamType(s, route[s[1]])
    BY <2>1, <2>2, NextMade
  <2>4. Asked(s, m, c) = NewStream(m, c, Peeled(stream[q].packet))
    BY <2>3 DEF Asked
  <2> QED
    BY <2>2, <2>3, <2>4 DEF Waits
<1>3. CASE s \in RequestsWaiting(n, m)
  <2>1. PICK k \in pending_requests :
            route[k].client = n /\ Entry(route[k]) = m /\ s = FirstStream(k)
    BY <1>3 DEF RequestsWaiting
  <2>2. k \in Paths /\ route[k] \in Routes
    BY DEF ToldInv
  <2>3. /\ s \in StreamIds /\ IsFirst(s) /\ s[1] = k
        /\ NewStream(m, c, NewInitial(route[k], s)) \in StreamType(s, route[k])
    BY <2>1, <2>2, FirstMade
  <2>4. Asked(s, m, c) = NewStream(m, c, NewInitial(route[k], s))
    BY <2>3 DEF Asked
  <2> QED
    BY <2>2, <2>3, <2>4
<1> QED
  BY <1>1, <1>2, <1>3
LEMMA StreamsEstablish ==
    ASSUME ToldInv, SlotsInv, StreamsInv, NEW n \in Nodes, NEW m \in Nodes, NEW c \in Conns,
           Establish(n, m, c)
    PROVE  StreamsInv' /\ StreamsStep
<1> DEFINE N == Added(n, m) \cup Added(m, n)
<1>1. IsFiniteSet(N)
  BY FiniteAdded, FS_Union
<1>2. /\ DOMAIN stream' = DOMAIN stream \cup N
      /\ \A s \in DOMAIN stream : stream'[s] = stream[s]
      /\ \A s \in N \ DOMAIN stream :
            stream'[s] = IF s \in Added(n, m) THEN Asked(s, m, c) ELSE Asked(s, n, c)
  BY DEF Establish
<1>3. /\ route' = route /\ UNCHANGED relay /\ arriving' = arriving
      /\ upgrading' = upgrading \cup {s \in DOMAIN stream' \ DOMAIN stream : IsFirst(s)}
      /\ peer_to_connection' = [peer_to_connection EXCEPT ![n][m] = Kept(n, m, c),
                                                          ![m][n] = Kept(m, n, c)]
  BY DEF Establish
<1>4. ASSUME NEW s \in N \ DOMAIN stream PROVE NewMade(s)
  <2>1. CASE s \in Added(n, m)
    BY <1>2, <1>3, <2>1, AddedMade DEF NewMade
  <2>2. CASE s \notin Added(n, m)
    BY <1>2, <1>3, <2>2, AddedMade DEF NewMade
  <2> QED
    BY <2>1, <2>2
<1> HIDE DEF N
<1>5. StreamsStep
  BY <1>1, <1>2, <1>3, <1>4, StreamsAdded
<1>6. upgrading' \subseteq {s \in DOMAIN stream' : IsFirst(s)}
  BY <1>2, <1>3 DEF StreamsInv
<1>7. peer_to_connection' \in [Nodes -> [Nodes -> Conns \cup {NoConn, DeadConn}]]
  <2>1. {Kept(n, m, c), Kept(m, n, c)} \subseteq Conns \cup {NoConn, DeadConn}
    BY DEF Kept, StreamsInv
  <2> QED
    BY <1>3, <2>1 DEF StreamsInv
<1>8. RefsNext
  BY <1>3, RefsSame
<1> QED
  BY <1>3, <1>5, <1>6, <1>7, <1>8, StreamsPreserved DEF StreamsInv

LEMMA StreamsClosed ==
    ASSUME StreamsInv, NEW n \in Nodes, NEW m \in Nodes, NEW c \in Conns, ConnectionClosed(n, m, c)
    PROVE  StreamsInv' /\ StreamsStep
<1> DEFINE gone == {s \in DOMAIN stream : stream[s].conn = c /\ {Opener(s), stream[s].to} = {n, m}}
<1>1. /\ route' = route /\ UNCHANGED relay /\ arriving' \subseteq arriving /\ upgrading' \subseteq upgrading
      /\ DOMAIN stream' = DOMAIN stream
      /\ \A s \in DOMAIN stream : stream'[s] =
            IF s \in gone THEN [stream[s] EXCEPT !.stage = "lost", !.back = Nothing] ELSE stream[s]
      /\ peer_to_connection' = [peer_to_connection EXCEPT ![n][m] = NoConn, ![m][n] = NoConn]
  BY DEF ConnectionClosed
<1> HIDE DEF gone
<1>2. ASSUME NEW s \in DOMAIN stream PROVE stream'[s] \in StreamType(s, route[s[1]])
  <2>1. stream[s] \in StreamType(s, route[s[1]])
    BY MadeFacts DEF StreamsInv
  <2>2. [stream[s] EXCEPT !.stage = "lost", !.back = Nothing] \in StreamType(s, route[s[1]])
    BY <2>1, NothingBack, Rewrites DEF Stages
  <2> QED
    BY <1>1, <2>1, <2>2
<1>3. StreamsStep
  BY <1>1, <1>2, StreamsRewritten
<1>4. peer_to_connection' \in [Nodes -> [Nodes -> Conns \cup {NoConn, DeadConn}]]
  BY <1>1 DEF StreamsInv
<1>5. upgrading' \subseteq {s \in DOMAIN stream' : IsFirst(s)}
  BY <1>1 DEF StreamsInv
<1>6. RefsNext
  BY <1>1, RefsSame
<1>7. arriving' \subseteq DOMAIN stream
  BY <1>1 DEF StreamsInv
<1> QED
  BY <1>3, <1>4, <1>5, <1>6, <1>7, StreamsPreserved

LEMMA StreamsDenied ==
    ASSUME StreamsInv, NEW n \in Nodes, NEW m \in Nodes,
           Denied(n, m) \/ OtherDials(n, m) \/ OtherDialFails(n, m)
    PROVE  StreamsInv' /\ StreamsStep
<1>1. UNCHANGED <<route, stream, upgrading, arriving>> /\ UNCHANGED relay
  BY DEF Denied, OtherDials, OtherDialFails, client
<1>2. peer_to_connection' \in [Nodes -> [Nodes -> Conns \cup {NoConn, DeadConn}]]
  <2>1. CASE Denied(n, m)
    BY <2>1 DEF Denied, StreamsInv
  <2>2. CASE OtherDials(n, m) \/ OtherDialFails(n, m)
    BY <2>2 DEF OtherDials, OtherDialFails, StreamsInv
  <2> QED
    BY <2>1, <2>2
<1>3. StreamsStep /\ RefsNext
  BY <1>1, StreamsSame, RefsSame
<1> QED
  BY <1>1, <1>2, <1>3, StreamsPreserved DEF StreamsInv

\* A stream is there once its connection heard of it.
LEMMA HeardFacts ==
    ASSUME NEW s, NEW to, NEW c, NEW packet, stream' = Heard(s, NewStream(to, c, packet))
    PROVE  \/ c = DeadConn /\ stream' = stream
           \/ c # DeadConn /\ stream' = WithStream(s, NewStream(to, c, packet))
<1>1. NewStream(to, c, packet).conn = c
  BY DEF NewStream
<1> QED
  BY <1>1 DEF Heard

LEMMA StreamsOpenPath ==
    ASSUME StreamsInv, ToldInv, NEW k \in Paths, NEW r \in Routes, OpenPath(k, r)
    PROVE  StreamsInv' /\ StreamsStep
<1> DEFINE s == FirstStream(k)
           c == peer_to_connection[r.client][Entry(r)]
           new == NewStream(Entry(r), c, NewInitial(r, s))
<1>1. /\ route[k] = NoRoute /\ route' = [route EXCEPT ![k] = r]
      /\ UNCHANGED relay /\ arriving' = arriving /\ peer_to_connection' = peer_to_connection
      /\ upgrading' \subseteq upgrading \cup ({s} \cap DOMAIN stream')
      /\ \/ stream' = stream
         \/ c \notin {NoConn, DeadConn} /\ stream' = WithStream(s, new)
  BY HeardFacts DEF OpenPath
<1>2. \A q \in DOMAIN stream : route'[q[1]] = route[q[1]]
  <2> SUFFICES ASSUME NEW q \in DOMAIN stream
               PROVE  route'[q[1]] = route[q[1]]
    OBVIOUS
  <2>1. q \in StreamIds /\ route[q[1]] \in Routes
    BY MadeFacts DEF StreamsInv
  <2>2. q[1] \in Paths /\ q[1] # k
    BY <1>1, <2>1, RouteFacts, IdFacts
  <2> QED
    BY <1>1, <2>2 DEF ToldInv
<1>3. route'[k] = r
  BY <1>1 DEF ToldInv
<1>4. CASE stream' = stream
  <2>1. IsFiniteSet({}) /\ DOMAIN stream' = DOMAIN stream \cup {}
    BY <1>4, FS_EmptySet
  <2>2. StreamsStep
    BY <1>2, <1>4, <2>1, StreamsAdded
  <2>3. RefsNext
    BY <1>1, RefsSame
  <2>4. IsFirst(s)
    BY FirstStreamFacts DEF StreamsInv
  <2> HIDE DEF s, c, new
  <2>5. upgrading' \subseteq {q \in DOMAIN stream' : IsFirst(q)}
    BY <1>1, <1>4, <2>4 DEF StreamsInv
  <2> QED
    BY <1>1, <1>4, <2>2, <2>3, <2>5, StreamsPreserved DEF StreamsInv
<1>5. CASE c \notin {NoConn, DeadConn} /\ stream' = WithStream(s, new)
  <2>1. c \in Conns
    <3>1. r.client \in Nodes /\ Entry(r) \in Nodes
      BY RouteFacts DEF Entry
    <3> QED
      BY <1>5, <3>1 DEF StreamsInv
  <2>2. s \in StreamIds /\ IsFirst(s) /\ s[1] = k /\ new \in StreamType(s, r)
    BY <2>1, FirstMade
  <2> HIDE DEF s, c, new
  <2>3. /\ DOMAIN stream' = DOMAIN stream \cup {s}
        /\ \A q \in DOMAIN stream : stream'[q] = stream[q]
        /\ s \notin DOMAIN stream => stream'[s] = new
    BY <1>5 DEF WithStream
  <2>4. ASSUME NEW q \in {s} \ DOMAIN stream PROVE NewMade(q)
    BY <1>3, <2>2, <2>3 DEF NewMade
  <2>5. IsFiniteSet({s})
    BY FS_Singleton
  <2>6. StreamsStep
    BY <1>2, <2>3, <2>4, <2>5, StreamsAdded
  <2>7. upgrading' \subseteq {q \in DOMAIN stream' : IsFirst(q)}
    BY <1>1, <2>2, <2>3 DEF StreamsInv
  <2>8. RefsNext
    BY <1>1, RefsSame
  <2> QED
    BY <1>1, <2>6, <2>7, <2>8, StreamsPreserved DEF StreamsInv
<1> QED
  BY <1>1, <1>4, <1>5

LEMMA StreamsDialFails ==
    ASSUME StreamsInv, SlotsInv, NEW n \in Nodes, NEW m \in Nodes, DialFails(n, m)
    PROVE  StreamsInv' /\ StreamsStep
<1> DEFINE given_up == {q \in pending_connections[n] : NextHop(stream[q].packet) = m}
           written == {[stream |-> q, kind |-> "missing"] : q \in given_up}
<1>1. /\ UNCHANGED <<peer_to_connection, route, upgrading, router, inbound, stream, arriving>>
      /\ pending_connections' = [pending_connections EXCEPT ![n] = @ \ given_up]
      /\ error_streams' = [error_streams EXCEPT ![n] = @ \cup written]
  BY DEF DialFails
<1>2. ASSUME NEW e \in written PROVE Refuses(e)
  <2>1. PICK q \in given_up : e = [stream |-> q, kind |-> "missing"]
    OBVIOUS
  <2>2. Waits(q, n)
    BY DEF StreamsInv, AllWait
  <2> QED
    BY <2>1, <2>2 DEF Waits, Refuses
<1> HIDE DEF given_up, written
<1>3. RefsNext
  <2>1. \A x \in Nodes : pending_connections'[x] \subseteq pending_connections[x]
    BY <1>1 DEF SlotsInv
  <2>2. \A x \in Nodes : error_streams'[x] \subseteq error_streams[x] \cup written
    BY <1>1 DEF StreamsInv
  <2>3. DOMAIN error_streams' = Nodes
    BY <1>1 DEF StreamsInv
  <2> QED
    BY <1>1, <1>2, <2>1, <2>2, <2>3 DEF RefsNext, StreamsInv, AllWait, AllJoin, AllRefuse, AllEnd
<1>4. StreamsStep
  BY <1>1, StreamsSame
<1> QED
  BY <1>1, <1>3, <1>4, StreamsQuiet DEF StreamsInv
\* A stream changes its stage only.
LEMMA StageWritten ==
    ASSUME StreamsInv, NEW s \in DOMAIN stream, NEW stage \in Stages, route' = route,
           stream' = [stream EXCEPT ![s].stage = stage]
    PROVE  StreamsStep
<1> DEFINE w == [stream[s] EXCEPT !.stage = stage]
<1>1. stream[s] \in StreamType(s, route[s[1]])
  BY MadeFacts DEF StreamsInv
<1>2. w \in StreamType(s, route[s[1]])
  BY <1>1, NothingBack, Rewrites
<1>3. stream' = [stream EXCEPT ![s] = w]
  OBVIOUS
<1> HIDE DEF w
<1> QED
  BY <1>2, <1>3, OneRewritten

LEMMA StreamsConclude ==
    ASSUME StreamsInv, NEW s \in DOMAIN stream, NEW result, Conclude(s, result),
           UNCHANGED <<route, relay, arriving, peer_to_connection>>
    PROVE  StreamsInv' /\ StreamsStep
<1> DEFINE stage == IF s[1] \in pending_requests /\ result = "ok" THEN stream[s].stage ELSE "closed"
           w == [stream[s] EXCEPT !.back = Nothing, !.stage = stage]
<1>1. stream[s] \in StreamType(s, route[s[1]]) /\ stream[s].stage \in Stages
  BY MadeFacts DEF StreamsInv
<1>2. stage \in Stages
  BY <1>1 DEF Stages
<1>3. stream' = [stream EXCEPT ![s] = w]
  <2>1. stream' = [stream EXCEPT ![s].back = Nothing,
                     ![s].stage = IF s[1] \in pending_requests /\ result = "ok" THEN @ ELSE "closed"]
    BY DEF Conclude
  <2>2. [stream[s] EXCEPT !.back = Nothing].stage = stream[s].stage
    BY <1>1 DEF StreamType
  <2> QED
    BY <2>1, <2>2
<1> HIDE DEF stage
<1>4. w \in StreamType(s, route[s[1]])
  BY <1>1, <1>2, NothingBack, Rewrites
<1> HIDE DEF w
<1>5. StreamsStep
  BY <1>3, <1>4, OneRewritten
<1>6. RefsNext
  BY RefsSame
<1>7. upgrading' \subseteq upgrading
  BY DEF Conclude
<1> QED
  BY <1>5, <1>6, <1>7, StreamsQuiet DEF StreamsInv

LEMMA StreamsClient ==
    ASSUME StreamsInv, NEW s \in DOMAIN stream, WriteRequest(s) \/ ReadAnswer(s) \/ UpgradeFails(s)
    PROVE  StreamsInv' /\ StreamsStep
<1>1. CASE WriteRequest(s)
  <2>1. /\ stream' = [stream EXCEPT ![s].stage = "open"] /\ arriving' = arriving \cup {s}
        /\ route' = route /\ UNCHANGED relay /\ upgrading' = upgrading
        /\ peer_to_connection' = peer_to_connection
    BY <1>1 DEF WriteRequest, conn, client
  <2>2. StreamsStep
    BY <2>1, StageWritten DEF Stages
  <2>3. RefsNext
    BY <2>1, RefsSame
  <2>4. arriving' \subseteq DOMAIN stream
    BY <2>1 DEF StreamsInv
  <2> QED
    BY <2>1, <2>2, <2>3, <2>4, StreamsQuiet
<1>2. CASE ReadAnswer(s)
  <2>1. UNCHANGED <<route, relay, arriving, peer_to_connection>>
    BY <1>2 DEF ReadAnswer, conn
  <2>2. \E result : Conclude(s, result)
    BY <1>2 DEF ReadAnswer
  <2> QED
    BY <2>1, <2>2, StreamsConclude
<1>3. CASE UpgradeFails(s)
  <2>1. UNCHANGED <<route, relay, arriving, peer_to_connection>>
    BY <1>3 DEF UpgradeFails, conn
  <2>2. Conclude(s, "failed")
    BY <1>3 DEF UpgradeFails
  <2> QED
    BY <2>1, <2>2, StreamsConclude
<1> QED
  BY <1>1, <1>2, <1>3

LEMMA IdleJoins ==
    ASSUME AllJoin, SlotsInv, NEW n \in Nodes, router' = [router EXCEPT ![n] = NoticeIdle(@)]
    PROVE  \A x \in Nodes : \A ch \in router'[x] : Joins(ch)
<1> SUFFICES ASSUME NEW x \in Nodes, NEW ch \in router'[x]
             PROVE  Joins(ch)
  OBVIOUS
<1>1. CASE x # n
  <2>1. ch \in router[x]
    BY <1>1 DEF SlotsInv
  <2> QED
    BY <2>1 DEF AllJoin
<1>2. CASE x = n
  <2>1. ch \in NoticeIdle(router[n])
    BY <1>2 DEF SlotsInv
  <2>2. PICK old \in router[n] :
            ch = IF old.state = "idle" THEN [old EXCEPT !.state = "invalid"] ELSE old
    BY <2>1 DEF NoticeIdle
  <2>3. Joins(old) /\ IsChannel(old)
    BY DEF AllJoin, SlotsInv, WithinLimit, AllChannels
  <2>4. [old EXCEPT !.state = "invalid"].to = old.to /\ [old EXCEPT !.state = "invalid"].from = old.from
    BY <2>3, WithState
  <2>5. ch.to = old.to /\ ch.from = old.from
    BY <2>2, <2>4
  <2> QED
    BY <2>3, <2>5 DEF Joins
<1> QED
  BY <1>1, <1>2

LEMMA StreamsRelay ==
    ASSUME StreamsInv, SlotsInv, NEW s \in DOMAIN stream, Relay(s)
    PROVE  StreamsInv' /\ StreamsStep
<1> DEFINE n  == stream[s].to
           to == NextHop(stream[s].packet)
           c  == peer_to_connection[n][to]
           r  == route[s[1]]
           new == NewStream(to, c, Peeled(stream[s].packet))
<1>1. /\ NextHop(stream[s].packet) # NoNode /\ arriving' = arriving \ {s}
      /\ route' = route /\ upgrading' = upgrading /\ peer_to_connection' = peer_to_connection
      /\ IF CanPeel(n, stream[s].packet) THEN PushIncomingStream(n, s)
         ELSE stream' = [stream EXCEPT ![s].stage = "closed"] /\ UNCHANGED relay
  BY DEF Relay, client
<1>2. s \in StreamIds /\ r \in Routes /\ n = HopOf(s, r) /\ stream[s].packet = PacketOf(s, r)
  BY MadeFacts DEF StreamsInv
<1>3. Len(s[2]) < 3 /\ to \in Nodes
  BY <1>1, <1>2, HopFacts
<1>4. n \in Nodes
  BY <1>2, HopFacts
<1>5. Waits(s, n)
  BY <1>3 DEF Waits
<1>6. arriving' \subseteq DOMAIN stream
  BY <1>1 DEF StreamsInv
<1>7. StreamsStep /\ RefsNext => StreamsInv'
  BY <1>1, <1>6, StreamsQuiet
<1>8. CASE ~CanPeel(n, stream[s].packet)
  BY <1>1, <1>7, <1>8, StageWritten, RefsSame DEF Stages
<1>9. CASE CanPeel(n, stream[s].packet)
  <2>1. PushIncomingStream(n, s)
    BY <1>1, <1>9
  <2>2. router' = [router EXCEPT ![n] = NoticeIdle(@)] /\ inbound' = inbound
    BY <2>1 DEF PushIncomingStream
  <2>3. \A x \in Nodes : \A ch \in router'[x] : Joins(ch)
    BY <1>4, <2>2, IdleJoins DEF StreamsInv
  <2>4. CASE /\ stream' = [stream EXCEPT ![s].stage = "closed"]
             /\ UNCHANGED <<pending_connections, error_streams>>
    <3>1. StreamsStep
      BY <1>1, <2>4, StageWritten DEF Stages
    <3>2. RefsNext
      BY <2>2, <2>3, <2>4 DEF RefsNext, StreamsInv, AllWait, AllRefuse, AllEnd
    <3> QED
      BY <1>7, <3>1, <3>2
  <2>5. CASE /\ error_streams' = [error_streams EXCEPT ![n] = @ \cup {[stream |-> s, kind |-> "occupied"]}]
             /\ UNCHANGED <<pending_connections, stream>>
    <3>1. StreamsStep
      BY <1>1, <2>5, StreamsSame
    <3>2. Refuses([stream |-> s, kind |-> "occupied"])
      BY DEF Refuses
    <3>3. \A x \in Nodes : error_streams'[x] \subseteq
                               error_streams[x] \cup {[stream |-> s, kind |-> "occupied"]}
      BY <2>5 DEF StreamsInv
    <3>4. DOMAIN error_streams' = Nodes
      BY <2>5 DEF StreamsInv
    <3>5. RefsNext
      BY <2>2, <2>3, <2>5, <3>2, <3>3, <3>4 DEF RefsNext, StreamsInv, AllWait, AllRefuse, AllEnd
    <3> QED
      BY <1>7, <3>1, <3>5
  <2>6. CASE /\ pending_connections' = [pending_connections EXCEPT ![n] = @ \cup {s}]
             /\ \/ stream' = stream
                \/ c \notin {NoConn, DeadConn} /\ stream' = WithStream(NextStream(s), new)
             /\ error_streams' = error_streams
    <3>1. \A x \in Nodes : \A q \in pending_connections'[x] : Waits(q, x)
      <4>1. ASSUME NEW x \in Nodes, NEW q \in pending_connections'[x] PROVE Waits(q, x)
        <5>1. q \in pending_connections[x] \/ (x = n /\ q = s)
          BY <2>6 DEF SlotsInv
        <5> QED
          BY <1>5, <5>1 DEF StreamsInv, AllWait
      <4> QED
        BY <4>1
    <3>2. RefsNext
      BY <2>2, <2>3, <2>6, <3>1 DEF RefsNext, StreamsInv, AllRefuse, AllEnd
    <3>3. CASE stream' = stream
      BY <1>1, <1>7, <3>2, <3>3, StreamsSame
    <3>4. CASE c \notin {NoConn, DeadConn} /\ stream' = WithStream(NextStream(s), new)
      <4> DEFINE t == NextStream(s)
      <4>1. c \in Conns
        BY <1>3, <1>4, <3>4 DEF StreamsInv
      <4>2. /\ t \in StreamIds /\ route[t[1]] \in Routes /\ ~IsFirst(t) /\ Source(t) = s
            /\ new \in StreamType(t, route[t[1]])
        BY <1>5, <4>1, NextMade
      <4> HIDE DEF t, new
      <4>3. /\ DOMAIN stream' = DOMAIN stream \cup {t}
            /\ \A q \in DOMAIN stream : stream'[q] = stream[q]
            /\ t \notin DOMAIN stream => stream'[t] = new
        BY <3>4 DEF WithStream, t
      <4>4. ASSUME NEW q \in {t} \ DOMAIN stream PROVE NewMade(q)
        BY <1>1, <4>2, <4>3 DEF NewMade
      <4>5. IsFiniteSet({t})
        BY FS_Singleton
      <4>6. StreamsStep
        BY <1>1, <4>3, <4>4, <4>5, StreamsAdded
      <4> QED
        BY <1>7, <3>2, <4>6
    <3> QED
      BY <2>6, <3>3, <3>4
  <2>7. ASSUME c # NoConn, stream' = Heard(NextStream(s), new)
        PROVE  stream' = stream \/ (c \notin {NoConn, DeadConn} /\ stream' = WithStream(NextStream(s), new))
    BY <2>7, HeardFacts
  <2> QED
    BY <2>1, <2>4, <2>5, <2>6, <2>7 DEF PushIncomingStream
<1> QED
  BY <1>8, <1>9
LEMMA StreamsArrive ==
    ASSUME StreamsInv, NEW s \in DOMAIN stream, Arrive(s)
    PROVE  StreamsInv' /\ StreamsStep
<1> DEFINE n == stream[s].to
           r == route[s[1]]
           answer == [kind |-> "ok", secret |-> stream[s].packet.secret]
           w == [stream[s] EXCEPT !.back = answer]
<1>1. /\ NextHop(stream[s].packet) = NoNode /\ arriving' = arriving \ {s}
      /\ route' = route /\ upgrading' = upgrading /\ peer_to_connection' = peer_to_connection
      /\ UNCHANGED <<pending_connections, router, error_streams>>
      /\ inbound' = inbound \/ inbound' = [inbound EXCEPT ![n] = @ \cup {s}]
                            \/ inbound' = [inbound EXCEPT ![n] = @]
      /\ stream' = stream \/ stream' = [stream EXCEPT ![s].back = answer]
  BY DEF Arrive, client, conn
<1>2. /\ s \in StreamIds /\ r \in Routes /\ n = HopOf(s, r) /\ stream[s].packet = PacketOf(s, r)
      /\ stream[s] \in StreamType(s, r)
  BY MadeFacts DEF StreamsInv
<1>3. Ends(s, n) /\ n \in Nodes
  BY <1>1, <1>2, HopFacts DEF Ends
<1>4. answer \in Backs
  <2>1. stream[s].packet.secret = <<s[1], <<s[2][1]>>>>
    BY <1>2, PacketFacts
  <2>2. s[1] \in Paths /\ s[2] \in Seq(Nat) /\ Len(s[2]) \in {1, 2, 3}
    BY <1>2, IdFacts
  <2>3. s[2][1] \in Nat
    BY <2>2
  <2>4. <<s[1], <<s[2][1]>>>> \in Paths \X Seq(Nat)
    <3> DEFINE i == s[2][1]
    <3>1. i \in Nat
      BY <2>3
    <3> HIDE DEF i
    <3>2. <<i>> \in Seq(Nat)
      BY <3>1
    <3>3. <<s[1], <<i>>>> \in Paths \X Seq(Nat)
      BY <2>2, <3>2
    <3> QED
      BY <3>3 DEF i
  <2> QED
    BY <2>1, <2>4 DEF Backs, Kinds
<1>5. StreamsStep
  <2>1. CASE stream' = stream
    BY <1>1, <2>1, StreamsSame
  <2>2. CASE stream' = [stream EXCEPT ![s].back = answer]
    <3> HIDE DEF answer
    <3>1. w \in StreamType(s, route[s[1]])
      BY <1>2, <1>4, Rewrites DEF Stages
    <3>2. stream' = [stream EXCEPT ![s] = w]
      BY <2>2
    <3> HIDE DEF w
    <3> QED
      BY <1>1, <3>1, <3>2, OneRewritten
  <2> QED
    BY <1>1, <2>1, <2>2
<1>6. RefsNext
  <2>1. \A x \in Nodes : \A q \in inbound'[x] : q \in inbound[x] \/ (x = n /\ q = s)
    BY <1>1, <1>3 DEF StreamsInv
  <2>2. \A x \in Nodes : \A q \in inbound'[x] : Ends(q, x)
    BY <1>3, <2>1 DEF StreamsInv, AllEnd
  <2>3. DOMAIN inbound' = Nodes
    BY <1>1 DEF StreamsInv
  <2> QED
    BY <1>1, <2>2, <2>3 DEF RefsNext, StreamsInv, AllWait, AllJoin, AllRefuse
<1> QED
  BY <1>1, <1>5, <1>6, StreamsQuiet DEF StreamsInv

LEMMA StreamsNewChannel ==
    ASSUME StreamsInv, SlotsInv, NEW s \in DOMAIN stream, NewChannel(s) \/ RelayUpgradeFails(s)
    PROVE  StreamsInv' /\ StreamsStep
<1>1. /\ ~IsFirst(s) /\ route' = route /\ upgrading' = upgrading
      /\ peer_to_connection' = peer_to_connection /\ error_streams' = error_streams /\ inbound' = inbound
      /\ arriving' = arriving \cup {s} \/ arriving' = arriving
  BY DEF NewChannel, RelayUpgradeFails, conn, client, relay
<1>2. arriving' \subseteq DOMAIN stream
  BY <1>1 DEF StreamsInv
<1>3. CASE /\ stream' = [stream EXCEPT ![s].stage = "closed"]
           /\ UNCHANGED <<pending_connections, router>>
  <2>1. StreamsStep
    BY <1>1, <1>3, StageWritten DEF Stages
  <2>2. RefsNext
    BY <1>1, <1>3, RefsSame DEF relay
  <2> QED
    BY <1>1, <1>2, <2>1, <2>2, StreamsQuiet
<1>4. ASSUME NEW n, NEW q \in Partner(n, s),
             stream' = [stream EXCEPT ![s].stage = "open"],
             pending_connections' = [pending_connections EXCEPT ![n] = @ \ {q}],
             router' = [router EXCEPT ![n] = @ \cup {[from |-> q, to |-> s, state |-> "open"]}]
      PROVE  StreamsInv' /\ StreamsStep
  <2> DEFINE ch == [from |-> q, to |-> s, state |-> "open"]
  <2>1. StreamsStep
    BY <1>1, <1>4, StageWritten DEF Stages
  <2>2. Joins(ch)
    <3>1. q = Source(s)
      BY <1>4 DEF Partner
    <3> QED
      BY <1>1, <3>1 DEF Joins
  <2> HIDE DEF ch
  <2>3. router' = [router EXCEPT ![n] = @ \cup {ch}]
    BY <1>4 DEF ch
  <2>4. \A x \in Nodes : router'[x] \subseteq router[x] \cup {ch}
    BY <2>3 DEF SlotsInv
  <2>5. \A x \in Nodes : pending_connections'[x] \subseteq pending_connections[x]
    BY <1>4 DEF SlotsInv
  <2>6. RefsNext
    BY <1>1, <2>2, <2>4, <2>5 DEF RefsNext, StreamsInv, AllWait, AllJoin, AllRefuse, AllEnd
  <2> QED
    BY <1>1, <1>2, <2>1, <2>6, StreamsQuiet
<1>5. CASE NewChannel(s)
  BY <1>3, <1>4, <1>5 DEF NewChannel
<1>6. CASE RelayUpgradeFails(s)
  BY <1>3, <1>6 DEF RelayUpgradeFails, relay
<1> QED
  BY <1>5, <1>6

LEMMA StreamsWriteError ==
    ASSUME StreamsInv, NEW n \in Nodes, NEW e \in error_streams[n], WriteError(n, e)
    PROVE  StreamsInv' /\ StreamsStep
<1> DEFINE s == e.stream
           back == [stream[s].back EXCEPT !.kind = e.kind]
           w == [stream[s] EXCEPT !.stage = "closed", !.back = back]
<1>1. /\ UNCHANGED <<route, upgrading, peer_to_connection, pending_connections, router, inbound, arriving>>
      /\ error_streams' = [error_streams EXCEPT ![n] = @ \ {e}]
      /\ stream' = IF stream[s].stage = "open"
                     THEN [stream EXCEPT ![s].stage = "closed", ![s].back.kind = e.kind] ELSE stream
  BY DEF WriteError, conn, client
<1>2. s \in DOMAIN stream /\ e.kind \in {"missing", "occupied"}
  BY DEF StreamsInv, AllRefuse, Refuses
<1>3. stream[s] \in StreamType(s, route[s[1]]) /\ stream[s].back \in Backs
  BY <1>2, MadeFacts DEF StreamsInv
<1> HIDE DEF s
<1>4. back \in Backs
  BY <1>2, <1>3 DEF Backs, Kinds
<1>5. stream' = stream \/ stream' = [stream EXCEPT ![s] = w]
  <2>1. [stream[s] EXCEPT !.stage = "closed"].back = stream[s].back
    BY <1>3 DEF StreamType
  <2> QED
    BY <1>1, <2>1
<1> HIDE DEF back
<1>6. w \in StreamType(s, route[s[1]])
  BY <1>3, <1>4, Rewrites DEF Stages
<1> HIDE DEF w
<1>7. StreamsStep
  BY <1>1, <1>2, <1>5, <1>6, OneRewritten, StreamsSame
<1>8. RefsNext
  <2>1. \A x \in Nodes : error_streams'[x] \subseteq error_streams[x]
    BY <1>1 DEF StreamsInv
  <2>2. DOMAIN error_streams' = Nodes
    BY <1>1 DEF StreamsInv
  <2> QED
    BY <1>1, <2>1, <2>2 DEF RefsNext, StreamsInv, AllWait, AllJoin, AllRefuse, AllEnd
<1> QED
  BY <1>1, <1>7, <1>8, StreamsQuiet DEF StreamsInv

LEMMA StateJoins ==
    ASSUME AllJoin, SlotsInv, NEW n \in Nodes, NEW ch \in router[n],
           NEW state \in {"open", "idle", "invalid"}, router' = SetState(n, ch, state)
    PROVE  \A x \in Nodes : \A d \in router'[x] : Joins(d)
<1> DEFINE new == [ch EXCEPT !.state = state]
<1>1. Joins(ch) /\ IsChannel(ch)
  BY DEF AllJoin, SlotsInv, WithinLimit, AllChannels
<1>2. new.to = ch.to /\ new.from = ch.from
  BY <1>1, WithState
<1>3. router' = [router EXCEPT ![n] = (@ \ {ch}) \cup {new}]
  BY DEF SetState
<1> HIDE DEF new
<1>4. Joins(new)
  BY <1>1, <1>2 DEF Joins
<1>5. \A x \in Nodes : router'[x] \subseteq router[x] \cup {new}
  BY <1>3 DEF SlotsInv
<1> QED
  BY <1>4, <1>5 DEF AllJoin

LEMMA StreamsChannel ==
    ASSUME StreamsInv, SlotsInv, NEW n \in Nodes, NEW ch \in router[n],
           Forward(n, ch) \/ FallsIdle(n, ch) \/ ChannelEnds(n, ch)
    PROVE  StreamsInv' /\ StreamsStep
<1>1. UNCHANGED <<route, upgrading, peer_to_connection, pending_connections, error_streams, inbound, arriving>>
  BY DEF Forward, FallsIdle, ChannelEnds, conn, client
<1>2. ch.to \in DOMAIN stream /\ ch.from \in DOMAIN stream
  <2>1. Joins(ch)
    BY DEF StreamsInv, AllJoin
  <2> QED
    BY <2>1, MadeFacts DEF Joins, StreamsInv
<1>3. \A x \in Nodes : \A d \in router'[x] : Joins(d)
  <2>1. CASE \E state \in {"open", "idle", "invalid"} : router' = SetState(n, ch, state)
    BY <2>1, StateJoins DEF StreamsInv
  <2>2. CASE router' = [router EXCEPT ![n] = @ \ {ch}]
    <3>1. \A x \in Nodes : router'[x] \subseteq router[x]
      BY <2>2 DEF SlotsInv
    <3> QED
      BY <3>1 DEF StreamsInv, AllJoin
  <2> QED
    BY <2>1, <2>2 DEF Forward, FallsIdle, ChannelEnds
<1>4. RefsNext
  BY <1>1, <1>3 DEF RefsNext, StreamsInv, AllWait, AllRefuse, AllEnd
<1>5. StreamsStep
  <2>1. CASE Forward(n, ch)
    <3> DEFINE a == ch.from
               b == ch.to
    <3>1. stream' = [stream EXCEPT ![a].back = stream[b].back, ![b].back = Nothing]
      BY <2>1 DEF Forward
    <3>2. ASSUME NEW s \in DOMAIN stream PROVE stream'[s] \in StreamType(s, route[s[1]])
      <4>1. stream[s] \in StreamType(s, route[s[1]])
        BY MadeFacts DEF StreamsInv
      <4>2. stream[b].back \in Backs
        BY <1>2, MadeFacts DEF StreamsInv
      <4> HIDE DEF a, b
      <4>3. \/ stream'[s] = stream[s] \/ stream'[s] = [stream[s] EXCEPT !.back = stream[b].back]
            \/ stream'[s] = [stream[s] EXCEPT !.back = Nothing]
            \/ stream'[s] = [[stream[s] EXCEPT !.back = stream[b].back] EXCEPT !.back = Nothing]
        BY <3>1
      <4>4. [stream[s] EXCEPT !.back = stream[b].back] \in StreamType(s, route[s[1]])
        BY <4>1, <4>2, Rewrites DEF Stages
      <4>5. [stream[s] EXCEPT !.back = Nothing] \in StreamType(s, route[s[1]])
        BY <4>1, NothingBack, Rewrites DEF Stages
      <4>6. [[stream[s] EXCEPT !.back = stream[b].back] EXCEPT !.back = Nothing]
              \in StreamType(s, route[s[1]])
        BY <4>4, NothingBack, Rewrites DEF Stages
      <4> QED
        BY <4>1, <4>3, <4>4, <4>5, <4>6, Zenon
    <3>3. DOMAIN stream' = DOMAIN stream
      BY <3>1
    <3> QED
      BY <1>1, <3>2, <3>3, StreamsRewritten
  <2>2. CASE FallsIdle(n, ch)
    BY <1>1, <2>2, StreamsSame DEF FallsIdle
  <2>3. CASE ChannelEnds(n, ch)
    <3>1. /\ DOMAIN stream' = DOMAIN stream
          /\ \A s \in DOMAIN stream :
                stream'[s] = stream[s] \/ stream'[s] = [stream[s] EXCEPT !.stage = "closed"]
      BY <2>3 DEF ChannelEnds
    <3>2. ASSUME NEW s \in DOMAIN stream PROVE stream'[s] \in StreamType(s, route[s[1]])
      <4>1. stream[s] \in StreamType(s, route[s[1]])
        BY MadeFacts DEF StreamsInv
      <4>2. [stream[s] EXCEPT !.stage = "closed"] \in StreamType(s, route[s[1]])
        BY <4>1, NothingBack, Rewrites DEF Stages
      <4> QED
        BY <3>1, <4>1, <4>2
    <3> QED
      BY <1>1, <3>1, <3>2, StreamsRewritten
  <2> QED
    BY <2>1, <2>2, <2>3
<1> QED
  BY <1>1, <1>4, <1>5, StreamsQuiet DEF StreamsInv
LEMMA StreamsNext ==
    ASSUME ToldInv, SlotsInv, StreamsInv, [Next]_vars
    PROVE  StreamsInv' /\ StreamsStep
<1>1. ASSUME NEW k \in Paths, NEW r \in Routes, OpenPath(k, r) PROVE StreamsInv' /\ StreamsStep
  BY <1>1, StreamsOpenPath
<1>2. ASSUME NEW n \in Nodes, NEW m \in Nodes, DialFails(n, m) PROVE StreamsInv' /\ StreamsStep
  BY <1>2, StreamsDialFails
<1>3. ASSUME NEW n \in Nodes, NEW m \in Nodes, NEW c \in Conns,
             DialSucceeds(n, m, c) \/ OtherConnects(n, m, c) \/ ConnectionClosed(n, m, c)
      PROVE  StreamsInv' /\ StreamsStep
  BY <1>3, StreamsEstablish, StreamsClosed DEF DialSucceeds, OtherConnects
<1>4. ASSUME NEW s \in DOMAIN stream,
             WriteRequest(s) \/ ReadAnswer(s) \/ UpgradeFails(s)
      PROVE  StreamsInv' /\ StreamsStep
  BY <1>4, StreamsClient
<1>5. ASSUME NEW s \in DOMAIN stream,
             Relay(s) \/ Arrive(s) \/ NewChannel(s) \/ RelayUpgradeFails(s)
      PROVE  StreamsInv' /\ StreamsStep
  BY <1>5, StreamsRelay, StreamsArrive, StreamsNewChannel
<1>6. ASSUME NEW n \in Nodes, NEW e \in error_streams[n], WriteError(n, e)
      PROVE  StreamsInv' /\ StreamsStep
  BY <1>6, StreamsWriteError
<1>7. ASSUME NEW n \in Nodes, NEW ch \in router[n],
             Forward(n, ch) \/ FallsIdle(n, ch) \/ ChannelEnds(n, ch)
      PROVE  StreamsInv' /\ StreamsStep
  BY <1>7, StreamsChannel
<1>8. CASE UNCHANGED vars
  <2>1. UNCHANGED <<route, stream, arriving, upgrading, peer_to_connection>> /\ UNCHANGED relay
    BY <1>8 DEF vars, client, conn
  <2>2. StreamsStep /\ RefsNext
    BY <2>1, StreamsSame, RefsSame
  <2> QED
    BY <2>1, <2>2, StreamsQuiet DEF StreamsInv
<1>9. ASSUME NEW n \in Nodes, NEW m \in Nodes, Denied(n, m) \/ OtherDials(n, m) \/ OtherDialFails(n, m)
      PROVE  StreamsInv' /\ StreamsStep
  BY <1>9, StreamsDenied
<1> QED
  BY <1>1, <1>2, <1>3, <1>4, <1>5, <1>6, <1>7, <1>8, <1>9 DEF Next

\* The three invariants together are inductive.
PathInv == ToldInv /\ SlotsInv /\ StreamsInv

LEMMA PathInvHolds == Spec => []PathInv
<1>1. Init => PathInv
  BY ToldInit, SlotsInit, StreamsInit DEF PathInv
<1>2. PathInv /\ [Next]_vars => PathInv'
  BY ToldNext, SlotsNext, StreamsNext DEF PathInv
<1> QED
  BY <1>1, <1>2, PTL DEF Spec

\* Relays join the two streams of one try of one path (NewChannel of upgrade_outbound, with the
\* pending connection found by path), however many paths wait for the same peer and however often
\* a stream is asked for again.
THEOREM PathsDoNotCrossHolds == Spec => []PathsDoNotCross
<1>1. PathInv => PathsDoNotCross
  <2> SUFFICES ASSUME StreamsInv, NEW n \in Nodes, NEW ch \in router[n]
               PROVE  stream[ch.from].packet.secret = stream[ch.to].packet.secret
    BY DEF PathInv, PathsDoNotCross
  <2> DEFINE t == ch.to
             q == ch.from
  <2>1. t \in DOMAIN stream /\ ~IsFirst(t) /\ q = Source(t)
    BY DEF StreamsInv, AllJoin, Joins
  <2> HIDE DEF t, q
  <2>2. t \in StreamIds /\ route[t[1]] \in Routes /\ stream[t].packet = PacketOf(t, route[t[1]])
        /\ q \in DOMAIN stream
    BY <2>1, MadeFacts DEF StreamsInv
  <2>3. q \in StreamIds /\ route[q[1]] \in Routes /\ stream[q].packet = PacketOf(q, route[q[1]])
    BY <2>2, MadeFacts DEF StreamsInv
  <2>4. q[1] = t[1] /\ q[2][1] = t[2][1]
    BY <2>1, <2>2, IdFacts
  <2>5. stream[t].packet.secret = <<t[1], <<t[2][1]>>>> /\ stream[q].packet.secret = <<q[1], <<q[2][1]>>>>
    BY <2>2, <2>3, PacketFacts
  <2> QED
    BY <2>4, <2>5 DEF t, q
<1> QED
  BY <1>1, PathInvHolds, PTL

-----------------------------------------------------------------------------
(* From end to end.                                                         *)

\* After the step, the destination has accepted the try with this secret.
ConfirmedNext(secret) == \E n \in Nodes : \E q \in inbound'[n] : stream'[q].packet.secret = secret

InboundGrows == \A n \in Nodes : inbound[n] \subseteq inbound'[n]

\* No step but that of a destination brings a new confirmation.
BacksNext ==
    \A s \in DOMAIN stream' : stream'[s].back.kind = "ok" =>
        \/ \E q \in DOMAIN stream : stream'[s].back = stream[q].back
        \/ ConfirmedNext(stream'[s].back.secret)

OutcomesNext ==
    \A k \in Paths : outcome'[k] = "ok" => outcome[k] = "ok" \/ \E s \in FirstsOf(k) : Confirmed(s)

LEMMA ConfirmedStays ==
    ASSUME StreamsInv, StreamsStep, InboundGrows, NEW secret, Confirmed(secret)
    PROVE  ConfirmedNext(secret)
<1>1. PICK n \in Nodes : \E q \in inbound[n] : stream[q].packet.secret = secret
  BY DEF Confirmed
<1>2. PICK q \in inbound[n] : stream[q].packet.secret = secret
  BY <1>1
<1>3. q \in DOMAIN stream /\ q \in inbound'[n]
  BY DEF StreamsInv, AllEnd, Ends, InboundGrows
<1>4. stream'[q].packet = stream[q].packet
  BY <1>3, KeptHops
<1> QED
  BY <1>2, <1>3, <1>4 DEF ConfirmedNext

LEMMA EndPreserved ==
    ASSUME EndInv, StreamsInv, StreamsStep, InboundGrows, BacksNext, OutcomesNext
    PROVE  EndInv'
<1>1. ASSUME NEW s \in DOMAIN stream', stream'[s].back.kind = "ok"
      PROVE  ConfirmedNext(stream'[s].back.secret)
  <2>1. CASE \E q \in DOMAIN stream : stream'[s].back = stream[q].back
    <3>1. PICK q \in DOMAIN stream : stream'[s].back = stream[q].back
      BY <2>1
    <3>2. stream[q].back.kind = "ok"
      BY <1>1, <3>1
    <3>3. Confirmed(stream[q].back.secret)
      BY <3>2 DEF EndInv
    <3> QED
      BY <3>1, <3>3, ConfirmedStays
  <2> QED
    BY <1>1, <2>1 DEF BacksNext
<1>2. ASSUME NEW k \in Paths, outcome'[k] = "ok"
      PROVE  \E s \in FirstsOf(k)' : ConfirmedNext(s)
  <2>1. PICK s \in FirstsOf(k) : Confirmed(s)
    BY <1>2 DEF OutcomesNext, EndInv
  <2>2. ConfirmedNext(s)
    BY <2>1, ConfirmedStays
  <2>3. s \in FirstsOf(k)'
    BY <2>1 DEF FirstsOf, StreamsStep, IsFirst
  <2> QED
    BY <2>2, <2>3
<1> QED
  BY <1>1, <1>2 DEF EndInv, Confirmed, ConfirmedNext

\* A step that only adds streams, or changes their stage, and tells nobody.
LEMMA EndQuiet ==
    ASSUME EndInv, StreamsInv, StreamsStep, UNCHANGED <<inbound, outcome>>,
           \A s \in DOMAIN stream' :
              stream'[s].back = Nothing \/ (s \in DOMAIN stream /\ stream'[s].back = stream[s].back)
    PROVE  EndInv'
<1>1. BacksNext
  BY DEF BacksNext, Nothing
<1>2. InboundGrows
  BY DEF InboundGrows
<1>3. OutcomesNext
  BY DEF OutcomesNext
<1> QED
  BY <1>1, <1>2, <1>3, EndPreserved

LEMMA StageBack ==
    ASSUME StreamsInv, NEW s \in DOMAIN stream, NEW stage, stream' = [stream EXCEPT ![s].stage = stage]
    PROVE  DOMAIN stream' = DOMAIN stream /\ \A q \in DOMAIN stream : stream'[q].back = stream[q].back
<1>1. \A q \in DOMAIN stream : stream[q] \in StreamType(q, route[q[1]])
  BY MadeFacts DEF StreamsInv
<1>2. ASSUME NEW q \in DOMAIN stream PROVE stream'[q].back = stream[q].back
  <2>1. CASE q = s
    BY <1>1, <2>1 DEF StreamType
  <2>2. CASE q # s
    BY <2>2
  <2> QED
    BY <2>1, <2>2
<1> QED
  BY <1>2

LEMMA EndInit == Init => EndInv
<1> SUFFICES ASSUME Init
             PROVE  EndInv
  OBVIOUS
<1>1. DOMAIN stream = {}
  BY DEF Init
<1>2. \A k \in Paths : outcome[k] = "none"
  BY DEF Init
<1> QED
  BY <1>1, <1>2 DEF EndInv
LEMMA EndConnections ==
    ASSUME EndInv, StreamsInv, StreamsStep, NEW n \in Nodes, NEW m \in Nodes, NEW c \in Conns,
           Establish(n, m, c) \/ ConnectionClosed(n, m, c)
    PROVE  EndInv'
<1>1. CASE Establish(n, m, c)
  <2> DEFINE N == Added(n, m) \cup Added(m, n)
  <2>1. /\ UNCHANGED <<inbound, outcome>>
        /\ DOMAIN stream' = DOMAIN stream \cup N
        /\ \A s \in DOMAIN stream : stream'[s] = stream[s]
        /\ \A s \in N \ DOMAIN stream :
              stream'[s] = IF s \in Added(n, m) THEN Asked(s, m, c) ELSE Asked(s, n, c)
    BY <1>1 DEF Establish, relay
  <2> HIDE DEF N
  <2>2. \A s : Asked(s, m, c).back = Nothing /\ Asked(s, n, c).back = Nothing
    BY DEF Asked, NewStream
  <2> QED
    BY <2>1, <2>2, EndQuiet
<1>2. CASE ConnectionClosed(n, m, c)
  <2>1. /\ UNCHANGED <<inbound, outcome>>
        /\ DOMAIN stream' = DOMAIN stream
        /\ \A s \in DOMAIN stream :
              \/ stream'[s] = [stream[s] EXCEPT !.stage = "lost", !.back = Nothing]
              \/ stream'[s] = stream[s]
    BY <1>2 DEF ConnectionClosed, relay
  <2>2. ASSUME NEW s \in DOMAIN stream
        PROVE  [stream[s] EXCEPT !.stage = "lost", !.back = Nothing].back = Nothing
    <3>1. stream[s] \in StreamType(s, route[s[1]])
      BY MadeFacts DEF StreamsInv
    <3> QED
      BY <3>1 DEF StreamType
  <2> QED
    BY <2>1, <2>2, EndQuiet
<1> QED
  BY <1>1, <1>2

LEMMA EndWithStream ==
    ASSUME EndInv, StreamsInv, StreamsStep, UNCHANGED <<inbound, outcome>>, NEW s, NEW to, NEW c,
           NEW packet, stream' = stream \/ stream' = WithStream(s, NewStream(to, c, packet))
    PROVE  EndInv'
<1>1. CASE stream' = stream
  BY <1>1, EndQuiet
<1>2. CASE stream' = WithStream(s, NewStream(to, c, packet))
  <2> DEFINE new == NewStream(to, c, packet)
  <2>1. new.back = Nothing
    BY DEF NewStream
  <2> HIDE DEF new
  <2>2. stream' = WithStream(s, new)
    BY <1>2 DEF new
  <2>3. \A q \in DOMAIN stream' : \/ q \in DOMAIN stream /\ stream'[q] = stream[q]
                                  \/ stream'[q] = new
    BY <2>2 DEF WithStream
  <2> QED
    BY <2>1, <2>3, EndQuiet
<1> QED
  BY <1>1, <1>2

LEMMA EndOpenPath ==
    ASSUME EndInv, StreamsInv, StreamsStep, NEW k \in Paths, NEW r \in Routes, OpenPath(k, r)
    PROVE  EndInv'
<1>1. UNCHANGED <<inbound, outcome>>
  BY DEF OpenPath, relay
<1>2. \E s, to, c, packet : stream' = stream \/ stream' = WithStream(s, NewStream(to, c, packet))
  BY HeardFacts DEF OpenPath
<1> QED
  BY <1>1, <1>2, EndWithStream

LEMMA EndRelay ==
    ASSUME EndInv, StreamsInv, StreamsStep, NEW s \in DOMAIN stream, Relay(s)
    PROVE  EndInv'
<1>1. UNCHANGED <<inbound, outcome>>
  BY DEF Relay, PushIncomingStream, relay, client
<1>2. \/ stream' = [stream EXCEPT ![s].stage = "closed"]
      \/ \E t, to, c, packet : stream' = stream \/ stream' = WithStream(t, NewStream(to, c, packet))
  BY HeardFacts DEF Relay, PushIncomingStream
<1>3. CASE stream' = [stream EXCEPT ![s].stage = "closed"]
  BY <1>1, <1>3, StageBack, EndQuiet
<1> QED
  BY <1>1, <1>2, <1>3, EndWithStream

LEMMA EndStage ==
    ASSUME EndInv, StreamsInv, StreamsStep, NEW s \in DOMAIN stream,
           WriteRequest(s) \/ NewChannel(s) \/ RelayUpgradeFails(s)
    PROVE  EndInv'
<1>1. UNCHANGED <<inbound, outcome>>
  BY DEF WriteRequest, NewChannel, RelayUpgradeFails, relay, client
<1>2. \E stage : stream' = [stream EXCEPT ![s].stage = stage]
  BY DEF WriteRequest, NewChannel, RelayUpgradeFails
<1> QED
  BY <1>1, <1>2, StageBack, EndQuiet

LEMMA ConcludeBack ==
    ASSUME StreamsInv, NEW s \in DOMAIN stream, NEW result, Conclude(s, result)
    PROVE  \A q \in DOMAIN stream' : stream'[q].back = Nothing \/ stream'[q] = stream[q]
<1> DEFINE v == [stream[s] EXCEPT !.back = Nothing]
           w == [v EXCEPT !.stage = IF s[1] \in pending_requests /\ result = "ok" THEN @ ELSE "closed"]
<1>1. stream[s] \in StreamType(s, route[s[1]])
  BY MadeFacts DEF StreamsInv
<1>2. v \in StreamType(s, route[s[1]]) /\ v.back = Nothing
  BY <1>1, NothingBack DEF StreamType
<1>3. stream' = [stream EXCEPT ![s] = w]
  BY DEF Conclude
<1> HIDE DEF v
<1>4. w.back = Nothing
  BY <1>2 DEF StreamType
<1> HIDE DEF w
<1> QED
  BY <1>3, <1>4

LEMMA EndConclude ==
    ASSUME EndInv, StreamsInv, StreamsStep, ToldInv, NEW s \in upgrading, NEW result,
           Conclude(s, result), inbound' = inbound, result = "ok" => Accepts(s)
    PROVE  EndInv'
<1>1. s \in DOMAIN stream /\ IsFirst(s) /\ s \in StreamIds
  BY MadeFacts DEF StreamsInv
<1>2. \A q \in DOMAIN stream' : stream'[q].back = Nothing \/ stream'[q] = stream[q]
  BY <1>1, ConcludeBack
<1>3. DOMAIN stream' = DOMAIN stream
  BY DEF Conclude
<1>4. BacksNext
  BY <1>2, <1>3 DEF BacksNext, Nothing
<1>5. OutcomesNext
  <2>1. ASSUME NEW k \in Paths, outcome'[k] = "ok", outcome[k] # "ok"
        PROVE  \E q \in FirstsOf(k) : Confirmed(q)
    <3>1. k = s[1] /\ result = "ok"
      <4>1. outcome' = IF s[1] \in pending_requests THEN [outcome EXCEPT ![s[1]] = result] ELSE outcome
        BY DEF Conclude
      <4> QED
        BY <2>1, <4>1 DEF ToldInv
    <3>2. s \in FirstsOf(k)
      BY <1>1, <3>1 DEF FirstsOf
    <3>3. stream[s].back.kind = "ok" /\ stream[s].back.secret = s
      BY <3>1 DEF Accepts
    <3>4. Confirmed(s)
      BY <1>1, <3>3 DEF EndInv
    <3> QED
      BY <3>2, <3>4
  <2> QED
    BY <2>1 DEF OutcomesNext
<1>6. InboundGrows
  BY DEF InboundGrows
<1> QED
  BY <1>4, <1>5, <1>6, EndPreserved

LEMMA EndReadAnswer ==
    ASSUME EndInv, StreamsInv, StreamsStep, ToldInv, NEW s \in DOMAIN stream,
           ReadAnswer(s) \/ UpgradeFails(s)
    PROVE  EndInv'
<1>1. s \in upgrading /\ inbound' = inbound
  BY DEF ReadAnswer, UpgradeFails, relay
<1>2. \E result : Conclude(s, result) /\ (result = "ok" => Accepts(s))
  <2>1. CASE Conclude(s, IF Accepts(s) THEN "ok" ELSE "failed")
    <3>1. CASE Accepts(s)
      BY <2>1, <3>1, Zenon
    <3>2. CASE ~Accepts(s)
      <4>1. (IF Accepts(s) THEN "ok" ELSE "failed") = "failed"
        BY <3>2
      <4>2. Conclude(s, "failed") /\ "failed" # "ok"
        BY <2>1, <4>1, Zenon
      <4> QED
        BY <4>2, Zenon
    <3> QED
      BY <3>1, <3>2
  <2>2. CASE Conclude(s, "failed")
    <3>1. "failed" # "ok"
      OBVIOUS
    <3> QED
      BY <2>2, <3>1, Zenon
  <2> QED
    BY <2>1, <2>2, Zenon DEF ReadAnswer, UpgradeFails
<1> QED
  BY <1>1, <1>2, EndConclude

LEMMA EndArrive ==
    ASSUME EndInv, StreamsInv, StreamsStep, NEW s \in DOMAIN stream, Arrive(s)
    PROVE  EndInv'
<1> DEFINE n == stream[s].to
           answer == [kind |-> "ok", secret |-> stream[s].packet.secret]
<1>1. outcome' = outcome
  BY DEF Arrive, client
<1>2. n \in Nodes /\ stream[s] \in StreamType(s, route[s[1]])
  <2>1. s \in StreamIds /\ route[s[1]] \in Routes /\ n = HopOf(s, route[s[1]])
        /\ stream[s] \in StreamType(s, route[s[1]])
    BY MadeFacts DEF StreamsInv
  <2> QED
    BY <2>1, HopFacts
<1>3. \/ stream' = stream /\ (inbound' = inbound \/ inbound' = [inbound EXCEPT ![n] = @ \cup {s}]
                                                 \/ inbound' = [inbound EXCEPT ![n] = @])
      \/ stream' = [stream EXCEPT ![s].back = answer] /\ inbound' = [inbound EXCEPT ![n] = @ \cup {s}]
  BY DEF Arrive
<1>4. InboundGrows
  BY <1>2, <1>3 DEF InboundGrows, StreamsInv
<1>5. OutcomesNext
  BY <1>1 DEF OutcomesNext
<1>6. BacksNext
  <2>1. CASE stream' = stream
    BY <2>1 DEF BacksNext
  <2>2. CASE stream' = [stream EXCEPT ![s].back = answer] /\ inbound' = [inbound EXCEPT ![n] = @ \cup {s}]
    <3> SUFFICES ASSUME NEW q \in DOMAIN stream', q = s
                 PROVE  ConfirmedNext(stream'[q].back.secret)
      BY <2>2 DEF BacksNext
    <3>1. stream'[s].back = answer /\ stream'[s].packet = stream[s].packet
      BY <1>2, <2>2 DEF StreamType
    <3>2. s \in inbound'[n]
      BY <1>2, <2>2 DEF StreamsInv
    <3>3. stream'[s].back.secret = stream'[s].packet.secret
      BY <3>1
    <3> QED
      BY <1>2, <3>2, <3>3 DEF ConfirmedNext
  <2> QED
    BY <1>3, <2>1, <2>2
<1> QED
  BY <1>4, <1>5, <1>6, EndPreserved

LEMMA EndWriteError ==
    ASSUME EndInv, StreamsInv, StreamsStep, NEW n \in Nodes, NEW e \in error_streams[n], WriteError(n, e)
    PROVE  EndInv'
<1> DEFINE s == e.stream
           v == [stream[s] EXCEPT !.stage = "closed"]
           w == [v EXCEPT !.back.kind = e.kind]
<1>1. s \in DOMAIN stream /\ e.kind # "ok"
  BY DEF StreamsInv, AllRefuse, Refuses
<1>2. stream[s] \in StreamType(s, route[s[1]])
  BY <1>1, MadeFacts DEF StreamsInv
<1>3. UNCHANGED <<inbound, outcome>> /\ (stream' = stream \/ stream' = [stream EXCEPT ![s] = w])
  BY DEF WriteError, client
<1> HIDE DEF s
<1>4. w.back.kind = e.kind
  <2>1. v \in StreamType(s, route[s[1]])
    BY <1>2, NothingBack, Rewrites DEF Stages
  <2> HIDE DEF v
  <2>2. v.back \in Backs
    BY <2>1 DEF StreamType
  <2>3. w.back = [v.back EXCEPT !.kind = e.kind]
    BY <2>1 DEF StreamType
  <2> QED
    BY <2>2, <2>3 DEF Backs
<1> HIDE DEF w
<1>5. BacksNext
  <2>1. \A q \in DOMAIN stream' : stream'[q] = w \/ (q \in DOMAIN stream /\ stream'[q] = stream[q])
    BY <1>3
  <2> QED
    BY <1>1, <1>4, <2>1 DEF BacksNext
<1>6. InboundGrows /\ OutcomesNext
  BY <1>3 DEF InboundGrows, OutcomesNext
<1> QED
  BY <1>5, <1>6, EndPreserved

LEMMA EndChannel ==
    ASSUME EndInv, StreamsInv, StreamsStep, NEW n \in Nodes, NEW ch \in router[n],
           Forward(n, ch) \/ FallsIdle(n, ch) \/ ChannelEnds(n, ch)
    PROVE  EndInv'
<1>1. UNCHANGED <<inbound, outcome>>
  BY DEF Forward, FallsIdle, ChannelEnds, client
<1>2. ch.to \in DOMAIN stream
  BY DEF StreamsInv, AllJoin, Joins
<1>3. \A q \in DOMAIN stream : stream[q] \in StreamType(q, route[q[1]])
  BY MadeFacts DEF StreamsInv
<1>4. CASE Forward(n, ch)
  <2> DEFINE a == ch.from
             b == ch.to
             f == [stream EXCEPT ![a].back = stream[b].back]
  <2>1. stream' = [f EXCEPT ![b].back = Nothing]
    BY <1>4 DEF Forward
  <2>2. \A q \in DOMAIN stream : f[q].back = stream[q].back \/ f[q].back = stream[b].back
    BY <1>3 DEF StreamType
  <2>3. \A q \in DOMAIN stream : f[q] = stream[q] \/ f[q] = [stream[q] EXCEPT !.back = stream[b].back]
    OBVIOUS
  <2>4. \A q \in DOMAIN stream : "back" \in DOMAIN f[q]
    BY <1>3, <2>3 DEF StreamType
  <2>5. DOMAIN f = DOMAIN stream
    OBVIOUS
  <2> HIDE DEF a, b, f
  <2>6. \A q \in DOMAIN stream' : q \in DOMAIN stream /\ (stream'[q].back = f[q].back \/ stream'[q].back = Nothing)
    BY <2>1, <2>4, <2>5
  <2>7. BacksNext
    BY <1>2, <2>2, <2>6 DEF BacksNext, Nothing, b
  <2>8. InboundGrows /\ OutcomesNext
    BY <1>1 DEF InboundGrows, OutcomesNext
  <2> QED
    BY <2>7, <2>8, EndPreserved
<1>5. CASE FallsIdle(n, ch)
  BY <1>1, <1>5, EndQuiet DEF FallsIdle
<1>6. CASE ChannelEnds(n, ch)
  <2>1. /\ DOMAIN stream' = DOMAIN stream
        /\ \A s \in DOMAIN stream :
              stream'[s] = stream[s] \/ stream'[s] = [stream[s] EXCEPT !.stage = "closed"]
    BY <1>6 DEF ChannelEnds
  <2>2. \A s \in DOMAIN stream : stream'[s].back = stream[s].back
    BY <1>3, <2>1 DEF StreamType
  <2> QED
    BY <1>1, <2>1, <2>2, EndQuiet
<1> QED
  BY <1>4, <1>5, <1>6
LEMMA EndNext ==
    ASSUME PathInv, EndInv, [Next]_vars
    PROVE  EndInv'
<1>1. ToldInv /\ StreamsInv /\ StreamsStep
  BY StreamsNext DEF PathInv
<1>2. ASSUME NEW k \in Paths, NEW r \in Routes, OpenPath(k, r) PROVE EndInv'
  BY <1>1, <1>2, EndOpenPath
<1>3. ASSUME NEW n \in Nodes, NEW m \in Nodes, DialFails(n, m) PROVE EndInv'
  <2>1. UNCHANGED <<stream, inbound>>
    BY <1>3 DEF DialFails
  <2>2. OutcomesNext
    BY <1>3 DEF DialFails, OutcomesNext
  <2>3. BacksNext /\ InboundGrows
    BY <2>1 DEF BacksNext, InboundGrows
  <2> QED
    BY <1>1, <2>2, <2>3, EndPreserved
<1>4. ASSUME NEW n \in Nodes, NEW m \in Nodes, NEW c \in Conns,
             DialSucceeds(n, m, c) \/ OtherConnects(n, m, c) \/ ConnectionClosed(n, m, c)
      PROVE  EndInv'
  BY <1>1, <1>4, EndConnections DEF DialSucceeds, OtherConnects
<1>5. ASSUME NEW s \in DOMAIN stream, WriteRequest(s) \/ ReadAnswer(s) \/ UpgradeFails(s) PROVE EndInv'
  BY <1>1, <1>5, EndStage, EndReadAnswer
<1>6. ASSUME NEW s \in DOMAIN stream, Relay(s) \/ Arrive(s) \/ NewChannel(s) \/ RelayUpgradeFails(s)
      PROVE  EndInv'
  BY <1>1, <1>6, EndRelay, EndArrive, EndStage
<1>7. ASSUME NEW n \in Nodes, NEW e \in error_streams[n], WriteError(n, e) PROVE EndInv'
  BY <1>1, <1>7, EndWriteError
<1>8. ASSUME NEW n \in Nodes, NEW ch \in router[n],
             Forward(n, ch) \/ FallsIdle(n, ch) \/ ChannelEnds(n, ch)
      PROVE  EndInv'
  BY <1>1, <1>8, EndChannel
<1>9. CASE UNCHANGED vars
  BY <1>1, <1>9, EndQuiet DEF vars, relay, client
<1>10. ASSUME NEW n \in Nodes, NEW m \in Nodes, Denied(n, m) \/ OtherDials(n, m) \/ OtherDialFails(n, m)
       PROVE  EndInv'
  BY <1>1, <1>10, EndQuiet DEF Denied, OtherDials, OtherDialFails, relay, client
<1> QED
  BY <1>2, <1>3, <1>4, <1>5, <1>6, <1>7, <1>8, <1>9, <1>10 DEF Next

\* What a client is told to be open has been accepted by the destination it asked for, which has
\* the same secret, and by no other node (upgrade_outbound of a client checks the confirmation).
THEOREM EndToEndHolds == Spec => []EndToEnd
<1>1. PathInv /\ EndInv => EndToEnd
  <2> SUFFICES ASSUME PathInv, EndInv, NEW k \in Paths, outcome[k] = "ok"
               PROVE  \E s \in FirstsOf(k) :
                         {n \in Nodes : \E q \in inbound[n] : stream[q].packet.secret = s}
                            = {route[k].path[1]}
    BY DEF EndToEnd
  <2>1. PICK s \in FirstsOf(k) : Confirmed(s)
    BY DEF EndInv
  <2>2. s[1] = k
    BY DEF FirstsOf
  <2>3. ASSUME NEW n \in Nodes, NEW q \in inbound[n], stream[q].packet.secret = s
        PROVE  n = route[k].path[1]
    <3>1. q \in DOMAIN stream /\ stream[q].to = n /\ Len(q[2]) = 3
      BY DEF PathInv, StreamsInv, AllEnd, Ends
    <3>2. /\ q \in StreamIds /\ route[q[1]] \in Routes
          /\ stream[q].to = HopOf(q, route[q[1]]) /\ stream[q].packet = PacketOf(q, route[q[1]])
      BY <3>1, MadeFacts DEF PathInv, StreamsInv
    <3>3. s = <<q[1], <<q[2][1]>>>>
      BY <2>3, <3>2, PacketFacts
    <3>4. q[1] = k
      BY <2>2, <3>3
    <3> QED
      BY <3>1, <3>2, <3>4, HopFacts
  <2>4. \E n \in Nodes : \E q \in inbound[n] : stream[q].packet.secret = s
    BY <2>1 DEF Confirmed
  <2>5. {n \in Nodes : \E q \in inbound[n] : stream[q].packet.secret = s} = {route[k].path[1]}
    BY <2>3, <2>4
  <2> QED
    BY <2>5
<1>2. EndInv /\ PathInv /\ [Next]_vars => EndInv'
  BY EndNext
<1> QED
  BY <1>1, <1>2, EndInit, PathInvHolds, PTL DEF Spec

-----------------------------------------------------------------------------
(* Nothing is forgotten.                                                    *)

\* The next try of a path, or of a stream at a relay, is not among those there were.
LEMMA FirstFresh ==
    ASSUME StreamsInv, Numbered, NEW k \in Paths
    PROVE  FirstStream(k) \notin DOMAIN stream
<1> DEFINE c == Cardinality(FirstsOf(k))
           s == FirstStream(k)
<1>1. c \in Nat
  <2>1. FirstsOf(k) \in SUBSET DOMAIN stream
    BY DEF FirstsOf
  <2>2. IsFiniteSet(FirstsOf(k))
    BY <2>1, FS_Subset DEF StreamsInv
  <2> QED
    BY <2>2, FS_CardinalityType
<1>2. s[1] = k /\ IsFirst(s)
  BY FirstStreamFacts DEF StreamsInv
<1>3. s[2][1] = c + 1
  BY DEF FirstStream
<1> HIDE DEF s
<1>4. s \in DOMAIN stream => s[2][1] <= c
  BY <1>2 DEF FirstsOf, Numbered
<1> HIDE DEF c
<1>5. s \notin DOMAIN stream
  BY <1>1, <1>3, <1>4
<1> QED
  BY <1>5 DEF s

LEMMA LastAppended ==
    ASSUME NEW q \in Seq(Nat), Len(q) \in {1, 2}, NEW i \in Nat
    PROVE  Append(q, i)[Len(Append(q, i))] = i
OBVIOUS

LEMMA ChildrenFinite ==
    ASSUME StreamsInv, NEW q
    PROVE  IsFiniteSet(Children(q)) /\ Cardinality(Children(q)) \in Nat
<1>1. Children(q) \in SUBSET DOMAIN stream
  BY DEF Children
<1>2. IsFiniteSet(Children(q))
  BY <1>1, FS_Subset DEF StreamsInv
<1> QED
  BY <1>2, FS_CardinalityType

LEMMA NextNumber ==
    ASSUME StreamsInv, NEW q \in DOMAIN stream, Len(q[2]) < 3
    PROVE  NextStream(q)[2][Len(NextStream(q)[2])] = Cardinality(Children(q)) + 1
<1> DEFINE i == Cardinality(Children(q)) + 1
<1>1. q \in StreamIds
  BY MadeFacts DEF StreamsInv
<1>2. q[2] \in Seq(Nat) /\ Len(q[2]) \in {1, 2}
  BY <1>1, IdFacts
<1>3. i \in Nat
  BY ChildrenFinite
<1>4. NextStream(q)[2] = Append(q[2], i)
  BY DEF NextStream
<1> HIDE DEF i
<1>5. NextStream(q)[2][Len(NextStream(q)[2])] = i
  BY <1>2, <1>3, <1>4, LastAppended
<1> QED
  BY <1>5 DEF i

LEMMA NextFresh ==
    ASSUME StreamsInv, Numbered, NEW q \in DOMAIN stream, Len(q[2]) < 3
    PROVE  NextStream(q) \notin DOMAIN stream
<1> DEFINE c == Cardinality(Children(q))
           s == NextStream(q)
           i == s[2][Len(s[2])]
<1>1. c \in Nat
  BY ChildrenFinite
<1>2. ~IsFirst(s) /\ Source(s) = q
  BY NextStreamFacts DEF StreamsInv
<1>3. i = c + 1
  BY NextNumber
<1> HIDE DEF s
<1>4. s \in DOMAIN stream => i <= c
  BY <1>2 DEF Children, Numbered
<1> HIDE DEF c, i
<1>5. s \notin DOMAIN stream
  BY <1>1, <1>3, <1>4
<1> QED
  BY <1>5 DEF s
LEMMA OneMore ==
    ASSUME NEW F, IsFiniteSet(F), NEW x, x \notin F, NEW G, F \subseteq G, G \subseteq F \cup {x}
    PROVE  /\ Cardinality(F) \in Nat /\ Cardinality(G) \in Nat /\ Cardinality(F) <= Cardinality(G)
           /\ x \in G => Cardinality(G) = Cardinality(F) + 1
<1>1. Cardinality(F) \in Nat
  BY FS_CardinalityType
<1>2. CASE G = F
  BY <1>1, <1>2
<1>3. CASE G = F \cup {x}
  <2>1. Cardinality(F \cup {x}) = Cardinality(F) + 1
    BY FS_AddElement
  <2> QED
    BY <1>1, <1>3, <2>1
<1> QED
  BY <1>2, <1>3

\* New streams are next tries.
OnlyNextTries ==
    \A s \in DOMAIN stream' \ DOMAIN stream :
        IF IsFirst(s) THEN s[1] \in Paths /\ s = FirstStream(s[1])
        ELSE Source(s) \in DOMAIN stream /\ Len(Source(s)[2]) < 3 /\ s = NextStream(Source(s))

LEMMA NumberedNext ==
    ASSUME StreamsInv, StreamsStep, Numbered, OnlyNextTries
    PROVE  Numbered'
<1>1. \A s \in DOMAIN stream' : s \in StreamIds
  BY DEF StreamsStep, AllMade, Made
<1>2. ASSUME NEW k \in Paths, NEW s \in FirstsOf(k)'
      PROVE  s[2][1] <= Cardinality(FirstsOf(k)')
  <2> DEFINE F == FirstsOf(k)
             G == FirstsOf(k)'
             x == FirstStream(k)
             i == s[2][1]
  <2>1. IsFiniteSet(F)
    <3>1. F \in SUBSET DOMAIN stream
      BY DEF FirstsOf
    <3> QED
      BY <3>1, FS_Subset DEF StreamsInv
  <2>2. x \notin F
    BY FirstFresh DEF FirstsOf
  <2>3. F \subseteq G /\ G \subseteq F \cup {x}
    BY DEF FirstsOf, StreamsStep, OnlyNextTries, IsFirst
  <2>4. x[2][1] = Cardinality(F) + 1
    BY DEF FirstStream
  <2>5. s \in G /\ (s \in F => i <= Cardinality(F))
    BY DEF Numbered
  <2>6. i \in Nat
    <3>1. s \in StreamIds
      BY <1>1 DEF FirstsOf
    <3>2. s[2] \in Seq(Nat) /\ Len(s[2]) \in {1, 2, 3}
      BY <3>1, IdFacts
    <3> QED
      BY <3>2
  <2>7. s = x => i = Cardinality(F) + 1
    BY <2>4
  <2> HIDE DEF F, G, x, i
  <2>8. /\ Cardinality(F) \in Nat /\ Cardinality(G) \in Nat /\ Cardinality(F) <= Cardinality(G)
        /\ x \in G => Cardinality(G) = Cardinality(F) + 1
    BY <2>1, <2>2, <2>3, OneMore
  <2>9. i <= Cardinality(G)
    BY <2>3, <2>5, <2>6, <2>7, <2>8
  <2> QED
    BY <2>9 DEF G, i
<1>3. ASSUME NEW q \in DOMAIN stream', NEW s \in Children(q)'
      PROVE  s[2][Len(s[2])] <= Cardinality(Children(q)')
  <2> DEFINE F == Children(q)
             G == Children(q)'
             x == NextStream(q)
             i == s[2][Len(s[2])]
  <2>1. s \in DOMAIN stream' /\ ~IsFirst(s) /\ Source(s) = q
    BY DEF Children, IsFirst, Source
  <2>2. q \in DOMAIN stream /\ Len(q[2]) < 3
    <3>1. CASE s \in DOMAIN stream
      <4>1. s \in StreamIds /\ q \in DOMAIN stream
        BY <2>1, <3>1, MadeFacts DEF StreamsInv
      <4>2. Len(s[2]) \in {1, 2, 3} /\ Len(q[2]) = Len(s[2]) - 1
        BY <2>1, <4>1, IdFacts
      <4> DEFINE ls == Len(s[2])
                 lq == Len(q[2])
      <4>3. ls \in {1, 2, 3} /\ lq = ls - 1
        BY <4>2
      <4> HIDE DEF ls, lq
      <4>4. lq < 3
        BY <4>3
      <4> QED
        BY <4>1, <4>4 DEF lq
    <3>2. CASE s \notin DOMAIN stream
      BY <2>1, <3>2 DEF OnlyNextTries
    <3> QED
      BY <3>1, <3>2
  <2>3. IsFiniteSet(F)
    BY ChildrenFinite
  <2>4. x \notin F
    BY <2>2, NextFresh DEF Children
  <2>5. F \subseteq G /\ G \subseteq F \cup {x}
    BY DEF Children, StreamsStep, OnlyNextTries, IsFirst, Source
  <2>6. x[2][Len(x[2])] = Cardinality(F) + 1
    BY <2>2, NextNumber
  <2>7. s \in G /\ (s \in F => i <= Cardinality(F))
    BY <2>2 DEF Numbered
  <2>8. i \in Nat
    <3>1. s \in StreamIds
      BY <1>1, <2>1
    <3> DEFINE t == s[2]
    <3>2. t \in Seq(Nat) /\ Len(t) \in {1, 2, 3}
      BY <3>1, IdFacts
    <3> HIDE DEF t
    <3>3. \A j \in 1 .. Len(t) : t[j] \in Nat
      BY <3>2
    <3> DEFINE l == Len(t)
    <3>4. l \in {1, 2, 3} /\ \A j \in 1 .. l : t[j] \in Nat
      BY <3>2, <3>3
    <3> HIDE DEF l
    <3>5. t[l] \in Nat
      BY <3>4
    <3> QED
      BY <3>5 DEF t, l
  <2>9. s = x => i = Cardinality(F) + 1
    BY <2>6
  <2> HIDE DEF F, G, x, i
  <2>10. /\ Cardinality(F) \in Nat /\ Cardinality(G) \in Nat /\ Cardinality(F) <= Cardinality(G)
         /\ x \in G => Cardinality(G) = Cardinality(F) + 1
    BY <2>3, <2>4, <2>5, OneMore
  <2>11. i <= Cardinality(G)
    BY <2>5, <2>7, <2>8, <2>9, <2>10
  <2> QED
    BY <2>11 DEF G, i
<1> QED
  BY <1>2, <1>3 DEF Numbered

LEMMA RequestKept ==
    ASSUME StreamsInv, StreamsStep, NEW k \in Paths, route'[k] = route[k], RequestSeen(k),
           cut \subseteq cut', FirstsOf(k) \cap upgrading \subseteq upgrading',
           Dials(route[k].client, Entry(route[k])) => Dials(route[k].client, Entry(route[k]))'
    PROVE  RequestSeen(k)'
<1> DEFINE n == route[k].client
           m == Entry(route[k])
<1>1. CASE Dials(n, m)
  BY <1>1 DEF RequestSeen, Dials, Entry
<1>2. CASE {n, m} \in cut
  BY <1>2 DEF RequestSeen, Entry
<1>3. CASE FirstsOf(k) \cap upgrading # {}
  <2>1. FirstsOf(k) \subseteq FirstsOf(k)'
    BY DEF FirstsOf, IsFirst, StreamsStep
  <2>2. FirstsOf(k)' \cap upgrading' # {}
    BY <1>3, <2>1
  <2> QED
    BY <2>2 DEF RequestSeen
<1> QED
  BY <1>1, <1>2, <1>3 DEF RequestSeen

LEMMA RelayedKept ==
    ASSUME StreamsInv, StreamsStep, NEW n, NEW s \in DOMAIN stream, RelayedSeen(n, s),
           cut \subseteq cut', \A q \in Children(s) : Busy(q) => Busy(q)',
           \A m : m = NextHop(stream[s].packet) /\ Dials(n, m) => Dials(n, m)'
    PROVE  RelayedSeen(n, s)'
<1> DEFINE m == NextHop(stream[s].packet)
<1>1. NextHop(stream'[s].packet) = m
  BY KeptHops
<1>2. CASE Dials(n, m)
  <2>1. m \in dialing'[n] /\ peer_to_connection'[n][m] = NoConn
    BY <1>2 DEF Dials
  <2> QED
    BY <1>1, <2>1 DEF RelayedSeen, Dials
<1>3. CASE {n, m} \in cut
  BY <1>1, <1>3 DEF RelayedSeen
<1>4. CASE \E q \in Children(s) : Busy(q)
  <2>1. PICK q \in Children(s) : Busy(q)
    BY <1>4
  <2>2. q \in Children(s)'
    BY DEF Children, IsFirst, Source, StreamsStep
  <2> QED
    BY <2>1, <2>2 DEF RelayedSeen, Busy
<1> QED
  BY <1>2, <1>3, <1>4 DEF RelayedSeen, Busy
LEMMA SeenInit == Init => SeenInv
<1> SUFFICES ASSUME Init
             PROVE  SeenInv
  OBVIOUS
<1>1. DOMAIN stream = {} /\ swarm = {} /\ pending_requests = {} /\ DOMAIN dialing = Nodes
      /\ \A n \in Nodes : pending_connections[n] = {}
  BY DEF Init
<1>2. Numbered
  BY <1>1 DEF Numbered, FirstsOf
<1>3. ConnectionsKnown
  <2>1. \A n, m \in Nodes : peer_to_connection[n][m] # DeadConn
    BY DEF Init, NoConn, DeadConn
  <2> QED
    BY <1>1, <2>1 DEF ConnectionsKnown, Connected
<1> QED
  BY <1>1, <1>2, <1>3 DEF SeenInv

\* A step that adds no stream and leaves the connections alone.  What it lets go of is no longer
\* waited for.
LEMMA SeenQuiet ==
    ASSUME PathInv, StreamsStep, SeenInv, DOMAIN stream' = DOMAIN stream,
           UNCHANGED <<swarm, dialing, peer_to_connection, cut, route>>,
           pending_requests' \subseteq pending_requests,
           \A k \in pending_requests' : FirstsOf(k) \cap upgrading \subseteq upgrading',
           \A n \in Nodes : pending_connections'[n] \subseteq pending_connections[n],
           \A n \in Nodes : \A s \in pending_connections'[n] :
              \A q \in Children(s) : Busy(q) => Busy(q)'
    PROVE  SeenInv'
<1>1. Numbered'
  <2>1. OnlyNextTries
    BY DEF OnlyNextTries
  <2> QED
    BY <2>1, NumberedNext DEF PathInv, SeenInv
<1>2. ConnectionsKnown'
  BY DEF SeenInv, ConnectionsKnown, Connected
<1>3. \A n, m : Dials(n, m) => Dials(n, m)'
  BY DEF Dials
<1>4. ASSUME NEW k \in pending_requests' PROVE RequestSeen(k)'
  <2>1. k \in Paths /\ RequestSeen(k)
    BY DEF SeenInv, PathInv, ToldInv
  <2> QED
    BY <1>3, <2>1, RequestKept DEF PathInv
<1>5. ASSUME NEW n \in Nodes, NEW s \in pending_connections'[n] PROVE RelayedSeen(n, s)'
  <2>1. s \in pending_connections[n]
    OBVIOUS
  <2>2. s \in DOMAIN stream /\ RelayedSeen(n, s)
    BY <2>1 DEF SeenInv, PathInv, StreamsInv, AllWait, Waits
  <2> QED
    BY <1>3, <2>2, RelayedKept DEF PathInv
<1> QED
  BY <1>1, <1>2, <1>4, <1>5 DEF SeenInv

\* The stages of streams that relays opened stay busy.
LEMMA SeenStages ==
    ASSUME PathInv, StreamsStep, SeenInv, DOMAIN stream' = DOMAIN stream,
           UNCHANGED <<swarm, dialing, peer_to_connection, cut, route, pending_connections>>,
           pending_requests' \subseteq pending_requests,
           \A k \in pending_requests' : FirstsOf(k) \cap upgrading \subseteq upgrading',
           \A q \in DOMAIN stream : IsFirst(q) \/ stream'[q].stage = stream[q].stage
                                               \/ stream'[q].stage = "closed"
    PROVE  SeenInv'
<1>1. ASSUME NEW s, NEW q \in Children(s), Busy(q) PROVE Busy(q)'
  BY <1>1 DEF Children, Busy
<1> QED
  BY <1>1, SeenQuiet

LEMMA StageOf ==
    ASSUME StreamsInv, NEW s \in DOMAIN stream, NEW stage, stream' = [stream EXCEPT ![s].stage = stage]
    PROVE  /\ DOMAIN stream' = DOMAIN stream /\ stream'[s].stage = stage
           /\ \A q \in DOMAIN stream : q # s => stream'[q].stage = stream[q].stage
<1>1. stream[s] \in StreamType(s, route[s[1]])
  BY MadeFacts DEF StreamsInv
<1> QED
  BY <1>1 DEF StreamType

LEMMA SeenConclude ==
    ASSUME PathInv, StreamsStep, SeenInv, NEW s \in upgrading, NEW result, Conclude(s, result),
           UNCHANGED <<swarm, dialing, peer_to_connection, cut, route, pending_connections>>
    PROVE  SeenInv'
<1>1. s \in DOMAIN stream /\ IsFirst(s)
  BY DEF PathInv, StreamsInv
<1>2. /\ DOMAIN stream' = DOMAIN stream /\ \A q \in DOMAIN stream : q # s => stream'[q] = stream[q]
      /\ pending_requests' = pending_requests \ {s[1]} /\ upgrading' = upgrading \ {s}
  BY DEF Conclude
<1>3. \A k \in pending_requests' : FirstsOf(k) \cap upgrading \subseteq upgrading'
  BY <1>2 DEF FirstsOf
<1>4. \A q \in DOMAIN stream : IsFirst(q) \/ stream'[q].stage = stream[q].stage
                                           \/ stream'[q].stage = "closed"
  BY <1>1, <1>2
<1> QED
  BY <1>2, <1>3, <1>4, SeenStages

LEMMA SeenClient ==
    ASSUME PathInv, StreamsStep, SeenInv, NEW s \in DOMAIN stream,
           WriteRequest(s) \/ ReadAnswer(s) \/ UpgradeFails(s)
    PROVE  SeenInv'
<1>1. UNCHANGED <<swarm, dialing, peer_to_connection, cut, route, pending_connections>>
  BY DEF WriteRequest, ReadAnswer, UpgradeFails, conn, client, relay, bounds, Fault
<1>2. s \in upgrading /\ IsFirst(s)
  BY DEF WriteRequest, ReadAnswer, UpgradeFails, PathInv, StreamsInv
<1>3. CASE WriteRequest(s)
  <2>1. stream' = [stream EXCEPT ![s].stage = "open"] /\ UNCHANGED <<pending_requests, upgrading>>
    BY <1>3 DEF WriteRequest, client
  <2>2. /\ DOMAIN stream' = DOMAIN stream
        /\ \A q \in DOMAIN stream : q # s => stream'[q].stage = stream[q].stage
    BY <2>1, StageOf DEF PathInv
  <2>3. \A q \in DOMAIN stream : IsFirst(q) \/ stream'[q].stage = stream[q].stage
                                             \/ stream'[q].stage = "closed"
    BY <1>2, <2>2
  <2>4. \A k \in pending_requests' : FirstsOf(k) \cap upgrading \subseteq upgrading'
    BY <2>1
  <2> QED
    BY <1>1, <2>1, <2>2, <2>3, <2>4, SeenStages
<1>4. CASE ReadAnswer(s) \/ UpgradeFails(s)
  <2>1. \E result : Conclude(s, result)
    BY <1>4 DEF ReadAnswer, UpgradeFails
  <2> QED
    BY <1>1, <1>2, <2>1, SeenConclude
<1> QED
  BY <1>3, <1>4

LEMMA SeenArrive ==
    ASSUME PathInv, StreamsStep, SeenInv, NEW s \in DOMAIN stream, Arrive(s)
    PROVE  SeenInv'
<1>1. UNCHANGED <<swarm, dialing, peer_to_connection, cut, route, pending_connections,
                  pending_requests, upgrading>>
  BY DEF Arrive, conn, client, bounds
<1>2. stream' = stream \/ \E answer : stream' = [stream EXCEPT ![s].back = answer]
  BY DEF Arrive
<1>3. stream[s] \in StreamType(s, route[s[1]])
  BY MadeFacts DEF PathInv, StreamsInv
<1>4. DOMAIN stream' = DOMAIN stream /\ \A q \in DOMAIN stream : stream'[q].stage = stream[q].stage
  BY <1>2, <1>3 DEF StreamType
<1>5. \A k \in pending_requests' : FirstsOf(k) \cap upgrading \subseteq upgrading'
  BY <1>1
<1> QED
  BY <1>1, <1>4, <1>5, SeenStages

LEMMA SeenNewChannel ==
    ASSUME PathInv, StreamsStep, SeenInv, NEW s \in DOMAIN stream, NewChannel(s) \/ RelayUpgradeFails(s)
    PROVE  SeenInv'
<1>1. UNCHANGED <<swarm, dialing, peer_to_connection, cut, route, pending_requests, upgrading>>
      /\ ~IsFirst(s)
  BY DEF NewChannel, RelayUpgradeFails, conn, client, bounds, Fault
<1>2. \A k \in pending_requests' : FirstsOf(k) \cap upgrading \subseteq upgrading'
  BY <1>1
<1>3. CASE stream' = [stream EXCEPT ![s].stage = "closed"] /\ pending_connections' = pending_connections
  <2>1. /\ DOMAIN stream' = DOMAIN stream /\ stream'[s].stage = "closed"
        /\ \A q \in DOMAIN stream : q # s => stream'[q].stage = stream[q].stage
    BY <1>3, StageOf DEF PathInv
  <2>2. \A q \in DOMAIN stream : IsFirst(q) \/ stream'[q].stage = stream[q].stage
                                             \/ stream'[q].stage = "closed"
    BY <2>1
  <2> QED
    BY <1>1, <1>2, <1>3, <2>1, <2>2, SeenStages
<1> DEFINE n == Opener(s)
<1>4. ASSUME NEW q \in Partner(n, s), stream' = [stream EXCEPT ![s].stage = "open"],
             pending_connections' = [pending_connections EXCEPT ![n] = @ \ {q}]
      PROVE  SeenInv'
  <2>1. /\ DOMAIN stream' = DOMAIN stream
        /\ \A x \in DOMAIN stream : x # s => stream'[x].stage = stream[x].stage
    BY <1>4, StageOf DEF PathInv
  <2>2. q = Source(s) /\ n = stream[Source(s)].to
    BY <1>1 DEF Partner, Opener
  <2> HIDE DEF n
  <2>3. \A x \in Nodes : pending_connections'[x] \subseteq pending_connections[x]
    BY <1>4 DEF PathInv, SlotsInv
  <2>4. ASSUME NEW x \in Nodes, NEW y \in pending_connections'[x], NEW z \in Children(y), Busy(z)
        PROVE  Busy(z)'
    <3>1. Waits(y, x)
      BY <2>3 DEF PathInv, StreamsInv, AllWait
    <3>2. y # q
      <4>1. SUFFICES ASSUME y = q
                     PROVE  FALSE
        OBVIOUS
      <4>2. x = n
        BY <2>2, <3>1, <4>1 DEF Waits
      <4> QED
        BY <1>4, <4>1, <4>2 DEF PathInv, SlotsInv
    <3>3. z # s /\ z \in DOMAIN stream
      BY <2>2, <3>2 DEF Children
    <3> QED
      BY <2>1, <2>4, <3>3 DEF Busy
  <2> QED
    BY <1>1, <1>2, <2>1, <2>3, <2>4, SeenQuiet
<1>5. CASE NewChannel(s)
  BY <1>3, <1>4, <1>5 DEF NewChannel
<1>6. CASE RelayUpgradeFails(s)
  BY <1>3, <1>6 DEF RelayUpgradeFails, relay
<1> QED
  BY <1>5, <1>6

LEMMA SeenWriteError ==
    ASSUME PathInv, StreamsStep, SeenInv, NEW n \in Nodes, NEW e \in error_streams[n], WriteError(n, e)
    PROVE  SeenInv'
<1> DEFINE s == e.stream
           v == [stream[s] EXCEPT !.stage = "closed"]
           w == [v EXCEPT !.back.kind = e.kind]
<1>1. UNCHANGED <<swarm, dialing, peer_to_connection, cut, route, pending_connections,
                  pending_requests, upgrading>>
      /\ (stream' = stream \/ stream' = [stream EXCEPT ![s] = w])
  BY DEF WriteError, conn, client, bounds
<1>2. s \in DOMAIN stream
  BY DEF PathInv, StreamsInv, AllRefuse, Refuses
<1>3. stream[s] \in StreamType(s, route[s[1]])
  BY <1>2, MadeFacts DEF PathInv, StreamsInv
<1> HIDE DEF s
<1>4. w.stage = "closed"
  BY <1>3 DEF StreamType
<1> HIDE DEF w
<1>5. DOMAIN stream' = DOMAIN stream
      /\ \A q \in DOMAIN stream : stream'[q].stage = stream[q].stage \/ stream'[q].stage = "closed"
  BY <1>1, <1>4
<1>6. \A k \in pending_requests' : FirstsOf(k) \cap upgrading \subseteq upgrading'
  BY <1>1
<1> QED
  BY <1>1, <1>5, <1>6, SeenStages

LEMMA SeenChannel ==
    ASSUME PathInv, StreamsStep, SeenInv, NEW n \in Nodes, NEW ch \in router[n],
           Forward(n, ch) \/ FallsIdle(n, ch) \/ ChannelEnds(n, ch)
    PROVE  SeenInv'
<1>1. UNCHANGED <<swarm, dialing, peer_to_connection, cut, route, pending_connections,
                  pending_requests, upgrading>>
  BY DEF Forward, FallsIdle, ChannelEnds, conn, client, bounds, Fault
<1>2. \A q \in DOMAIN stream : stream[q] \in StreamType(q, route[q[1]])
  BY MadeFacts DEF PathInv, StreamsInv
<1>3. \A k \in pending_requests' : FirstsOf(k) \cap upgrading \subseteq upgrading'
  BY <1>1
<1>4. DOMAIN stream' = DOMAIN stream
      /\ \A q \in DOMAIN stream : stream'[q].stage = stream[q].stage \/ stream'[q].stage = "closed"
  <2>1. CASE Forward(n, ch)
    <3> DEFINE a == ch.from
               b == ch.to
               f == [stream EXCEPT ![a].back = stream[b].back]
    <3>1. stream' = [f EXCEPT ![b].back = Nothing]
      BY <2>1 DEF Forward
    <3>2. \A q \in DOMAIN stream : f[q].stage = stream[q].stage /\ "stage" \in DOMAIN f[q]
      BY <1>2 DEF StreamType
    <3>3. DOMAIN f = DOMAIN stream
      OBVIOUS
    <3> HIDE DEF a, b, f
    <3>4. DOMAIN stream' = DOMAIN stream
      BY <3>1, <3>3
    <3>5. \A q \in DOMAIN stream : stream'[q].stage = f[q].stage
      BY <3>1, <3>2, <3>3
    <3> QED
      BY <3>2, <3>4, <3>5
  <2>2. CASE FallsIdle(n, ch)
    BY <2>2 DEF FallsIdle
  <2>3. CASE ChannelEnds(n, ch)
    <3>1. /\ DOMAIN stream' = DOMAIN stream
          /\ \A s \in DOMAIN stream :
                stream'[s] = stream[s] \/ stream'[s] = [stream[s] EXCEPT !.stage = "closed"]
      BY <2>3 DEF ChannelEnds
    <3> QED
      BY <1>2, <3>1 DEF StreamType
  <2> QED
    BY <2>1, <2>2, <2>3
<1> QED
  BY <1>1, <1>3, <1>4, SeenStages
LEMMA SeenDialFails ==
    ASSUME PathInv, StreamsStep, SeenInv, NEW n \in Nodes, NEW m \in Nodes, DialFails(n, m)
    PROVE  SeenInv'
<1> DEFINE unreachable == {k \in pending_requests : route[k].client = n /\ Entry(route[k]) = m}
           given_up == {q \in pending_connections[n] : NextHop(stream[q].packet) = m}
<1>1. /\ UNCHANGED <<swarm, peer_to_connection, cut, route, upgrading, stream>>
      /\ dialing' = [dialing EXCEPT ![n] = @ \ {m}]
      /\ pending_connections' = [pending_connections EXCEPT ![n] = @ \ given_up]
      /\ pending_requests' = pending_requests \ unreachable
  BY DEF DialFails, DialEnds, Fault
<1>2. Numbered'
  <2>1. OnlyNextTries
    BY <1>1 DEF OnlyNextTries
  <2> QED
    BY <2>1, NumberedNext DEF PathInv, SeenInv
<1>3. ConnectionsKnown'
  BY <1>1 DEF SeenInv, ConnectionsKnown, Connected
<1>4. ASSUME NEW x \in Nodes, NEW y, x # n \/ y # m, Dials(x, y) PROVE Dials(x, y)'
  <2>1. y \in dialing[x] /\ peer_to_connection[x][y] = NoConn
    BY <1>4 DEF Dials
  <2>2. y \in dialing'[x]
    <3>1. CASE x = n
      BY <1>1, <1>4, <2>1, <3>1 DEF SeenInv
    <3>2. CASE x # n
      BY <1>1, <2>1, <3>2 DEF SeenInv
    <3> QED
      BY <3>1, <3>2
  <2> QED
    BY <1>1, <2>1, <2>2 DEF Dials
<1>5. ASSUME NEW k \in pending_requests' PROVE RequestSeen(k)'
  <2>1. k \in Paths /\ RequestSeen(k) /\ (route[k].client # n \/ Entry(route[k]) # m)
    BY <1>1 DEF SeenInv, PathInv, ToldInv
  <2>2. Dials(route[k].client, Entry(route[k])) => Dials(route[k].client, Entry(route[k]))'
    <3>1. PICK x \in Nodes, y \in {Entry(route[k])} : x = route[k].client /\ y = Entry(route[k])
      BY <1>1, RouteFacts DEF PathInv, ToldInv
    <3>2. Dials(x, y) => Dials(x, y)'
      BY <1>4, <2>1, <3>1
    <3>3. route'[k] = route[k]
      BY <1>1
    <3> QED
      BY <3>1, <3>2, <3>3 DEF Dials, Entry
  <2> QED
    BY <1>1, <2>1, <2>2, RequestKept DEF PathInv
<1>6. ASSUME NEW x \in Nodes, NEW s \in pending_connections'[x] PROVE RelayedSeen(x, s)'
  <2>1. s \in pending_connections[x] /\ (x # n \/ NextHop(stream[s].packet) # m)
    BY <1>1 DEF PathInv, SlotsInv
  <2>2. s \in DOMAIN stream /\ RelayedSeen(x, s)
    BY <2>1 DEF SeenInv, PathInv, StreamsInv, AllWait, Waits
  <2>3. \A q \in Children(s) : Busy(q) => Busy(q)'
    BY <1>1 DEF Busy
  <2> QED
    BY <1>1, <1>4, <2>1, <2>2, <2>3, RelayedKept DEF PathInv
<1>7. DOMAIN dialing' = Nodes
  BY <1>1 DEF SeenInv
<1> QED
  BY <1>2, <1>3, <1>5, <1>6, <1>7 DEF SeenInv

\* A step that lets in a request, or a stream to be relayed, and sees to it.
LEMMA SeenGrows ==
    ASSUME PathInv, StreamsStep, SeenInv, OnlyNextTries, UNCHANGED <<swarm, peer_to_connection, cut>>,
           DOMAIN dialing' = Nodes, \A n \in Nodes : dialing[n] \subseteq dialing'[n],
           upgrading \subseteq upgrading', \A q \in DOMAIN stream : stream'[q] = stream[q],
           \A k \in pending_requests : route'[k] = route[k],
           \A k \in pending_requests' \ pending_requests : RequestSeen(k)',
           \A n \in Nodes : \A s \in pending_connections'[n] \ pending_connections[n] : RelayedSeen(n, s)'
    PROVE  SeenInv'
<1>1. Numbered'
  BY NumberedNext DEF PathInv, SeenInv
<1>2. ConnectionsKnown'
  BY DEF SeenInv, ConnectionsKnown, Connected
<1>3. \A n \in Nodes : \A m : Dials(n, m) => m \in dialing'[n] /\ peer_to_connection'[n][m] = NoConn
  BY DEF Dials
<1>4. ASSUME NEW k \in pending_requests PROVE RequestSeen(k)'
  <2>1. k \in Paths /\ RequestSeen(k) /\ route'[k] = route[k]
    BY DEF SeenInv, PathInv, ToldInv
  <2>2. Dials(route[k].client, Entry(route[k])) => Dials(route[k].client, Entry(route[k]))'
    <3>1. route[k].client \in Nodes
      BY RouteFacts DEF PathInv, ToldInv
    <3> QED
      BY <1>3, <2>1, <3>1 DEF Dials, Entry
  <2>3. FirstsOf(k) \cap upgrading \subseteq upgrading'
    OBVIOUS
  <2> QED
    BY <2>1, <2>2, <2>3, RequestKept DEF PathInv
<1>5. ASSUME NEW n \in Nodes, NEW s \in pending_connections[n] PROVE RelayedSeen(n, s)'
  <2>1. s \in DOMAIN stream /\ RelayedSeen(n, s)
    BY DEF SeenInv, PathInv, StreamsInv, AllWait, Waits
  <2>2. \A q \in Children(s) : Busy(q) => Busy(q)'
    BY DEF Busy, Children
  <2>3. \A m : Dials(n, m) => Dials(n, m)'
    BY <1>3 DEF Dials
  <2> QED
    BY <2>1, <2>2, <2>3, RelayedKept DEF PathInv
<1> QED
  BY <1>1, <1>2, <1>4, <1>5 DEF SeenInv

\* A peer without a known connection is dialled, or a connection to it was closed.
LEMMA Dialled ==
    ASSUME SeenInv, NEW n \in Nodes, NEW m \in Nodes, peer_to_connection[n][m] = NoConn,
           HandleMissingConnection(n, m), UNCHANGED <<peer_to_connection, cut>>
    PROVE  /\ Dials(n, m)' \/ {n, m} \in cut
           /\ DOMAIN dialing' = Nodes /\ \A x \in Nodes : dialing[x] \subseteq dialing'[x]
<1>1. CASE Connected(n, m)
  BY <1>1 DEF HandleMissingConnection, SeenInv, ConnectionsKnown
<1>2. CASE ~Connected(n, m)
  <2>1. dialing' = [dialing EXCEPT ![n] = @ \cup {m}]
    BY <1>2 DEF HandleMissingConnection
  <2>2. m \in dialing'[n] /\ DOMAIN dialing' = Nodes
    BY <2>1 DEF SeenInv
  <2>3. \A x \in Nodes : dialing[x] \subseteq dialing'[x]
    BY <2>1 DEF SeenInv
  <2> QED
    BY <2>2, <2>3 DEF Dials
<1> QED
  BY <1>1, <1>2
\* One new stream, which is a next try.
LEMMA OneNextTry ==
    ASSUME NEW s, NEW new, stream' = WithStream(s, new),
           IF IsFirst(s) THEN s[1] \in Paths /\ s = FirstStream(s[1])
           ELSE Source(s) \in DOMAIN stream /\ Len(Source(s)[2]) < 3 /\ s = NextStream(Source(s))
    PROVE  /\ OnlyNextTries /\ s \in DOMAIN stream'
           /\ \A q \in DOMAIN stream : stream'[q] = stream[q]
           /\ s \notin DOMAIN stream => stream'[s] = new
<1>1. /\ DOMAIN stream' = DOMAIN stream \cup {s}
      /\ \A q \in DOMAIN stream : stream'[q] = stream[q]
      /\ s \notin DOMAIN stream => stream'[s] = new
  BY DEF WithStream
<1>2. DOMAIN stream' \ DOMAIN stream \subseteq {s}
  BY <1>1
<1>3. OnlyNextTries
  BY <1>2 DEF OnlyNextTries
<1> QED
  BY <1>1, <1>3

LEMMA SeenOpenPath ==
    ASSUME PathInv, StreamsStep, SeenInv, NEW k \in Paths, NEW r \in Routes, OpenPath(k, r)
    PROVE  SeenInv'
<1> DEFINE n == r.client
           m == Entry(r)
           c == peer_to_connection[n][m]
           s == FirstStream(k)
           new == NewStream(m, c, NewInitial(r, s))
<1>1. /\ route[k] = NoRoute /\ route' = [route EXCEPT ![k] = r]
      /\ pending_requests' = pending_requests \cup {k}
      /\ UNCHANGED <<swarm, peer_to_connection, cut, pending_connections>>
      /\ \/ c = NoConn /\ HandleMissingConnection(n, m) /\ UNCHANGED <<stream, upgrading>>
         \/ c = DeadConn /\ stream' = stream /\ upgrading \subseteq upgrading' /\ dialing' = dialing
         \/ stream' = WithStream(s, new) /\ upgrading' = upgrading \cup {s} /\ dialing' = dialing
  <2>1. \/ c = NoConn /\ HandleMissingConnection(n, m) /\ UNCHANGED <<stream, upgrading>>
        \/ /\ stream' = Heard(s, new) /\ dialing' = dialing
           /\ upgrading' = upgrading \cup ({s} \cap DOMAIN stream')
    BY DEF OpenPath
  <2>2. stream' = Heard(s, new) => \/ c = DeadConn /\ stream' = stream
                                   \/ stream' = WithStream(s, new)
    BY HeardFacts
  <2>3. stream' = WithStream(s, new) => s \in DOMAIN stream'
    BY DEF WithStream
  <2>4. /\ route[k] = NoRoute /\ route' = [route EXCEPT ![k] = r]
        /\ pending_requests' = pending_requests \cup {k}
        /\ UNCHANGED <<swarm, peer_to_connection, cut, pending_connections>>
    BY DEF OpenPath, relay
  <2> HIDE DEF s, new, c, n, m
  <2> QED
    BY <2>1, <2>2, <2>3, <2>4
<1>2. n \in Nodes /\ m \in Nodes
  BY RouteFacts DEF Entry
<1>3. route'[k] = r
  BY <1>1 DEF PathInv, ToldInv
<1>4. \A j \in pending_requests : route'[j] = route[j]
  BY <1>1 DEF PathInv, ToldInv
<1>5. \A x \in Nodes : pending_connections'[x] \ pending_connections[x] = {}
  BY <1>1
<1>6. CASE c = NoConn /\ HandleMissingConnection(n, m) /\ UNCHANGED <<stream, upgrading>>
  <2> HIDE DEF n, m
  <2>1. /\ Dials(n, m)' \/ {n, m} \in cut
        /\ DOMAIN dialing' = Nodes /\ \A x \in Nodes : dialing[x] \subseteq dialing'[x]
    BY <1>1, <1>2, <1>6, Dialled
  <2>2. RequestSeen(k)'
    <3>1. route'[k].client = n /\ Entry(route'[k]) = m
      BY <1>3 DEF n, m
    <3>2. Dials(n, m)' \/ {n, m} \in cut'
      BY <1>1, <2>1
    <3>3. (m \in dialing'[n] /\ peer_to_connection'[n][m] = NoConn) \/ {n, m} \in cut'
      BY <3>2 DEF Dials
    <3> QED
      BY <3>1, <3>3 DEF RequestSeen, Dials, Entry
  <2>3. OnlyNextTries
    BY <1>6 DEF OnlyNextTries
  <2>4. \A j \in pending_requests' \ pending_requests : RequestSeen(j)'
    BY <1>1, <2>2
  <2> QED
    BY <1>1, <1>4, <1>5, <1>6, <2>1, <2>3, <2>4, SeenGrows
<1>7. CASE stream' = WithStream(s, new) /\ upgrading' = upgrading \cup {s} /\ dialing' = dialing
  <2>1. IsFirst(s) /\ s[1] = k
    BY FirstStreamFacts DEF PathInv, StreamsInv
  <2>2. s = FirstStream(s[1])
    BY <2>1
  <2> HIDE DEF s, new
  <2>3. OnlyNextTries /\ s \in DOMAIN stream' /\ \A q \in DOMAIN stream : stream'[q] = stream[q]
    BY <1>7, <2>1, <2>2, OneNextTry
  <2>4. s \in FirstsOf(k)' /\ s \in upgrading'
    BY <1>7, <2>1, <2>3 DEF FirstsOf, IsFirst
  <2>5. RequestSeen(k)'
    BY <2>4 DEF RequestSeen
  <2>6. \A j \in pending_requests' \ pending_requests : RequestSeen(j)'
    BY <1>1, <2>5
  <2>7. DOMAIN dialing' = Nodes /\ \A x \in Nodes : dialing[x] \subseteq dialing'[x]
    BY <1>7 DEF SeenInv
  <2> QED
    BY <1>1, <1>4, <1>5, <1>7, <2>3, <2>6, <2>7, SeenGrows
<1>8. CASE c = DeadConn /\ stream' = stream /\ upgrading \subseteq upgrading' /\ dialing' = dialing
  <2>1. {n, m} \in cut'
    BY <1>1, <1>2, <1>8 DEF SeenInv, ConnectionsKnown
  <2>2. RequestSeen(k)'
    <3>1. route'[k].client = n /\ Entry(route'[k]) = m
      BY <1>3
    <3> QED
      BY <2>1, <3>1 DEF RequestSeen, Entry
  <2> HIDE DEF n, m, c, s, new
  <2>3. OnlyNextTries
    BY <1>8 DEF OnlyNextTries
  <2>4. \A j \in pending_requests' \ pending_requests : RequestSeen(j)'
    BY <1>1, <2>2
  <2>5. DOMAIN dialing' = Nodes /\ \A x \in Nodes : dialing[x] \subseteq dialing'[x]
    BY <1>8 DEF SeenInv
  <2> QED
    BY <1>1, <1>4, <1>5, <1>8, <2>3, <2>4, <2>5, SeenGrows
<1> QED
  BY <1>1, <1>6, <1>7, <1>8

LEMMA SeenRelay ==
    ASSUME PathInv, StreamsStep, SeenInv, NEW s \in DOMAIN stream, Relay(s)
    PROVE  SeenInv'
<1> DEFINE n  == stream[s].to
           to == NextHop(stream[s].packet)
           c  == peer_to_connection[n][to]
           t  == NextStream(s)
           new == NewStream(to, c, Peeled(stream[s].packet))
<1>1. /\ NextHop(stream[s].packet) # NoNode
      /\ UNCHANGED <<swarm, peer_to_connection, cut, route, pending_requests, upgrading>>
  BY DEF Relay, client, bounds
<1>2. \/ /\ stream' = stream \/ stream' = [stream EXCEPT ![s].stage = "closed"]
         /\ UNCHANGED <<dialing, pending_connections>>
      \/ /\ pending_connections' = [pending_connections EXCEPT ![n] = @ \cup {s}]
         /\ \/ c = NoConn /\ HandleMissingConnection(n, to) /\ stream' = stream
            \/ c = DeadConn /\ stream' = stream /\ dialing' = dialing
            \/ stream' = WithStream(t, new) /\ dialing' = dialing
  <2>1. stream' = Heard(t, new) => (c = DeadConn /\ stream' = stream) \/ stream' = WithStream(t, new)
    BY HeardFacts
  <2> QED
    BY <2>1 DEF Relay, PushIncomingStream, relay
<1>3. n \in Nodes /\ to \in Nodes /\ Len(s[2]) < 3
  <2>1. /\ s \in StreamIds /\ route[s[1]] \in Routes /\ n = HopOf(s, route[s[1]])
        /\ stream[s].packet = PacketOf(s, route[s[1]])
    BY MadeFacts DEF PathInv, StreamsInv
  <2> QED
    BY <1>1, <2>1, HopFacts
<1>4. CASE /\ stream' = stream \/ stream' = [stream EXCEPT ![s].stage = "closed"]
           /\ UNCHANGED <<dialing, pending_connections>>
  <2>1. DOMAIN stream' = DOMAIN stream
        /\ \A q \in DOMAIN stream : stream'[q].stage = stream[q].stage \/ stream'[q].stage = "closed"
    <3>1. CASE stream' = stream
      BY <3>1
    <3>2. CASE stream' = [stream EXCEPT ![s].stage = "closed"]
      BY <3>2, StageOf DEF PathInv
    <3> QED
      BY <1>4, <3>1, <3>2
  <2>2. \A k \in pending_requests' : FirstsOf(k) \cap upgrading \subseteq upgrading'
    BY <1>1
  <2> QED
    BY <1>1, <1>4, <2>1, <2>2, SeenStages
<1>5. ASSUME pending_connections' = [pending_connections EXCEPT ![n] = @ \cup {s}], RelayedSeen(n, s)',
             OnlyNextTries, DOMAIN dialing' = Nodes, \A x \in Nodes : dialing[x] \subseteq dialing'[x],
             \A q \in DOMAIN stream : stream'[q] = stream[q]
      PROVE  SeenInv'
  <2>1. PICK x : x = n
    OBVIOUS
  <2>2. RelayedSeen(x, s)'
    <3>1. n' = n
      BY <1>5
    <3> QED
      BY <1>5, <2>1, <3>1 DEF RelayedSeen, Dials
  <2>3. \A y \in Nodes : \A q \in pending_connections'[y] \ pending_connections[y] : y = x /\ q = s
    BY <1>5, <2>1 DEF PathInv, SlotsInv
  <2>4. \A y \in Nodes : \A q \in pending_connections'[y] \ pending_connections[y] : RelayedSeen(y, q)'
    BY <2>2, <2>3
  <2>5. \A k \in pending_requests' \ pending_requests : RequestSeen(k)'
    BY <1>1
  <2> QED
    BY <1>1, <1>5, <2>4, <2>5, SeenGrows
<1>6. CASE /\ pending_connections' = [pending_connections EXCEPT ![n] = @ \cup {s}]
           /\ c = NoConn /\ HandleMissingConnection(n, to) /\ stream' = stream
  <2>1. PICK x \in Nodes, y \in Nodes : x = n /\ y = to
    BY <1>3
  <2>2. HandleMissingConnection(x, y) /\ peer_to_connection[x][y] = NoConn
    BY <1>6, <2>1
  <2>3. /\ Dials(x, y)' \/ {x, y} \in cut
        /\ DOMAIN dialing' = Nodes /\ \A z \in Nodes : dialing[z] \subseteq dialing'[z]
    BY <1>1, <2>2, Dialled
  <2>4. RelayedSeen(n, s)'
    BY <1>1, <1>6, <2>1, <2>3 DEF RelayedSeen, Dials
  <2>5. OnlyNextTries
    BY <1>6 DEF OnlyNextTries
  <2> QED
    BY <1>5, <1>6, <2>3, <2>4, <2>5
<1>7. CASE /\ pending_connections' = [pending_connections EXCEPT ![n] = @ \cup {s}]
           /\ stream' = WithStream(t, new) /\ dialing' = dialing
  <2>1. ~IsFirst(t) /\ Source(t) = s
    BY <1>3, NextStreamFacts DEF PathInv, StreamsInv
  <2>2. t = NextStream(Source(t)) /\ Source(t) \in DOMAIN stream /\ Len(Source(t)[2]) < 3
    BY <1>3, <2>1
  <2>3. t \notin DOMAIN stream
    BY <1>3, NextFresh DEF PathInv, SeenInv
  <2>4. new.stage = "asked"
    BY DEF NewStream
  <2> HIDE DEF t, new
  <2>5. OnlyNextTries /\ t \in DOMAIN stream' /\ stream'[t] = new
        /\ \A q \in DOMAIN stream : stream'[q] = stream[q]
    BY <1>7, <2>1, <2>2, <2>3, OneNextTry
  <2>6. PICK child : child = t
    OBVIOUS
  <2>7. child \in Children(s)' /\ Busy(child)'
    BY <2>1, <2>4, <2>5, <2>6 DEF Children, Busy, IsFirst, Source
  <2>8. RelayedSeen(n, s)'
    BY <2>7 DEF RelayedSeen
  <2>9. DOMAIN dialing' = Nodes /\ \A x \in Nodes : dialing[x] \subseteq dialing'[x]
    BY <1>7 DEF SeenInv
  <2> QED
    BY <1>5, <1>7, <2>5, <2>8, <2>9
<1>8. CASE /\ pending_connections' = [pending_connections EXCEPT ![n] = @ \cup {s}]
           /\ c = DeadConn /\ stream' = stream /\ dialing' = dialing
  <2>1. {n, to} \in cut'
    BY <1>1, <1>3, <1>8 DEF SeenInv, ConnectionsKnown
  <2>2. RelayedSeen(n, s)'
    BY <1>8, <2>1 DEF RelayedSeen
  <2>3. OnlyNextTries
    BY <1>8 DEF OnlyNextTries
  <2>4. DOMAIN dialing' = Nodes /\ \A x \in Nodes : dialing[x] \subseteq dialing'[x]
    BY <1>8 DEF SeenInv
  <2> QED
    BY <1>5, <1>8, <2>2, <2>3, <2>4
<1> QED
  BY <1>2, <1>4, <1>6, <1>7, <1>8
LEMMA AddedNextTry ==
    ASSUME PathInv, NEW n \in Nodes, NEW m \in Nodes, NEW s \in Added(n, m)
    PROVE  IF IsFirst(s) THEN s[1] \in Paths /\ s = FirstStream(s[1])
           ELSE Source(s) \in DOMAIN stream /\ Len(Source(s)[2]) < 3 /\ s = NextStream(Source(s))
<1>1. s \in RelayedWaiting(n, m) \/ s \in RequestsWaiting(n, m)
  BY DEF Added, Waiting
<1>2. CASE s \in RelayedWaiting(n, m)
  <2>1. PICK q \in pending_connections[n] : s = NextStream(q)
    BY <1>2 DEF RelayedWaiting
  <2>2. q \in DOMAIN stream /\ Len(q[2]) < 3
    BY DEF PathInv, StreamsInv, AllWait, Waits
  <2>3. ~IsFirst(s) /\ Source(s) = q
    BY <2>1, <2>2, NextStreamFacts DEF PathInv, StreamsInv
  <2> QED
    BY <2>1, <2>2, <2>3
<1>3. CASE s \in RequestsWaiting(n, m)
  <2>1. PICK k \in pending_requests : s = FirstStream(k)
    BY <1>3 DEF RequestsWaiting
  <2>2. k \in Paths
    BY DEF PathInv, ToldInv
  <2>3. IsFirst(s) /\ s[1] = k
    BY <2>1, <2>2, FirstStreamFacts DEF PathInv, StreamsInv
  <2> QED
    BY <2>1, <2>2, <2>3
<1> QED
  BY <1>1, <1>2, <1>3

\* All that waits for a peer that was not connected gets a stream when it is.
LEMMA SeenEstablish ==
    ASSUME PathInv, StreamsStep, SeenInv, NEW n \in Nodes, NEW m \in Nodes, NEW c \in Conns,
           Establish(n, m, c), cut' = cut,
           dialing' = dialing \/ dialing' = [dialing EXCEPT ![n] = @ \ {m}]
    PROVE  SeenInv'
<1> DEFINE N == Added(n, m) \cup Added(m, n)
<1>1. /\ n # m /\ swarm' = swarm \cup {<<{n, m}, c>>}
      /\ UNCHANGED <<route, pending_requests, pending_connections>>
      /\ peer_to_connection' = [peer_to_connection EXCEPT ![n][m] = Kept(n, m, c),
                                                          ![m][n] = Kept(m, n, c)]
      /\ upgrading' = upgrading \cup {s \in DOMAIN stream' \ DOMAIN stream : IsFirst(s)}
  BY DEF Establish, relay
<1>2. /\ DOMAIN stream' = DOMAIN stream \cup N
      /\ \A s \in DOMAIN stream : stream'[s] = stream[s]
      /\ \A s \in N \ DOMAIN stream :
            stream'[s] = IF s \in Added(n, m) THEN Asked(s, m, c) ELSE Asked(s, n, c)
  BY DEF Establish
<1>3. \A s \in N \ DOMAIN stream : stream'[s].stage = "asked"
  <2>1. \A s : Asked(s, m, c).stage = "asked" /\ Asked(s, n, c).stage = "asked"
    BY DEF Asked, NewStream
  <2> HIDE DEF N
  <2> QED
    BY <1>2, <2>1
<1>4. OnlyNextTries
  BY <1>2, AddedNextTry DEF OnlyNextTries
<1>5. Numbered'
  BY <1>4, NumberedNext DEF PathInv, SeenInv
<1>6. peer_to_connection \in [Nodes -> [Nodes -> Conns \cup {NoConn, DeadConn}]]
  BY DEF PathInv, StreamsInv
<1>7. /\ Kept(n, m, c) # NoConn /\ Kept(m, n, c) # NoConn
      /\ Kept(n, m, c) = DeadConn => peer_to_connection[n][m] = DeadConn
      /\ Kept(m, n, c) = DeadConn => peer_to_connection[m][n] = DeadConn
  BY DEF Kept, Conns, NoConn, DeadConn
<1>8. /\ peer_to_connection'[n][m] # NoConn /\ peer_to_connection'[m][n] # NoConn
      /\ peer_to_connection'[n][m] = DeadConn => peer_to_connection[n][m] = DeadConn
      /\ peer_to_connection'[m][n] = DeadConn => peer_to_connection[m][n] = DeadConn
  BY <1>1, <1>6, <1>7
<1>9. ASSUME NEW x \in Nodes, NEW y \in Nodes, {x, y} # {n, m}
      PROVE  peer_to_connection'[x][y] = peer_to_connection[x][y]
  BY <1>1, <1>6, <1>9
<1>10. ConnectionsKnown'
  <2>1. ASSUME NEW x \in Nodes, NEW y \in Nodes, Connected(x, y)', peer_to_connection'[x][y] = NoConn
        PROVE  {x, y} \in cut'
    <3>1. {x, y} # {n, m}
      BY <1>8, <2>1
    <3>2. peer_to_connection[x][y] = NoConn
      BY <1>9, <2>1, <3>1
    <3>3. Connected(x, y)
      BY <1>1, <2>1, <3>1 DEF Connected
    <3> QED
      BY <3>2, <3>3 DEF SeenInv, ConnectionsKnown
  <2>2. ASSUME NEW x \in Nodes, NEW y \in Nodes, peer_to_connection'[x][y] = DeadConn
        PROVE  {x, y} \in cut'
    <3>1. peer_to_connection[x][y] = DeadConn
      <4>1. CASE {x, y} # {n, m}
        BY <1>9, <2>2, <4>1
      <4>2. CASE {x, y} = {n, m}
        BY <1>8, <2>2, <4>2
      <4> QED
        BY <4>1, <4>2
    <3> QED
      BY <3>1 DEF SeenInv, ConnectionsKnown
  <2> QED
    BY <2>1, <2>2 DEF ConnectionsKnown
<1>11. ASSUME NEW x \in Nodes, NEW y \in Nodes, {x, y} # {n, m}, Dials(x, y)
       PROVE  Dials(x, y)'
  <2>1. y \in dialing[x] /\ peer_to_connection'[x][y] = NoConn
    BY <1>9, <1>11 DEF Dials
  <2>2. x # n \/ y # m
    BY <1>11
  <2>3. y \in dialing'[x]
    BY <2>1, <2>2 DEF SeenInv
  <2> QED
    BY <2>1, <2>3 DEF Dials
<1>12. ASSUME NEW k \in pending_requests PROVE RequestSeen(k)'
  <2>1. k \in Paths /\ RequestSeen(k) /\ route[k] \in Routes /\ route'[k] = route[k]
    BY <1>1 DEF SeenInv, PathInv, ToldInv
  <2>2. PICK x \in Nodes, y \in Nodes : x = route[k].client /\ y = Entry(route[k])
    BY <2>1, RouteFacts DEF Entry
  <2>3. CASE Dials(x, y) /\ {x, y} = {n, m}
    <3>1. FirstStream(k) \in Added(x, y)
      BY <2>2, <2>3 DEF Dials, Added, Waiting, RequestsWaiting
    <3>2. FirstStream(k) \in N
      BY <2>3, <3>1
    <3>3. FirstStream(k) \notin DOMAIN stream
      BY <2>1, FirstFresh DEF PathInv, SeenInv
    <3>4. IsFirst(FirstStream(k)) /\ FirstStream(k)[1] = k
      BY <2>1, FirstStreamFacts DEF PathInv, StreamsInv
    <3>5. PICK s : s = FirstStream(k)
      OBVIOUS
    <3> HIDE DEF N
    <3>6. s \in FirstsOf(k)' /\ s \in upgrading'
      BY <1>1, <1>2, <3>2, <3>3, <3>4, <3>5 DEF FirstsOf, IsFirst
    <3> QED
      BY <3>6 DEF RequestSeen
  <2>4. CASE ~ (Dials(x, y) /\ {x, y} = {n, m})
    <3>1. Dials(x, y) => Dials(x, y)'
      BY <1>11, <2>4
    <3>2. Dials(route[k].client, Entry(route[k])) => Dials(route[k].client, Entry(route[k]))'
      BY <2>1, <2>2, <3>1 DEF Dials, Entry
    <3>3. FirstsOf(k) \cap upgrading \subseteq upgrading'
      BY <1>1
    <3> QED
      BY <2>1, <3>2, <3>3, RequestKept DEF PathInv
  <2> QED
    BY <2>3, <2>4
<1>13. ASSUME NEW x \in Nodes, NEW s \in pending_connections[x] PROVE RelayedSeen(x, s)'
  <2>1. s \in DOMAIN stream /\ Len(s[2]) < 3 /\ RelayedSeen(x, s) /\ stream[s].to = x
    BY DEF SeenInv, PathInv, StreamsInv, AllWait, Waits
  <2>2. PICK y \in Nodes : y = NextHop(stream[s].packet)
    <3>1. /\ s \in StreamIds /\ route[s[1]] \in Routes /\ stream[s].packet = PacketOf(s, route[s[1]])
      BY <2>1, MadeFacts DEF PathInv, StreamsInv
    <3> QED
      BY <2>1, <3>1, HopFacts
  <2>3. CASE Dials(x, y) /\ {x, y} = {n, m}
    <3> DEFINE t == NextStream(s)
    <3>1. t \in Added(x, y)
      BY <2>2, <2>3 DEF Dials, Added, Waiting, RelayedWaiting
    <3>2. t \in N
      BY <2>3, <3>1
    <3>3. t \notin DOMAIN stream
      BY <2>1, NextFresh DEF PathInv, SeenInv
    <3>4. ~IsFirst(t) /\ Source(t) = s
      BY <2>1, NextStreamFacts DEF PathInv, StreamsInv
    <3> HIDE DEF N, t
    <3>5. PICK child : child = t
      OBVIOUS
    <3>6. child \in Children(s)' /\ Busy(child)'
      BY <1>2, <1>3, <3>2, <3>3, <3>4, <3>5 DEF Children, Busy, IsFirst, Source
    <3> QED
      BY <3>6 DEF RelayedSeen
  <2>4. CASE ~ (Dials(x, y) /\ {x, y} = {n, m})
    <3>1. \A z : z = NextHop(stream[s].packet) /\ Dials(x, z) => Dials(x, z)'
      BY <1>11, <2>2, <2>4
    <3>2. \A q \in Children(s) : Busy(q) => Busy(q)'
      BY <1>2 DEF Busy, Children
    <3> QED
      BY <2>1, <3>1, <3>2, RelayedKept DEF PathInv
  <2> QED
    BY <2>3, <2>4
<1>14. DOMAIN dialing' = Nodes
  BY DEF SeenInv
<1> QED
  BY <1>1, <1>5, <1>10, <1>12, <1>13, <1>14 DEF SeenInv

\* A stream that a closed connection takes away leaves a pair of nodes that was cut.
LEMMA SeenClosed ==
    ASSUME PathInv, StreamsStep, SeenInv, NEW n \in Nodes, NEW m \in Nodes, NEW c \in Conns,
           ConnectionClosed(n, m, c)
    PROVE  SeenInv'
<1> DEFINE gone == {s \in DOMAIN stream : stream[s].conn = c /\ {Opener(s), stream[s].to} = {n, m}}
<1>1. /\ UNCHANGED <<dialing, route, pending_requests, pending_connections>>
      /\ cut' = cut \cup {{n, m}} /\ swarm' = swarm \ {<<{n, m}, c>>}
      /\ DOMAIN stream' = DOMAIN stream /\ upgrading' = upgrading \ gone
      /\ \A s \in DOMAIN stream : s \notin gone => stream'[s] = stream[s]
      /\ peer_to_connection' = [peer_to_connection EXCEPT ![n][m] = NoConn, ![m][n] = NoConn]
  BY DEF ConnectionClosed, relay
<1>2. \A s \in gone : {Opener(s), stream[s].to} \in cut'
  BY <1>1
<1>3. gone \subseteq DOMAIN stream
  OBVIOUS
<1> HIDE DEF gone
<1>4. Numbered'
  <2>1. OnlyNextTries
    BY <1>1 DEF OnlyNextTries
  <2> QED
    BY <2>1, NumberedNext DEF PathInv, SeenInv
<1>5. peer_to_connection \in [Nodes -> [Nodes -> Conns \cup {NoConn, DeadConn}]]
  BY DEF PathInv, StreamsInv
<1>6. \A x, y \in Nodes : \/ peer_to_connection'[x][y] = peer_to_connection[x][y]
                          \/ peer_to_connection'[x][y] = NoConn /\ {x, y} = {n, m}
  BY <1>1, <1>5
<1>7. ConnectionsKnown'
  <2> SUFFICES ASSUME NEW x \in Nodes, NEW y \in Nodes,
                      \/ Connected(x, y)' /\ peer_to_connection'[x][y] = NoConn
                      \/ peer_to_connection'[x][y] = DeadConn
               PROVE  {x, y} \in cut'
    BY DEF ConnectionsKnown
  <2>1. Connected(x, y)' => Connected(x, y)
    BY <1>1 DEF Connected
  <2>2. CASE peer_to_connection'[x][y] = peer_to_connection[x][y]
    BY <1>1, <2>1, <2>2 DEF SeenInv, ConnectionsKnown
  <2>3. CASE {x, y} = {n, m}
    BY <1>1, <2>3
  <2> QED
    BY <1>6, <2>2, <2>3
<1>8. ASSUME NEW x \in Nodes, NEW y \in Nodes, Dials(x, y) PROVE Dials(x, y)'
  BY <1>1, <1>6, <1>8 DEF Dials
<1>9. ASSUME NEW k \in pending_requests PROVE RequestSeen(k)'
  <2>1. k \in Paths /\ RequestSeen(k) /\ route[k] \in Routes /\ route'[k] = route[k]
    BY <1>1 DEF SeenInv, PathInv, ToldInv
  <2>2. CASE FirstsOf(k) \cap upgrading \subseteq upgrading'
    <3>1. PICK x \in Nodes, y \in Nodes : x = route[k].client /\ y = Entry(route[k])
      BY <2>1, RouteFacts DEF Entry
    <3>2. Dials(x, y) => Dials(x, y)'
      BY <1>8
    <3>3. Dials(route[k].client, Entry(route[k])) => Dials(route[k].client, Entry(route[k]))'
      BY <2>1, <3>1, <3>2 DEF Dials, Entry
    <3>4. cut \subseteq cut'
      BY <1>1
    <3> QED
      BY <2>1, <2>2, <3>3, <3>4, RequestKept DEF PathInv
  <2>3. CASE ~ (FirstsOf(k) \cap upgrading \subseteq upgrading')
    <3>1. PICK s \in FirstsOf(k) : s \in gone
      BY <1>1, <2>3
    <3>2. s \in DOMAIN stream /\ IsFirst(s) /\ s[1] = k
      BY DEF FirstsOf
    <3>3. stream[s].to = HopOf(s, route[k])
      BY <3>2, MadeFacts DEF PathInv, StreamsInv
    <3>4. HopOf(s, route[k]) = Entry(route[k])
      BY <3>2 DEF HopOf, Entry, IsFirst
    <3>5. Opener(s) = route[k].client
      BY <3>2 DEF Opener
    <3>6. {route[k].client, Entry(route[k])} \in cut'
      BY <1>2, <3>1, <3>3, <3>4, <3>5
    <3> QED
      BY <2>1, <3>6 DEF RequestSeen, Entry
  <2> QED
    BY <2>2, <2>3
<1>10. ASSUME NEW x \in Nodes, NEW s \in pending_connections[x] PROVE RelayedSeen(x, s)'
  <2>1. s \in DOMAIN stream /\ Len(s[2]) < 3 /\ RelayedSeen(x, s) /\ stream[s].to = x
    BY DEF SeenInv, PathInv, StreamsInv, AllWait, Waits
  <2>2. /\ s \in StreamIds /\ route[s[1]] \in Routes /\ stream[s].packet = PacketOf(s, route[s[1]])
    BY <2>1, MadeFacts DEF PathInv, StreamsInv
  <2>3. CASE \A q \in Children(s) : q \notin gone
    <3>1. \A q \in Children(s) : Busy(q) => Busy(q)'
      BY <1>1, <2>3 DEF Busy, Children
    <3>2. NextHop(stream[s].packet) \in Nodes
      BY <2>1, <2>2, HopFacts
    <3>3. \A z : z = NextHop(stream[s].packet) /\ Dials(x, z) => Dials(x, z)'
      BY <1>8, <3>2
    <3>4. cut \subseteq cut'
      BY <1>1
    <3> QED
      BY <2>1, <3>1, <3>3, <3>4, RelayedKept DEF PathInv
  <2>4. ASSUME NEW q \in Children(s), q \in gone PROVE RelayedSeen(x, s)'
    <3>1. q \in DOMAIN stream /\ ~IsFirst(q) /\ Source(q) = s
      BY DEF Children
    <3>2. q \in StreamIds /\ stream[q].to = HopOf(q, route[q[1]])
      BY <3>1, MadeFacts DEF PathInv, StreamsInv
    <3>3. Opener(q) = x
      BY <2>1, <3>1 DEF Opener
    <3>4. s[1] = q[1] /\ Len(s[2]) = Len(q[2]) - 1 /\ s[2][1] = q[2][1] /\ Len(q[2]) \in {1, 2, 3}
      BY <3>1, <3>2, IdFacts
    <3>5. Len(q[2]) = Len(s[2]) + 1
      BY <3>4
    <3>6. NextHop(PacketOf(s, route[s[1]])) = HopOf(q, route[s[1]])
      BY <2>1, <2>2, <3>2, <3>4, <3>5, PeeledFacts
    <3>7. NextHop(stream[s].packet) = stream[q].to
      BY <2>2, <3>2, <3>4, <3>6
    <3>8. {x, NextHop(stream[s].packet)} \in cut'
      BY <1>2, <2>4, <3>3, <3>7
    <3>9. stream'[s].packet = stream[s].packet
      BY <2>1, KeptHops DEF PathInv
    <3> QED
      BY <3>8, <3>9 DEF RelayedSeen
  <2> QED
    BY <2>3, <2>4
<1>11. DOMAIN dialing' = Nodes
  BY <1>1 DEF SeenInv
<1> QED
  BY <1>1, <1>4, <1>7, <1>9, <1>10, <1>11 DEF SeenInv

\* n stops to dial m, without a connection: what waited for it is left to somebody else.
LEMMA SeenUndialled ==
    ASSUME PathInv, StreamsStep, SeenInv, NEW n \in Nodes, NEW m \in Nodes,
           UNCHANGED <<swarm, route, pending_requests, pending_connections, upgrading, stream>>,
           dialing' = [dialing EXCEPT ![n] = @ \ {m}], cut \subseteq cut',
           \A x, y \in Nodes : peer_to_connection'[x][y] = peer_to_connection[x][y] \/ {x, y} \in cut',
           Waiting(n, m) # {} => {n, m} \in cut'
    PROVE  SeenInv'
<1>1. Numbered'
  <2>1. OnlyNextTries
    BY DEF OnlyNextTries
  <2> QED
    BY <2>1, NumberedNext DEF PathInv, SeenInv
<1>2. ConnectionsKnown'
  <2> SUFFICES ASSUME NEW x \in Nodes, NEW y \in Nodes,
                      \/ Connected(x, y)' /\ peer_to_connection'[x][y] = NoConn
                      \/ peer_to_connection'[x][y] = DeadConn,
                      peer_to_connection'[x][y] = peer_to_connection[x][y]
               PROVE  {x, y} \in cut'
    BY DEF ConnectionsKnown
  <2>1. Connected(x, y)' => Connected(x, y)
    BY DEF Connected
  <2> QED
    BY <2>1 DEF SeenInv, ConnectionsKnown
<1>3. ASSUME NEW x \in Nodes, NEW y \in Nodes, x # n \/ y # m, Dials(x, y), {x, y} \notin cut'
      PROVE  Dials(x, y)'
  <2>1. y \in dialing[x] /\ peer_to_connection'[x][y] = NoConn
    BY <1>3 DEF Dials
  <2>2. y \in dialing'[x]
    BY <1>3, <2>1 DEF SeenInv
  <2> QED
    BY <2>1, <2>2 DEF Dials
<1>4. ASSUME NEW k \in pending_requests PROVE RequestSeen(k)'
  <2>1. k \in Paths /\ RequestSeen(k) /\ route[k] \in Routes /\ route'[k] = route[k]
    BY DEF SeenInv, PathInv, ToldInv
  <2>2. PICK x \in Nodes, y \in Nodes : x = route[k].client /\ y = Entry(route[k])
    BY <2>1, RouteFacts DEF Entry
  <2>3. CASE {x, y} \in cut'
    BY <2>1, <2>2, <2>3 DEF RequestSeen, Entry
  <2>4. CASE {x, y} \notin cut'
    <3>1. x # n \/ y # m
      <4>1. x = n /\ y = m => FirstStream(k) \in Waiting(n, m)
        BY <2>2 DEF Waiting, RequestsWaiting
      <4> QED
        BY <2>4, <4>1
    <3>2. Dials(x, y) => Dials(x, y)'
      BY <1>3, <2>4, <3>1
    <3>3. Dials(route[k].client, Entry(route[k])) => Dials(route[k].client, Entry(route[k]))'
      BY <2>1, <2>2, <3>2 DEF Dials, Entry
    <3>4. FirstsOf(k) \cap upgrading \subseteq upgrading'
      OBVIOUS
    <3> QED
      BY <2>1, <3>3, <3>4, RequestKept DEF PathInv
  <2> QED
    BY <2>3, <2>4
<1>5. ASSUME NEW x \in Nodes, NEW s \in pending_connections[x] PROVE RelayedSeen(x, s)'
  <2>1. s \in DOMAIN stream /\ Len(s[2]) < 3 /\ RelayedSeen(x, s)
    BY DEF SeenInv, PathInv, StreamsInv, AllWait, Waits
  <2>2. PICK y \in Nodes : y = NextHop(stream[s].packet)
    <3>1. /\ s \in StreamIds /\ route[s[1]] \in Routes /\ stream[s].packet = PacketOf(s, route[s[1]])
      BY <2>1, MadeFacts DEF PathInv, StreamsInv
    <3> QED
      BY <2>1, <3>1, HopFacts
  <2>3. CASE {x, y} \in cut'
    BY <2>2, <2>3 DEF RelayedSeen
  <2>4. CASE {x, y} \notin cut'
    <3>1. x # n \/ y # m
      <4>1. x = n /\ y = m => NextStream(s) \in Waiting(n, m)
        BY <2>2 DEF Waiting, RelayedWaiting
      <4> QED
        BY <2>4, <4>1
    <3>2. \A z : z = NextHop(stream[s].packet) /\ Dials(x, z) => Dials(x, z)'
      BY <1>3, <2>2, <2>4, <3>1
    <3>3. \A q \in Children(s) : Busy(q) => Busy(q)'
      BY DEF Busy
    <3> QED
      BY <2>1, <3>2, <3>3, RelayedKept DEF PathInv
  <2> QED
    BY <2>3, <2>4
<1>6. DOMAIN dialing' = Nodes
  BY DEF SeenInv
<1> QED
  BY <1>1, <1>2, <1>4, <1>5, <1>6 DEF SeenInv

\* What other behaviours do.
LEMMA SeenOther ==
    ASSUME PathInv, StreamsStep, SeenInv, NEW n \in Nodes, NEW m \in Nodes,
           Denied(n, m) \/ OtherDials(n, m) \/ OtherDialFails(n, m)
    PROVE  SeenInv'
<1>1. UNCHANGED <<swarm, route, pending_requests, pending_connections, upgrading, stream>>
  BY DEF Denied, OtherDials, OtherDialFails, client, relay
<1>2. peer_to_connection \in [Nodes -> [Nodes -> Conns \cup {NoConn, DeadConn}]]
  BY DEF PathInv, StreamsInv
<1>3. CASE Denied(n, m)
  <2>1. dialing' = [dialing EXCEPT ![n] = @ \ {m}] /\ cut' = cut \cup {{n, m}}
    BY <1>3 DEF Denied, DialEnds
  <2>2. peer_to_connection' = [peer_to_connection EXCEPT ![n][m] = NoConn,
                                  ![m][n] = IF @ = NoConn THEN DeadConn ELSE @]
    BY <1>3 DEF Denied
  <2>3. \A x, y \in Nodes : peer_to_connection'[x][y] = peer_to_connection[x][y] \/ {x, y} = {n, m}
    BY <1>2, <2>2
  <2> QED
    BY <1>1, <2>1, <2>3, SeenUndialled
<1>4. CASE OtherDialFails(n, m)
  BY <1>1, <1>4, SeenUndialled DEF OtherDialFails, DialEnds
<1>5. CASE OtherDials(n, m)
  <2>1. dialing' = [dialing EXCEPT ![n] = @ \cup {m}] /\ UNCHANGED <<peer_to_connection, cut>>
    BY <1>5 DEF OtherDials
  <2>2. DOMAIN dialing' = Nodes /\ \A x \in Nodes : dialing[x] \subseteq dialing'[x]
    BY <2>1 DEF SeenInv
  <2>3. OnlyNextTries
    BY <1>1 DEF OnlyNextTries
  <2> QED
    BY <1>1, <2>1, <2>2, <2>3, SeenGrows
<1> QED
  BY <1>3, <1>4, <1>5

LEMMA SeenNext ==
    ASSUME PathInv, SeenInv, [Next]_vars
    PROVE  SeenInv'
<1>1. StreamsStep
  BY StreamsNext DEF PathInv
<1>2. ASSUME NEW k \in Paths, NEW r \in Routes, OpenPath(k, r) PROVE SeenInv'
  BY <1>1, <1>2, SeenOpenPath
<1>3. ASSUME NEW n \in Nodes, NEW m \in Nodes, DialFails(n, m) PROVE SeenInv'
  BY <1>1, <1>3, SeenDialFails
<1>4. ASSUME NEW n \in Nodes, NEW m \in Nodes, NEW c \in Conns,
             DialSucceeds(n, m, c) \/ OtherConnects(n, m, c)
      PROVE  SeenInv'
  BY <1>1, <1>4, SeenEstablish DEF DialSucceeds, OtherConnects, DialEnds, bounds
<1>5. ASSUME NEW n \in Nodes, NEW m \in Nodes, NEW c \in Conns, ConnectionClosed(n, m, c)
      PROVE  SeenInv'
  BY <1>1, <1>5, SeenClosed
<1>6. ASSUME NEW s \in DOMAIN stream, WriteRequest(s) \/ ReadAnswer(s) \/ UpgradeFails(s) PROVE SeenInv'
  BY <1>1, <1>6, SeenClient
<1>7. ASSUME NEW s \in DOMAIN stream, Relay(s) \/ Arrive(s) \/ NewChannel(s) \/ RelayUpgradeFails(s)
      PROVE  SeenInv'
  BY <1>1, <1>7, SeenRelay, SeenArrive, SeenNewChannel
<1>8. ASSUME NEW n \in Nodes, NEW e \in error_streams[n], WriteError(n, e) PROVE SeenInv'
  BY <1>1, <1>8, SeenWriteError
<1>9. ASSUME NEW n \in Nodes, NEW ch \in router[n],
             Forward(n, ch) \/ FallsIdle(n, ch) \/ ChannelEnds(n, ch)
      PROVE  SeenInv'
  BY <1>1, <1>9, SeenChannel
<1>10. CASE UNCHANGED vars
  <2>1. UNCHANGED <<swarm, dialing, peer_to_connection, cut, route, pending_connections,
                    pending_requests, upgrading, stream>>
    BY <1>10 DEF vars, conn, client, relay, bounds
  <2>2. \A k \in pending_requests' : FirstsOf(k) \cap upgrading \subseteq upgrading'
    BY <2>1
  <2> QED
    BY <1>1, <2>1, <2>2, SeenStages
<1>11. ASSUME NEW n \in Nodes, NEW m \in Nodes, Denied(n, m) \/ OtherDials(n, m) \/ OtherDialFails(n, m)
       PROVE  SeenInv'
  BY <1>1, <1>11, SeenOther
<1> QED
  BY <1>2, <1>3, <1>4, <1>5, <1>6, <1>7, <1>8, <1>9, <1>10, <1>11 DEF Next

\* Nothing waits for a peer without anything being under way for it (handle_missing_connection,
\* add_connection): the peer is dialled or a stream to it asked for, up to the exceptions of the
\* code that NothingForgotten names.
THEOREM NothingForgottenHolds == Spec => []NothingForgotten
<1>1. SeenInv => NothingForgotten
  BY DEF SeenInv, RequestSeen, RelayedSeen, Dials, Busy, NothingForgotten
<1>2. SeenInv /\ PathInv /\ [Next]_vars => SeenInv'
  BY SeenNext
<1> QED
  BY <1>1, <1>2, SeenInit, PathInvHolds, PTL DEF Spec
=============================================================================
