------------------------------ MODULE RpcProofs ------------------------------
(***************************************************************************)
(* Proofs about Streaming and Rpc, for any number of peers, connections,   *)
(* requests and faults.                                                    *)
(*                                                                         *)
(* StreamsAccounted is inductive once the types are known and once it is   *)
(* known that a peer without a connection to ask has no entry in           *)
(* stream_requests: that a closed connection hands at most one kind of     *)
(* entry back to dialling is what keeps the count of a dial right.         *)
(* WrittenOnce needs to know that what waits was never written.            *)
(***************************************************************************)
EXTENDS Rpc, FiniteSetTheorems, SequenceTheorems, TLAPS

-----------------------------------------------------------------------------
(* Counting entries and events *)

Counts == [Conns -> Nat]

Entries(counts) == UNION {{c} \X (1 .. counts[c]) : c \in Conns}

\* Finitely many connections have finitely many entries.
LEMMA EntriesFinite ==
    ASSUME NEW f \in Counts
    PROVE  IsFiniteSet(Entries(f)) /\ Total(f) \in Nat
<1> DEFINE T == {{c} \X (1 .. f[c]) : c \in Conns}
           g == [c \in Conns |-> {c} \X (1 .. f[c])]
<1>1. g \in Surjection(Conns, T)
  BY DEF Surjection
<1>2. IsFiniteSet(T)
  BY <1>1, FS_Surjection, StreamingAssumption
<1>3. ASSUME NEW c \in Conns PROVE IsFiniteSet({c} \X (1 .. f[c]))
  <2>1. f[c] \in Int
    BY DEF Counts
  <2>2. IsFiniteSet({c})
    BY FS_Singleton
  <2>3. IsFiniteSet(1 .. f[c])
    BY <2>1, FS_Interval
  <2> QED
    BY <2>2, <2>3, FS_Product
<1>4. IsFiniteSet(UNION T)
  BY <1>2, <1>3, FS_UNION
<1> QED
  BY <1>4, FS_CardinalityType DEF Entries, Total

\* The entries of one connection, and those of the others.
LEMMA TotalSplit ==
    ASSUME NEW f \in Counts, NEW c \in Conns
    PROVE  Total(f) = Total([f EXCEPT ![c] = 0]) + f[c]
<1> DEFINE z == [f EXCEPT ![c] = 0]
           E == {c} \X (1 .. f[c])
<1>1. z \in Counts /\ f[c] \in Nat
  BY DEF Counts
<1>2. Entries(f) = Entries(z) \cup E
  <2>1. \A d \in Conns : d # c => z[d] = f[d]
    BY DEF Counts
  <2>2. z[c] = 0
    BY DEF Counts
  <2> HIDE DEF z
  <2>3. ASSUME NEW e \in Entries(f) PROVE e \in Entries(z) \cup E
    <3>1. PICK d \in Conns : e \in {d} \X (1 .. f[d])
      BY DEF Entries
    <3> QED
      BY <2>1, <3>1 DEF Entries
  <2>4. ASSUME NEW e \in Entries(z) PROVE e \in Entries(f)
    <3>1. PICK d \in Conns : e \in {d} \X (1 .. z[d])
      BY DEF Entries
    <3>2. d # c
      BY <2>2, <3>1
    <3> QED
      BY <2>1, <3>1, <3>2 DEF Entries
  <2>5. E \subseteq Entries(f)
    BY DEF Entries
  <2> QED
    BY <2>3, <2>4, <2>5
<1>3. Entries(z) \cap E = {}
  <2>1. z[c] = 0
    BY DEF Counts
  <2> HIDE DEF z
  <2>2. ASSUME NEW e \in Entries(z) PROVE e \notin E
    <3>1. PICK d \in Conns : e \in {d} \X (1 .. z[d])
      BY DEF Entries
    <3> QED
      BY <2>1, <3>1
  <2> QED
    BY <2>2
<1>4. IsFiniteSet(E) /\ Cardinality(E) = f[c]
  <2>1. IsFiniteSet({c}) /\ Cardinality({c}) = 1
    BY FS_Singleton
  <2>2. IsFiniteSet(1 .. f[c]) /\ Cardinality(1 .. f[c]) = f[c]
    BY <1>1, FS_Interval
  <2>3. IsFiniteSet(E) /\ Cardinality(E) = Cardinality({c}) * Cardinality(1 .. f[c])
    BY <2>1, <2>2, FS_Product
  <2> HIDE DEF E
  <2> QED
    BY <1>1, <2>1, <2>2, <2>3
<1>5. IsFiniteSet(Entries(z)) /\ Total(z) \in Nat
  BY <1>1, EntriesFinite
<1> HIDE DEF z, E
<1>6. Cardinality(Entries(f)) = Cardinality(Entries(z)) + Cardinality(E) - Cardinality(Entries(z) \cap E)
  BY <1>2, <1>4, <1>5, FS_Union
<1>7. Cardinality(Entries(z) \cap E) = 0
  BY <1>3, FS_EmptySet
<1> QED
  BY <1>1, <1>4, <1>5, <1>6, <1>7 DEF Entries, Total, z

\* What changing the count of one connection does to the total.
LEMMA TotalExcept ==
    ASSUME NEW f \in Counts, NEW c \in Conns, NEW n \in Nat
    PROVE  /\ [f EXCEPT ![c] = n] \in Counts
           /\ Total([f EXCEPT ![c] = n]) = Total(f) - f[c] + n
<1> DEFINE g == [f EXCEPT ![c] = n]
<1>1. g \in Counts /\ g[c] = n /\ [g EXCEPT ![c] = 0] = [f EXCEPT ![c] = 0]
  BY DEF Counts
<1>2. Total(g) = Total([g EXCEPT ![c] = 0]) + n
  BY <1>1, TotalSplit
<1>3. Total(f) = Total([f EXCEPT ![c] = 0]) + f[c]
  BY TotalSplit
<1>4. [f EXCEPT ![c] = 0] \in Counts /\ f[c] \in Nat
  BY DEF Counts
<1>5. Total([f EXCEPT ![c] = 0]) \in Nat
  BY <1>4, EntriesFinite
<1> QED
  BY <1>1, <1>2, <1>3, <1>4, <1>5

\* No counts, no entries.
LEMMA TotalZero ==
    ASSUME NEW f \in Counts, \A c \in Conns : f[c] = 0
    PROVE  Total(f) = 0
<1>1. ASSUME NEW e \in Entries(f) PROVE FALSE
  <2>1. PICK d \in Conns : e \in {d} \X (1 .. f[d])
    BY DEF Entries
  <2> QED
    BY <2>1
<1>2. Entries(f) = {}
  BY <1>1
<1> QED
  BY <1>2, FS_EmptySet DEF Total, Entries

EventRecords == [kind : {"incoming", "outgoing", "failed"}, peer : Peers, conn : Places]

\* The events of a sequence that report a stream to p that was asked for.
Reports(s, p) == {i \in DOMAIN s : s[i].peer = p /\ s[i].kind # "incoming"}

IsReport(e, p)   == e.peer = p /\ e.kind # "incoming"
AllReports(f, p) == \A i \in 1 .. Len(f) : IsReport(f[i], p)

\* Sequences have finitely many events.
LEMMA ReportsFinite ==
    ASSUME NEW s \in Seq(EventRecords), NEW p
    PROVE  IsFiniteSet(Reports(s, p)) /\ Cardinality(Reports(s, p)) \in Nat
<1>1. Reports(s, p) \subseteq 1 .. Len(s) /\ Len(s) \in Nat
  BY LenProperties DEF Reports
<1>2. IsFiniteSet(1 .. Len(s))
  BY <1>1, FS_Interval
<1> QED
  BY <1>1, <1>2, FS_Subset, FS_CardinalityType

\* An event more.
LEMMA ReportsAppend ==
    ASSUME NEW s \in Seq(EventRecords), NEW e \in EventRecords, NEW p
    PROVE  /\ Append(s, e) \in Seq(EventRecords)
           /\ Cardinality(Reports(Append(s, e), p)) =
                 Cardinality(Reports(s, p)) + IF IsReport(e, p) THEN 1 ELSE 0
<1> DEFINE t == Append(s, e)
           n == Len(s)
<1>1. /\ t \in Seq(EventRecords) /\ n \in Nat /\ DOMAIN s = 1 .. n /\ Len(t) = n + 1
      /\ \A i \in 1 .. n : t[i] = s[i]
      /\ t[n + 1] = e
  BY AppendProperties, LenProperties
<1> HIDE DEF t, n
<1>2. DOMAIN t = 1 .. n + 1
  BY <1>1, LenProperties
<1>3. Reports(t, p) = IF IsReport(e, p) THEN Reports(s, p) \cup {n + 1} ELSE Reports(s, p)
  BY <1>1, <1>2 DEF Reports, IsReport
<1>4. n + 1 \notin Reports(s, p)
  BY <1>1 DEF Reports
<1>5. IsFiniteSet(Reports(s, p)) /\ Cardinality(Reports(s, p)) \in Nat
  BY ReportsFinite
<1>6. Cardinality(Reports(s, p) \cup {n + 1}) = Cardinality(Reports(s, p)) + 1
  BY <1>4, <1>5, FS_AddElement
<1> QED
  BY <1>1, <1>3, <1>5, <1>6 DEF t

\* The last event is taken.
LEMMA ReportsFront ==
    ASSUME NEW s \in Seq(EventRecords), s # <<>>, NEW p
    PROVE  /\ Front(s) \in Seq(EventRecords) /\ Last(s) \in EventRecords
           /\ Cardinality(Reports(Front(s), p)) =
                 Cardinality(Reports(s, p)) - IF IsReport(Last(s), p) THEN 1 ELSE 0
<1>1. PICK t \in Seq(EventRecords), e \in EventRecords : s = Append(t, e)
  BY SequenceEmptyOrAppend
<1>2. /\ Len(s) = Len(t) + 1 /\ Len(t) \in Nat /\ s[Len(s)] = e
      /\ \A i \in 1 .. Len(t) : s[i] = t[i]
  BY <1>1, AppendProperties, LenProperties
<1>3. Last(s) = e
  BY <1>2 DEF Last
<1>4. Front(s) = t
  <2>1. Front(s) = SubSeq(s, 1, Len(t))
    BY <1>2 DEF Front
  <2>2. \A i \in 1 .. Len(t) : s[i] \in EventRecords
    BY <1>2, ElementOfSeq
  <2>3. /\ SubSeq(s, 1, Len(t)) \in Seq(EventRecords)
        /\ Len(SubSeq(s, 1, Len(t))) = Len(t)
        /\ \A i \in 1 .. Len(t) : SubSeq(s, 1, Len(t))[i] = s[i]
    <3>1. 1 \in Int /\ Len(t) \in Int
      BY <1>2
    <3>2. /\ SubSeq(s, 1, Len(t)) \in Seq(EventRecords)
          /\ Len(SubSeq(s, 1, Len(t))) = IF 1 <= Len(t) THEN Len(t) - 1 + 1 ELSE 0
          /\ \A i \in 1 .. Len(t) - 1 + 1 : SubSeq(s, 1, Len(t))[i] = s[1 + i - 1]
      BY <2>2, <3>1, SubSeqProperties
    <3> QED
      BY <1>2, <3>2
  <2> QED
    BY <1>2, <2>1, <2>3, SeqEqual
<1>5. Cardinality(Reports(s, p)) = Cardinality(Reports(t, p)) + IF IsReport(e, p) THEN 1 ELSE 0
  BY <1>1, ReportsAppend
<1>6. Cardinality(Reports(t, p)) \in Nat
  BY ReportsFinite
<1> QED
  BY <1>3, <1>4, <1>5, <1>6

\* Several reports about one peer.
LEMMA ReportsConcat ==
    ASSUME NEW s \in Seq(EventRecords), NEW f \in Seq(EventRecords), NEW p, NEW q, AllReports(f, p)
    PROVE  /\ s \o f \in Seq(EventRecords)
           /\ Cardinality(Reports(s \o f, q)) =
                 Cardinality(Reports(s, q)) + IF q = p THEN Len(f) ELSE 0
<1> DEFINE t == s \o f
           N == Len(s)
           n == Len(f)
<1>1. /\ t \in Seq(EventRecords) /\ N \in Nat /\ n \in Nat /\ Len(t) = N + n
      /\ \A i \in 1 .. N + n : t[i] = IF i <= N THEN s[i] ELSE f[i - N]
  BY ConcatProperties, LenProperties
<1> HIDE DEF t
<1>2. DOMAIN s = 1 .. N /\ DOMAIN t = 1 .. N + n
  BY <1>1, LenProperties
<1> HIDE DEF N, n
<1>3. /\ \A i \in 1 .. N : t[i] = s[i]
      /\ \A i \in N + 1 .. N + n : t[i].peer = p /\ t[i].kind # "incoming"
  <2>1. \A i \in 1 .. N : t[i] = s[i]
    BY <1>1
  <2>2. ASSUME NEW i \in N + 1 .. N + n PROVE t[i].peer = p /\ t[i].kind # "incoming"
    <3>1. i - N \in 1 .. n /\ t[i] = f[i - N]
      BY <1>1
    <3> QED
      BY <3>1 DEF n, AllReports, IsReport
  <2> QED
    BY <2>1, <2>2
<1>4. Reports(t, p) = Reports(s, p) \cup (N + 1 .. N + n)
  BY <1>1, <1>2, <1>3 DEF Reports
<1>5. q # p => Reports(t, q) = Reports(s, q)
  BY <1>1, <1>2, <1>3 DEF Reports
<1>6. Reports(s, p) \cap (N + 1 .. N + n) = {}
  <2>1. Reports(s, p) \subseteq 1 .. N
    BY <1>2 DEF Reports
  <2> QED
    BY <1>1, <2>1
<1>7. IsFiniteSet(N + 1 .. N + n) /\ Cardinality(N + 1 .. N + n) = n
  <2>1. N + 1 \in Int /\ N + n \in Int
    BY <1>1
  <2>2. /\ IsFiniteSet(N + 1 .. N + n)
        /\ Cardinality(N + 1 .. N + n) = IF N + 1 > N + n THEN 0 ELSE (N + n) - (N + 1) + 1
    BY <2>1, FS_Interval
  <2> QED
    BY <1>1, <2>2
<1>8. /\ IsFiniteSet(Reports(s, p)) /\ Cardinality(Reports(s, p)) \in Nat
      /\ Cardinality(Reports(s, q)) \in Nat
  BY ReportsFinite
<1>9. Cardinality(Reports(t, p)) =
          Cardinality(Reports(s, p)) + n - Cardinality(Reports(s, p) \cap (N + 1 .. N + n))
  BY <1>4, <1>7, <1>8, FS_Union
<1>10. Cardinality(Reports(s, p) \cap (N + 1 .. N + n)) = 0
  BY <1>6, FS_EmptySet
<1> QED
  BY <1>1, <1>5, <1>8, <1>9, <1>10 DEF t, n

-----------------------------------------------------------------------------
(* Streaming *)

DialRequests == [dialed : BOOLEAN, count : Nat]

StreamingTypeOK ==
    /\ swarm \in [Peers -> SUBSET Conns]
    /\ connected_peers \in [Peers -> Places]
    /\ dial_requests \in [Peers -> DialRequests \cup {NoDial}]
    /\ stream_requests \in [Peers -> Counts]
    /\ requested \in [Peers -> Counts]
    /\ events \in Seq(EventRecords)
    /\ due \in [Peers -> Int]

\* What StreamsAccounted says of one peer, and that without a connection there is no entry.
Accounted(owed, dial, asked, given, reports, open, used) ==
    /\ owed = dial.count + 1 + Total(asked) + Total(given) + Cardinality(reports)
    /\ \A c \in Conns : asked[c] + given[c] > 0 => c \in open
    /\ used # NoConn => used \in open
    /\ dial # NoDial => used = NoConn
    /\ used = NoConn => \A c \in Conns : asked[c] = 0

PeerAccounted(p) == Accounted(due[p], dial_requests[p], stream_requests[p], requested[p],
                              Reports(events, p), swarm[p], connected_peers[p])

StreamingInv == StreamingTypeOK /\ \A p \in Peers : PeerAccounted(p)

\* The invariant contains the property.
LEMMA StreamingInvAccounts == StreamingInv => StreamsAccounted
BY DEF StreamingInv, StreamsAccounted, PeerAccounted, Accounted, EventsOf, Reports, StreamRequestsOf

\* What is known of one peer.
Known(p) ==
    /\ PeerAccounted(p)
    /\ swarm[p] \subseteq Conns /\ connected_peers[p] \in Places
    /\ dial_requests[p] \in DialRequests \cup {NoDial}
    /\ stream_requests[p] \in Counts /\ requested[p] \in Counts
    /\ Total(stream_requests[p]) \in Nat /\ Total(requested[p]) \in Nat
    /\ Cardinality(Reports(events, p)) \in Nat
    /\ due[p] \in Int /\ dial_requests[p].count \in Int
    /\ dial_requests[p] # NoDial => dial_requests[p] \in DialRequests

\* The invariant gives it.
LEMMA PeerTypes ==
    ASSUME StreamingInv, NEW p \in Peers
    PROVE  Known(p)
<1>1. dial_requests[p] \in DialRequests \cup {NoDial}
  BY DEF StreamingInv, StreamingTypeOK
<1>2. dial_requests[p].count \in Int
  BY <1>1 DEF DialRequests, NoDial, DialRequest
<1>3. stream_requests[p] \in Counts /\ requested[p] \in Counts
  BY DEF StreamingInv, StreamingTypeOK
<1> QED
  BY <1>1, <1>2, <1>3, EntriesFinite, ReportsFinite DEF StreamingInv, StreamingTypeOK, Known

\* A step that concerns one peer.
LEMMA OnePeerStep ==
    ASSUME StreamingInv, StreamingTypeOK', NEW p \in Peers, PeerAccounted(p)',
           \A q \in Peers \ {p} :
              /\ due'[q] = due[q] /\ dial_requests'[q] = dial_requests[q]
              /\ stream_requests'[q] = stream_requests[q] /\ requested'[q] = requested[q]
              /\ Cardinality(Reports(events', q)) = Cardinality(Reports(events, q))
              /\ swarm'[q] = swarm[q] /\ connected_peers'[q] = connected_peers[q]
    PROVE  StreamingInv'
<1>1. ASSUME NEW q \in Peers PROVE PeerAccounted(q)'
  <2>1. CASE q = p
    BY <2>1
  <2>2. CASE q # p
    <3>1. PeerAccounted(q)
      BY DEF StreamingInv
    <3> QED
      BY <2>2, <3>1 DEF PeerAccounted, Accounted
  <2> QED
    BY <2>1, <2>2
<1> QED
  BY <1>1 DEF StreamingInv

\* create_stream: one more stream is owed, and one more entry is queued.
LEMMA CreateStreamKeeps ==
    ASSUME StreamingInv, NEW p \in Peers, CreateStream(p)
    PROVE  StreamingInv'
<1>0. Known(p)
  BY PeerTypes
<1>1. UNCHANGED <<swarm, connected_peers, requested, events>> /\ due' = [due EXCEPT ![p] = @ + 1]
  BY DEF CreateStream
<1>2. due' \in [Peers -> Int] /\ due'[p] = due[p] + 1 /\ \A q \in Peers \ {p} : due'[q] = due[q]
  BY <1>1 DEF StreamingInv, StreamingTypeOK
<1>3. CASE connected_peers[p] # NoConn
  <2> DEFINE c == connected_peers[p]
  <2>1. c \in Conns
    BY <1>0, <1>3 DEF Known, Places
  <2>2. stream_requests' = [stream_requests EXCEPT ![p][c] = @ + 1] /\ UNCHANGED dial_requests
    BY <1>3 DEF CreateStream
  <2> DEFINE f == stream_requests[p]
             g == [f EXCEPT ![c] = f[c] + 1]
  <2>3. f \in Counts /\ f[c] \in Nat /\ f[c] + 1 \in Nat
    BY <1>0, <2>1 DEF Known, Counts
  <2>4. g \in Counts /\ Total(g) = Total(f) - f[c] + (f[c] + 1)
    BY <2>1, <2>3, TotalExcept
  <2>5. stream_requests' = [stream_requests EXCEPT ![p] = g] /\ stream_requests'[p] = g
    BY <2>2 DEF StreamingInv, StreamingTypeOK
  <2>6. StreamingTypeOK'
    BY <1>1, <1>2, <2>2, <2>4, <2>5 DEF StreamingInv, StreamingTypeOK
  <2>7. \A d \in Conns : d # c => g[d] = f[d]
    BY <2>3 DEF Counts
  <2> HIDE DEF g, f, c
  <2>8. Accounted(due[p], dial_requests[p], f, requested[p], Reports(events, p), swarm[p], c)
    BY <1>0 DEF Known, PeerAccounted, f, c
  <2>9. Total(f) \in Nat /\ Total(requested[p]) \in Nat /\ Cardinality(Reports(events, p)) \in Nat
        /\ dial_requests[p].count \in Int
    BY <1>0 DEF Known, f
  <2>10. c # NoConn
    BY <1>3 DEF c
  <2>11. Accounted(due[p] + 1, dial_requests[p], g, requested[p], Reports(events, p), swarm[p], c)
    BY <2>3, <2>4, <2>7, <2>8, <2>9, <2>10 DEF Accounted
  <2>12. PeerAccounted(p)'
    BY <1>1, <1>2, <2>2, <2>5, <2>11 DEF PeerAccounted, c
  <2> QED
    BY <1>1, <1>2, <2>2, <2>5, <2>6, <2>12, OnePeerStep DEF StreamingInv, StreamingTypeOK
<1>4. CASE connected_peers[p] = NoConn
  <2> DEFINE d == dial_requests[p]
             e == IF d = NoDial THEN DialRequest(FALSE, 0) ELSE DialRequest(d.dialed, d.count + 1)
  <2>1. dial_requests' = [dial_requests EXCEPT ![p] = e] /\ UNCHANGED stream_requests
    BY <1>4 DEF CreateStream
  <2>2. e \in DialRequests /\ e.count = d.count + 1
    <3>1. CASE d = NoDial
      BY <3>1 DEF DialRequest, NoDial, DialRequests
    <3>2. CASE d # NoDial
      <4>1. d \in DialRequests
        BY <1>0, <3>2 DEF Known
      <4> QED
        BY <3>2, <4>1 DEF DialRequest, DialRequests
    <3> QED
      BY <3>1, <3>2
  <2> HIDE DEF e
  <2>3. StreamingTypeOK' /\ dial_requests'[p] = e
    BY <1>1, <1>2, <2>1, <2>2 DEF StreamingInv, StreamingTypeOK
  <2>4. Accounted(due[p] + 1, e, stream_requests[p], requested[p], Reports(events, p), swarm[p],
                  connected_peers[p])
    BY <1>0, <1>4, <2>2 DEF Known, Accounted, PeerAccounted
  <2>5. PeerAccounted(p)'
    BY <1>1, <1>2, <2>1, <2>3, <2>4 DEF PeerAccounted
  <2> QED
    BY <1>1, <1>2, <2>1, <2>3, <2>5, OnePeerStep DEF StreamingInv, StreamingTypeOK
<1> QED
  BY <1>3, <1>4

\* A failed dial reports all the streams of its entry, and keeps the entry.
LEMMA DialFailureKeeps ==
    ASSUME StreamingInv, NEW p \in Peers, DialFailure(p)
    PROVE  StreamingInv'
<1> DEFINE n == dial_requests[p].count + 1
           e == Event("failed", p, NoConn)
           f == [i \in 1 .. n |-> e]
<1>1. Known(p)
  BY PeerTypes
<1>2. /\ events' = events \o f /\ due' = [due EXCEPT ![p] = @ + n]
      /\ UNCHANGED <<swarm, connected_peers, dial_requests, stream_requests, requested>>
      /\ dial_requests[p] # NoDial
  BY DEF DialFailure
<1>3. n \in Nat
  BY <1>1, <1>2 DEF Known, DialRequests
<1>4. e \in EventRecords /\ e.peer = p /\ e.kind # "incoming"
  BY DEF Event, EventRecords, Places
<1> HIDE DEF e, n
<1>5. f \in Seq(EventRecords) /\ Len(f) = n /\ \A i \in 1 .. n : f[i] = e
  BY <1>3, <1>4
<1> HIDE DEF f
<1>6. events \in Seq(EventRecords)
  BY DEF StreamingInv, StreamingTypeOK
<1>7. /\ events' \in Seq(EventRecords)
      /\ Cardinality(Reports(events', p)) = Cardinality(Reports(events, p)) + n
      /\ \A q \in Peers \ {p} : Cardinality(Reports(events', q)) = Cardinality(Reports(events, q))
  <2>1. AllReports(f, p)
    BY <1>4, <1>5 DEF AllReports, IsReport
  <2>2. f \in Seq(EventRecords)
    BY <1>5
  <2>3. /\ events \o f \in Seq(EventRecords)
        /\ \A q \in Peers : Cardinality(Reports(events \o f, q)) =
                                Cardinality(Reports(events, q)) + IF q = p THEN Len(f) ELSE 0
    BY <1>6, <2>1, <2>2, ReportsConcat
  <2>4. \A q \in Peers : Cardinality(Reports(events, q)) \in Nat
    BY <1>6, ReportsFinite
  <2> QED
    BY <1>2, <1>5, <2>3, <2>4
<1>8. StreamingTypeOK' /\ due'[p] = due[p] + n /\ \A q \in Peers \ {p} : due'[q] = due[q]
  BY <1>2, <1>3, <1>7 DEF StreamingInv, StreamingTypeOK
<1>9. PeerAccounted(p)'
  BY <1>1, <1>2, <1>3, <1>7, <1>8 DEF Known, PeerAccounted, Accounted
<1> QED
  BY <1>2, <1>7, <1>8, <1>9, OnePeerStep

\* The first connection to a peer takes over the streams of its dial.
LEMMA EstablishedKeeps ==
    ASSUME StreamingInv, NEW p \in Peers, NEW c \in Conns, ConnectionEstablished(p, c)
    PROVE  StreamingInv'
<1> DEFINE f == stream_requests[p]
           d == dial_requests[p]
           n == f[c] + d.count + 1
           g == IF d = NoDial THEN f ELSE [f EXCEPT ![c] = n]
<1>1. Known(p) /\ f \in Counts /\ f[c] \in Nat
  BY PeerTypes DEF Known, Counts
<1>2. /\ swarm' = [swarm EXCEPT ![p] = @ \cup {c}]
      /\ connected_peers' = [connected_peers EXCEPT ![p] = c]
      /\ dial_requests' = [dial_requests EXCEPT ![p] = NoDial]
      /\ UNCHANGED <<requested, events, due>>
  BY DEF ConnectionEstablished
<1>3. stream_requests' = [stream_requests EXCEPT ![p] = g]
  BY DEF ConnectionEstablished, StreamingInv, StreamingTypeOK, Counts
<1>4. g \in Counts /\ Total(g) = Total(f) + d.count + 1
  <2>1. CASE d = NoDial
    BY <1>1, <2>1 DEF Known, NoDial, DialRequest
  <2>2. CASE d # NoDial
    <3>1. d.count \in Nat /\ n \in Nat
      BY <1>1, <2>2 DEF Known, DialRequests
    <3>2. g \in Counts /\ Total(g) = Total(f) - f[c] + n
      BY <1>1, <2>2, <3>1, TotalExcept
    <3> HIDE DEF g
    <3> QED
      BY <1>1, <3>1, <3>2 DEF Known
  <2> QED
    BY <2>1, <2>2
<1>5. \A k \in Conns : k # c => g[k] = f[k]
  BY <1>1 DEF Counts
<1> HIDE DEF g
<1>6. StreamingTypeOK'
  BY <1>2, <1>3, <1>4 DEF StreamingInv, StreamingTypeOK, Places
<1>7. /\ swarm'[p] = swarm[p] \cup {c} /\ connected_peers'[p] = c /\ dial_requests'[p] = NoDial
      /\ stream_requests'[p] = g
  BY <1>2, <1>3 DEF StreamingInv, StreamingTypeOK
<1>8. NoDial.count = -1
  BY DEF NoDial, DialRequest
<1> HIDE DEF f
<1>9. c # NoConn /\ Total(f) \in Nat
  BY <1>1, StreamingAssumption DEF Known, f
<1>10. Accounted(due[p], NoDial, g, requested[p], Reports(events, p), swarm[p] \cup {c}, c)
  <2>1. Accounted(due[p], d, f, requested[p], Reports(events, p), swarm[p], connected_peers[p])
    BY <1>1 DEF Known, PeerAccounted, f
  <2>2. due[p] = NoDial.count + 1 + Total(g) + Total(requested[p]) + Cardinality(Reports(events, p))
    BY <1>1, <1>4, <1>8, <1>9, <2>1 DEF Accounted, Known
  <2>3. \A k \in Conns : g[k] + requested[p][k] > 0 => k \in swarm[p] \cup {c}
    BY <1>5, <2>1 DEF Accounted
  <2> QED
    BY <1>9, <2>2, <2>3 DEF Accounted
<1>11. PeerAccounted(p)'
  BY <1>2, <1>7, <1>10 DEF PeerAccounted
<1> QED
  BY <1>2, <1>3, <1>6, <1>7, <1>11, OnePeerStep DEF StreamingInv, StreamingTypeOK

\* A closed connection: what its handler was asked for is gone, the entries for the peer go
\* back to dialling, and its streams in the events are reported all the same.
LEMMA ClosedKeeps ==
    ASSUME StreamingInv, NEW p \in Peers, NEW c \in Conns, ConnectionClosed(p, c)
    PROVE  StreamingInv'
<1> DEFINE f == stream_requests[p]
           z == [k \in Conns |-> 0]
           r == requested[p]
           s == [r EXCEPT ![c] = 0]
           d == dial_requests[p]
           count == Total(f)
           e == IF count = 0 THEN d
                ELSE IF d = NoDial THEN DialRequest(FALSE, count - 1)
                ELSE DialRequest(d.dialed, d.count + count - 1)
           evs == [i \in DOMAIN events |->
                      IF events[i].peer = p /\ events[i].conn = c
                        THEN [events[i] EXCEPT !.conn = NoConn] ELSE events[i]]
<1>1. Known(p) /\ f \in Counts /\ r \in Counts /\ r[c] \in Nat /\ count \in Nat
  BY PeerTypes DEF Known, Counts
<1>2. /\ swarm' = [swarm EXCEPT ![p] = @ \ {c}]
      /\ connected_peers' = [connected_peers EXCEPT ![p] = NoConn]
      /\ stream_requests' = [stream_requests EXCEPT ![p] = z]
      /\ due' = [due EXCEPT ![p] = @ - r[c]]
      /\ events' = evs /\ c \in swarm[p]
  BY DEF ConnectionClosed, StreamRequestsKept
<1>3. dial_requests' = [dial_requests EXCEPT ![p] = e]
  BY DEF ConnectionClosed, StreamRequestsOf, StreamingInv, StreamingTypeOK
<1>4. requested' = [requested EXCEPT ![p] = s]
  BY DEF ConnectionClosed, StreamingInv, StreamingTypeOK
<1>5. z \in Counts /\ Total(z) = 0
  BY TotalZero DEF Counts
<1>6. s \in Counts /\ Total(s) = Total(r) - r[c]
  <2>1. s \in Counts /\ Total(s) = Total(r) - r[c] + 0
    BY <1>1, TotalExcept
  <2> HIDE DEF s
  <2> QED
    BY <1>1, <2>1 DEF Known
<1>7. e \in DialRequests \cup {NoDial} /\ e.count = d.count + count
  <2>1. CASE count = 0
    BY <1>1, <2>1 DEF Known
  <2>2. CASE count # 0 /\ d = NoDial
    BY <1>1, <2>2 DEF DialRequest, NoDial, DialRequests
  <2>3. CASE count # 0 /\ d # NoDial
    <3>1. \A k \in Conns : f[k] = 0
      BY <1>1, <2>3 DEF Known, PeerAccounted, Accounted
    <3> QED
      BY <1>1, <2>3, <3>1, TotalZero
  <2> QED
    BY <2>1, <2>2, <2>3
<1>8. /\ evs \in Seq(EventRecords)
      /\ \A q \in Peers : Reports(evs, q) = Reports(events, q)
  <2>1. events \in Seq(EventRecords)
    BY DEF StreamingInv, StreamingTypeOK
  <2>2. /\ Len(events) \in Nat /\ DOMAIN events = 1 .. Len(events)
        /\ \A i \in 1 .. Len(events) : events[i] \in EventRecords
    BY <2>1, LenProperties, ElementOfSeq
  <2>3. ASSUME NEW i \in 1 .. Len(events)
        PROVE  evs[i] \in EventRecords /\ evs[i].peer = events[i].peer /\ evs[i].kind = events[i].kind
    BY <2>2 DEF EventRecords, Places
  <2>4. evs \in [1 .. Len(events) -> EventRecords]
    BY <2>2, <2>3
  <2>5. evs \in Seq(EventRecords)
    BY <2>2, <2>4, SeqDef
  <2>6. DOMAIN evs = DOMAIN events
    OBVIOUS
  <2> HIDE DEF evs
  <2> QED
    BY <2>2, <2>3, <2>5, <2>6 DEF Reports
<1> HIDE DEF e, s, z, evs
<1>9. StreamingTypeOK'
  <2>1. r[c] \in Int
    BY <1>1
  <2> HIDE DEF r
  <2> QED
    BY <1>2, <1>3, <1>4, <1>5, <1>6, <1>7, <1>8, <2>1 DEF StreamingInv, StreamingTypeOK, Places
<1>10. /\ swarm'[p] = swarm[p] \ {c} /\ connected_peers'[p] = NoConn /\ dial_requests'[p] = e
       /\ stream_requests'[p] = z /\ requested'[p] = s /\ due'[p] = due[p] - r[c]
  BY <1>2, <1>3, <1>4 DEF StreamingInv, StreamingTypeOK
<1>11. /\ s[c] = 0 /\ \A k \in Conns : k # c => s[k] = r[k]
       /\ \A k \in Conns : z[k] = 0
  BY <1>1 DEF s, z, Counts
<1> HIDE DEF f, r
<1>12. Accounted(due[p] - r[c], e, z, s, Reports(events, p), swarm[p] \ {c}, NoConn)
  <2>1. Accounted(due[p], d, f, r, Reports(events, p), swarm[p], connected_peers[p])
    BY <1>1 DEF Known, PeerAccounted, f, r
  <2>2. Total(r) \in Nat /\ Total(f) \in Nat
    BY <1>1 DEF Known, r, f
  <2>3. due[p] - r[c] = e.count + 1 + Total(z) + Total(s) + Cardinality(Reports(events, p))
    BY <1>1, <1>5, <1>6, <1>7, <2>1, <2>2 DEF Accounted, Known
  <2>4. \A k \in Conns : z[k] + s[k] > 0 => k \in swarm[p] \ {c}
    <3>1. \A k \in Conns : f[k] \in Nat /\ r[k] \in Nat
      BY <1>1 DEF Counts
    <3> QED
      BY <1>11, <2>1, <3>1 DEF Accounted
  <2> QED
    BY <1>11, <2>3, <2>4 DEF Accounted
<1>13. PeerAccounted(p)'
  BY <1>2, <1>8, <1>10, <1>12 DEF PeerAccounted
<1> QED
  BY <1>2, <1>3, <1>4, <1>8, <1>9, <1>13, OnePeerStep DEF StreamingInv, StreamingTypeOK

\* A handler reports a stream it was asked for, or that there is none.
LEMMA OutgoingKeeps ==
    ASSUME StreamingInv, NEW p \in Peers, NEW c \in Conns, OutgoingStream(p, c)
    PROVE  StreamingInv'
<1> DEFINE r == requested[p]
           s == [r EXCEPT ![c] = r[c] - 1]
<1>1. Known(p) /\ r \in Counts /\ r[c] \in Nat /\ r[c] > 0 /\ r[c] - 1 \in Nat
  BY PeerTypes DEF Known, Counts, OutgoingStream
<1>2. /\ UNCHANGED <<swarm, connected_peers, dial_requests, stream_requests, due>>
      /\ requested' = [requested EXCEPT ![p] = s]
  BY DEF OutgoingStream, StreamingInv, StreamingTypeOK
<1>3. PICK e : /\ e \in {Event("outgoing", p, c), Event("failed", p, c)}
               /\ events' = Append(events, e)
  BY DEF OutgoingStream
<1>4. e \in EventRecords /\ e.peer = p /\ e.kind # "incoming"
  BY <1>3 DEF Event, EventRecords, Places
<1>5. events \in Seq(EventRecords)
  BY DEF StreamingInv, StreamingTypeOK
<1>6. /\ events' \in Seq(EventRecords)
      /\ \A q \in Peers : Cardinality(Reports(events', q)) =
            Cardinality(Reports(events, q)) + IF IsReport(e, q) THEN 1 ELSE 0
  BY <1>3, <1>4, <1>5, ReportsAppend
<1>7. /\ Cardinality(Reports(events', p)) = Cardinality(Reports(events, p)) + 1
      /\ \A q \in Peers \ {p} : Cardinality(Reports(events', q)) = Cardinality(Reports(events, q))
  <2>1. IsReport(e, p) /\ \A q \in Peers \ {p} : ~IsReport(e, q)
    BY <1>4 DEF IsReport
  <2>2. \A q \in Peers : Cardinality(Reports(events, q)) \in Nat
    BY <1>5, ReportsFinite
  <2> QED
    BY <1>6, <2>1, <2>2
<1>8. s \in Counts /\ Total(s) = Total(r) - 1
  <2>1. s \in Counts /\ Total(s) = Total(r) - r[c] + (r[c] - 1)
    BY <1>1, TotalExcept
  <2> HIDE DEF s
  <2> QED
    BY <1>1, <2>1 DEF Known
<1>9. \A k \in Conns : s[k] \in Nat /\ r[k] \in Nat /\ s[k] <= r[k]
  BY <1>1, <1>8 DEF Counts
<1> HIDE DEF s
<1>10. StreamingTypeOK' /\ requested'[p] = s
  BY <1>2, <1>6, <1>8 DEF StreamingInv, StreamingTypeOK
<1> HIDE DEF r
<1>11. Accounted(due[p], dial_requests[p], stream_requests[p], s, Reports(events', p), swarm[p],
                 connected_peers[p])
  <2>1. Accounted(due[p], dial_requests[p], stream_requests[p], r, Reports(events, p), swarm[p],
                  connected_peers[p])
    BY <1>1 DEF Known, PeerAccounted, r
  <2>2. Total(r) \in Nat /\ \A k \in Conns : stream_requests[p][k] \in Nat
    BY <1>1 DEF Known, r, Counts
  <2>3. \A k \in Conns : stream_requests[p][k] + s[k] > 0 => k \in swarm[p]
    BY <1>9, <2>1, <2>2 DEF Accounted
  <2> QED
    BY <1>1, <1>7, <1>8, <2>1, <2>2, <2>3 DEF Accounted, Known
<1>12. PeerAccounted(p)'
  BY <1>2, <1>10, <1>11 DEF PeerAccounted
<1> QED
  BY <1>2, <1>7, <1>10, <1>12, OnePeerStep DEF StreamingInv, StreamingTypeOK

\* A stream that a peer opens is reported and was not asked for.
LEMMA IncomingKeeps ==
    ASSUME StreamingInv, NEW p \in Peers, NEW c \in Conns, IncomingStream(p, c)
    PROVE  StreamingInv'
<1> DEFINE e == Event("incoming", p, c)
<1>1. /\ UNCHANGED <<swarm, connected_peers, dial_requests, stream_requests, requested, due>>
      /\ events' = Append(events, e) /\ events \in Seq(EventRecords)
  BY DEF IncomingStream, StreamingInv, StreamingTypeOK
<1>2. e \in EventRecords /\ \A q : ~IsReport(e, q)
  BY DEF Event, EventRecords, Places, IsReport
<1> HIDE DEF e
<1>3. /\ events' \in Seq(EventRecords)
      /\ \A q \in Peers : Cardinality(Reports(events', q)) = Cardinality(Reports(events, q)) + 0
  BY <1>1, <1>2, ReportsAppend
<1>4. \A q \in Peers : Cardinality(Reports(events', q)) = Cardinality(Reports(events, q))
  BY <1>1, <1>3, ReportsFinite
<1>5. StreamingTypeOK'
  BY <1>1, <1>3 DEF StreamingInv, StreamingTypeOK
<1>6. PeerAccounted(p)'
  BY <1>1, <1>4 DEF StreamingInv, PeerAccounted, Accounted
<1> QED
  BY <1>1, <1>4, <1>5, <1>6, OnePeerStep

\* Dialling a peer changes no count.
LEMMA DialKeeps ==
    ASSUME StreamingInv, NEW p \in Peers, Dial(p)
    PROVE  StreamingInv'
<1> DEFINE d == dial_requests[p]
           e == [d EXCEPT !.dialed = TRUE]
<1>1. Known(p)
  BY PeerTypes
<1>2. /\ UNCHANGED <<swarm, connected_peers, stream_requests, requested, events, due>>
      /\ dial_requests' = [dial_requests EXCEPT ![p] = e] /\ d # NoDial
  BY DEF Dial, UndialledPeers, StreamingInv, StreamingTypeOK
<1>3. e \in DialRequests /\ e.count = d.count
  BY <1>1, <1>2 DEF Known, DialRequests
<1> HIDE DEF e
<1>4. StreamingTypeOK' /\ dial_requests'[p] = e
  BY <1>2, <1>3 DEF StreamingInv, StreamingTypeOK
<1>5. PeerAccounted(p)'
  BY <1>1, <1>2, <1>3, <1>4 DEF Known, PeerAccounted, Accounted
<1> QED
  BY <1>2, <1>4, <1>5, OnePeerStep DEF StreamingInv, StreamingTypeOK

\* An entry is given to the handler of its connection.
LEMMA NotifyKeeps ==
    ASSUME StreamingInv, NEW p \in Peers, NEW c \in Conns, NotifyHandler(p, c)
    PROVE  StreamingInv'
<1> DEFINE f == stream_requests[p]
           r == requested[p]
           g == [f EXCEPT ![c] = f[c] - 1]
           s == [r EXCEPT ![c] = r[c] + 1]
<1>1. /\ Known(p) /\ f \in Counts /\ r \in Counts /\ f[c] \in Nat /\ r[c] \in Nat
      /\ f[c] > 0 /\ f[c] - 1 \in Nat /\ r[c] + 1 \in Nat
  BY PeerTypes DEF Known, Counts, NotifyHandler
<1>2. /\ UNCHANGED <<swarm, connected_peers, dial_requests, events, due>>
      /\ stream_requests' = [stream_requests EXCEPT ![p] = g]
      /\ requested' = [requested EXCEPT ![p] = s]
  BY DEF NotifyHandler, StreamingInv, StreamingTypeOK
<1>3. g \in Counts /\ Total(g) = Total(f) - f[c] + (f[c] - 1)
  BY <1>1, TotalExcept
<1>4. s \in Counts /\ Total(s) = Total(r) - r[c] + (r[c] + 1)
  BY <1>1, TotalExcept
<1>5. /\ g[c] = f[c] - 1 /\ s[c] = r[c] + 1
      /\ \A k \in Conns : k # c => g[k] = f[k] /\ s[k] = r[k]
  BY <1>1 DEF Counts
<1> HIDE DEF g, s
<1>6. StreamingTypeOK' /\ stream_requests'[p] = g /\ requested'[p] = s
  BY <1>2, <1>3, <1>4 DEF StreamingInv, StreamingTypeOK
<1> HIDE DEF f, r
<1>7. Accounted(due[p], dial_requests[p], g, s, Reports(events, p), swarm[p], connected_peers[p])
  <2>1. Accounted(due[p], dial_requests[p], f, r, Reports(events, p), swarm[p], connected_peers[p])
    BY <1>1 DEF Known, PeerAccounted, f, r
  <2>2. Total(f) \in Nat /\ Total(r) \in Nat
    BY <1>1 DEF Known, f, r
  <2>3. \A k \in Conns : g[k] + s[k] > 0 => k \in swarm[p]
    BY <1>1, <1>5, <2>1 DEF Accounted
  <2>4. connected_peers[p] # NoConn
    BY <1>1, <2>1 DEF Accounted
  <2>5. due[p] = dial_requests[p].count + 1 + Total(g) + Total(s) + Cardinality(Reports(events, p))
    BY <1>1, <1>3, <1>4, <2>1, <2>2 DEF Accounted, Known
  <2> QED
    BY <2>1, <2>3, <2>4, <2>5 DEF Accounted
<1>8. PeerAccounted(p)'
  BY <1>2, <1>6, <1>7 DEF PeerAccounted
<1> QED
  BY <1>2, <1>6, <1>8, OnePeerStep DEF StreamingInv, StreamingTypeOK

\* The last event is reported.
LEMMA GenerateKeeps ==
    ASSUME StreamingInv, GenerateEvent
    PROVE  StreamingInv'
<1> DEFINE e == Last(events)
<1>1. events \in Seq(EventRecords) /\ events # <<>>
  BY DEF StreamingInv, StreamingTypeOK, GenerateEvent
<1>2. /\ events' \in Seq(EventRecords) /\ e \in EventRecords
      /\ \A q \in Peers : Cardinality(Reports(events', q)) =
            Cardinality(Reports(events, q)) - IF IsReport(e, q) THEN 1 ELSE 0
  BY <1>1, ReportsFront DEF GenerateEvent
<1>3. PICK p \in Peers : p = e.peer
  BY <1>2 DEF EventRecords
<1>4. /\ UNCHANGED <<swarm, connected_peers, dial_requests, stream_requests, requested>>
      /\ due' = IF e.kind = "incoming" THEN due ELSE [due EXCEPT ![p] = @ - 1]
  BY <1>3 DEF GenerateEvent
<1>5. Known(p) /\ \A q \in Peers : Cardinality(Reports(events, q)) \in Nat
  BY <1>1, <1>3, PeerTypes, ReportsFinite
<1> HIDE DEF e
<1>6. \A q \in Peers \ {p} : ~IsReport(e, q)
  BY <1>3 DEF IsReport
<1>7. \A q \in Peers \ {p} : Cardinality(Reports(events', q)) = Cardinality(Reports(events, q))
  BY <1>2, <1>5, <1>6
<1>8. Cardinality(Reports(events', p)) = Cardinality(Reports(events, p)) - (due[p] - due'[p])
  <2>1. CASE e.kind = "incoming"
    <3>1. ~IsReport(e, p) /\ due' = due
      BY <1>4, <2>1 DEF IsReport
    <3> QED
      BY <1>2, <1>3, <1>5, <3>1 DEF Known
  <2>2. CASE e.kind # "incoming"
    <3>1. IsReport(e, p)
      BY <1>3, <2>2 DEF IsReport
    <3>2. due'[p] = due[p] - 1
      BY <1>3, <1>4, <2>2 DEF StreamingInv, StreamingTypeOK
    <3>3. due[p] - due'[p] = 1
      BY <1>5, <3>2 DEF Known
    <3> QED
      BY <1>2, <1>3, <1>5, <3>1, <3>3
  <2> QED
    BY <2>1, <2>2
<1>9. StreamingTypeOK' /\ \A q \in Peers \ {p} : due'[q] = due[q]
  <2>1. due' \in [Peers -> Int]
    BY <1>3, <1>4 DEF StreamingInv, StreamingTypeOK
  <2> QED
    BY <1>2, <1>3, <1>4, <2>1 DEF StreamingInv, StreamingTypeOK
<1>10. PeerAccounted(p)'
  <2> DEFINE n == Cardinality(Reports(events, p))
             a == dial_requests[p].count + 1 + Total(stream_requests[p]) + Total(requested[p])
  <2>1. a \in Int /\ n \in Nat /\ due[p] = a + n /\ due'[p] \in Int
    BY <1>3, <1>5, <1>9 DEF Known, PeerAccounted, Accounted, StreamingTypeOK
  <2>2. Cardinality(Reports(events', p)) = n - (due[p] - due'[p])
    BY <1>8
  <2> HIDE DEF a, n
  <2>3. due'[p] = a + Cardinality(Reports(events', p))
    BY <2>1, <2>2
  <2> QED
    BY <1>4, <1>5, <2>3 DEF Known, PeerAccounted, Accounted, a
<1> QED
  BY <1>3, <1>4, <1>7, <1>9, <1>10, OnePeerStep

-----------------------------------------------------------------------------
(* Rpc *)

CallStates  == {"new", "pending", "ongoing", "refused", "ignored", "answered", "failed"}
ReplyStates == {"new", "owed", "pending", "sent", "lost", "ignored"}

RpcTypeOK ==
    /\ streams \in [Peers -> [Places -> Nat]]
    /\ dead \in [Peers -> Nat]
    /\ call \in [Calls -> CallStates]
    /\ reply \in [Served -> ReplyStates]
    /\ written \in [Calls -> Nat]

WaitingUnwritten == \A k \in Calls : call[k] \in {"new", "pending"} => written[k] = 0

RpcInv == StreamingInv /\ RpcTypeOK /\ WaitingUnwritten /\ WrittenOnce

\* What is left to show of a step: a call is written only while it waits, and then it waits
\* no more; and where there is a stream nothing waits.
LEMMA RpcStep ==
    ASSUME RpcInv, StreamingInv', RpcTypeOK',
           \A k \in Calls :
              \/ /\ written'[k] = written[k]
                 /\ call'[k] \in {"new", "pending"} => call[k] \in {"new", "pending"}
              \/ /\ written'[k] = written[k] + 1 /\ call[k] \in {"new", "pending"}
                 /\ call'[k] \notin {"new", "pending"},
           \A p \in Peers : HasStream(p)' => PendingCalls(p)' = {} /\ PendingReplies(p)' = {}
    PROVE  RpcInv'
<1>1. \A k \in Calls : written[k] \in Nat
  BY DEF RpcInv, RpcTypeOK
<1>2. WaitingUnwritten'
  BY <1>1 DEF RpcInv, WaitingUnwritten
<1>3. \A k \in Calls : written'[k] <= 1
  BY <1>1 DEF RpcInv, WaitingUnwritten, WrittenOnce
<1>4. WrittenOnce'
  BY <1>3 DEF WrittenOnce
<1> QED
  BY <1>2, <1>4 DEF RpcInv

\* Peers with a stream still have nothing waiting when no stream appears and nothing starts to
\* wait.
LEMMA NothingWaits ==
    ASSUME RpcInv, NEW p \in Peers, HasStream(p)' => HasStream(p),
           \A k \in Calls : k[1] = p /\ call'[k] = "pending" => call[k] = "pending",
           \A q \in Served : q[1] = p /\ reply'[q] = "pending" => reply[q] = "pending"
    PROVE  HasStream(p)' => PendingCalls(p)' = {} /\ PendingReplies(p)' = {}
<1> SUFFICES ASSUME HasStream(p)' PROVE PendingCalls(p)' = {} /\ PendingReplies(p)' = {}
  OBVIOUS
<1>1. PendingCalls(p) = {} /\ PendingReplies(p) = {}
  BY DEF RpcInv, WrittenOnce
<1> QED
  BY <1>1 DEF PendingCalls, PendingReplies

\* Streaming is left alone.
LEMMA StreamingUnchanged ==
    ASSUME StreamingInv, UNCHANGED <<swarm, connected_peers, dial_requests, stream_requests,
                                     requested, events, due>>
    PROVE  StreamingInv'
BY DEF StreamingInv, StreamingTypeOK, PeerAccounted, Accounted, Reports

\* Streams to peers are unchanged.
LEMMA SameStreams ==
    ASSUME UNCHANGED <<streams, dead>>, NEW p
    PROVE  HasStream(p)' <=> HasStream(p)
BY DEF HasStream, PlacesOf

\* Requests and responses of the application.
LEMMA RequestKeeps ==
    ASSUME RpcInv, NEW k \in Calls, RequestOnStream(k) \/ RequestPending(k) \/ RequestIgnored(k)
    PROVE  RpcInv'
<1>1. k[1] \in Peers /\ call[k] = "new" /\ call \in [Calls -> CallStates]
      /\ written \in [Calls -> Nat]
  BY DEF Calls, RequestOnStream, RequestPending, RequestIgnored, FirstUnused, RpcInv, RpcTypeOK
<1>2. UNCHANGED <<streams, dead, reply>>
  BY DEF RequestOnStream, RequestPending, RequestIgnored
<1>3. StreamingInv'
  <2>1. CASE RequestPending(k)
    BY <1>1, <2>1, CreateStreamKeeps DEF RequestPending, RpcInv
  <2>2. CASE RequestOnStream(k) \/ RequestIgnored(k)
    BY <2>2, StreamingUnchanged DEF RequestOnStream, RequestIgnored, streamingVars, RpcInv
  <2> QED
    BY <2>1, <2>2
<1>4. PICK x \in CallStates \ {"new"} : call' = [call EXCEPT ![k] = x] /\ (x = "pending" => ~HasStream(k[1]))
  BY DEF RequestOnStream, RequestPending, RequestIgnored, CallStates
<1>5. \/ UNCHANGED written
      \/ written' = [written EXCEPT ![k] = @ + 1] /\ x # "pending"
  BY <1>1, <1>4 DEF RequestOnStream, RequestPending, RequestIgnored, CallStates
<1>6. RpcTypeOK'
  BY <1>1, <1>2, <1>4, <1>5 DEF RpcInv, RpcTypeOK
<1>7. ASSUME NEW j \in Calls
      PROVE  \/ /\ written'[j] = written[j]
                /\ call'[j] \in {"new", "pending"} => call[j] \in {"new", "pending"}
             \/ /\ written'[j] = written[j] + 1 /\ call[j] \in {"new", "pending"}
                /\ call'[j] \notin {"new", "pending"}
  BY <1>1, <1>4, <1>5
<1>8. ASSUME NEW p \in Peers
      PROVE  HasStream(p)' => PendingCalls(p)' = {} /\ PendingReplies(p)' = {}
  <2>1. HasStream(p)' <=> HasStream(p)
    BY <1>2, SameStreams
  <2>2. CASE p = k[1] /\ x = "pending"
    BY <1>4, <2>1, <2>2
  <2>3. CASE ~(p = k[1] /\ x = "pending")
    BY <1>1, <1>2, <1>4, <2>1, <2>3, NothingWaits
  <2> QED
    BY <2>2, <2>3
<1> QED
  BY <1>3, <1>6, <1>7, <1>8, RpcStep

\* Responses of the application, and requests of the peers.
LEMMA RespondKeeps ==
    ASSUME RpcInv, NEW q \in Served,
           RespondOnStream(q) \/ RespondPending(q) \/ RespondIgnored(q) \/ IncomingRequest(q)
    PROVE  RpcInv'
<1>1. q[1] \in Peers /\ reply \in [Served -> ReplyStates]
  BY DEF Served, RpcInv, RpcTypeOK
<1>2. UNCHANGED <<streams, dead, call, written>>
  BY DEF RespondOnStream, RespondPending, RespondIgnored, IncomingRequest
<1>3. StreamingInv'
  <2>1. CASE RespondPending(q)
    BY <1>1, <2>1, CreateStreamKeeps DEF RespondPending, RpcInv
  <2>2. CASE RespondOnStream(q) \/ RespondIgnored(q) \/ IncomingRequest(q)
    BY <2>2, StreamingUnchanged DEF RespondOnStream, RespondIgnored, IncomingRequest,
       rpcUnchangedByStreams, streamingVars, RpcInv
  <2> QED
    BY <2>1, <2>2
<1>4. PICK x \in ReplyStates : reply' = [reply EXCEPT ![q] = x] /\ (x = "pending" => ~HasStream(q[1]))
  BY DEF RespondOnStream, RespondPending, RespondIgnored, IncomingRequest, ReplyStates
<1>5. RpcTypeOK'
  BY <1>1, <1>2, <1>4 DEF RpcInv, RpcTypeOK
<1>6. ASSUME NEW p \in Peers
      PROVE  HasStream(p)' => PendingCalls(p)' = {} /\ PendingReplies(p)' = {}
  <2>1. HasStream(p)' <=> HasStream(p)
    BY <1>2, SameStreams
  <2>2. CASE p = q[1] /\ x = "pending"
    BY <1>4, <2>1, <2>2
  <2>3. CASE ~(p = q[1] /\ x = "pending")
    BY <1>1, <1>2, <1>4, <2>1, <2>3, NothingWaits
  <2> QED
    BY <2>2, <2>3
<1> QED
  BY <1>2, <1>3, <1>5, <1>6, RpcStep

\* Answers, errors of streams and dropped streams.
LEMMA StreamYields ==
    ASSUME RpcInv, \/ \E k \in Calls : Response(k)
                   \/ \E p \in Peers : StreamError(p) \/ DropStream(p)
                   \/ \E p \in Peers, c \in Conns : StreamBreaks(p, c) \/ Closed(p, c)
    PROVE  RpcInv'
<1>1. /\ call \in [Calls -> CallStates] /\ reply \in [Served -> ReplyStates]
      /\ written \in [Calls -> Nat] /\ streams \in [Peers -> [Places -> Nat]]
      /\ dead \in [Peers -> Nat] /\ NoConn \in Places /\ Conns \subseteq Places
      /\ StreamingInv
  BY DEF RpcInv, RpcTypeOK, Places
<1>2. ASSUME StreamingInv', RpcTypeOK', UNCHANGED written,
             \A k \in Calls : call'[k] \in {"new", "pending"} => call'[k] = call[k],
             \A q \in Served : reply'[q] = "pending" => reply[q] = "pending",
             \A p \in Peers : HasStream(p)' => HasStream(p)
      PROVE  RpcInv'
  <2>1. \A p \in Peers : HasStream(p)' => PendingCalls(p)' = {} /\ PendingReplies(p)' = {}
    BY <1>2, NothingWaits
  <2>2. ASSUME NEW k \in Calls
        PROVE  /\ written'[k] = written[k]
               /\ call'[k] \in {"new", "pending"} => call[k] \in {"new", "pending"}
    BY <1>2
  <2> QED
    BY <1>2, <2>1, <2>2, RpcStep
<1>3. ASSUME NEW k \in Calls, Response(k) PROVE RpcInv'
  <2>1. /\ UNCHANGED <<streams, dead, reply, written>>
        /\ call' = [call EXCEPT ![k] = IF @ = "ongoing" THEN "answered" ELSE @]
    BY <1>3 DEF Response
  <2>2. StreamingInv'
    BY <1>1, <1>3, StreamingUnchanged DEF Response, rpcUnchangedByStreams
  <2>3. RpcTypeOK'
    BY <1>1, <2>1 DEF RpcTypeOK, CallStates
  <2> QED
    BY <1>1, <1>2, <2>1, <2>2, <2>3, SameStreams
<1>4. ASSUME NEW p \in Peers, StreamError(p) PROVE RpcInv'
  <2>1. /\ streams[p][NoConn] > 0 /\ streams' = [streams EXCEPT ![p][NoConn] = @ - 1]
        /\ dead' = [dead EXCEPT ![p] = @ + 1] /\ UNCHANGED written
        /\ call' = [k \in Calls |-> IF k \in FailedCalls(p) THEN "failed" ELSE call[k]]
        /\ reply' = [q \in Served |-> IF q \in PendingReplies(p) THEN "lost" ELSE reply[q]]
    BY <1>4 DEF StreamError
  <2>2. StreamingInv'
    BY <1>1, <1>4, StreamingUnchanged DEF StreamError, rpcUnchangedByStreams
  <2>3. RpcTypeOK'
    BY <1>1, <2>1 DEF RpcTypeOK, CallStates, ReplyStates
  <2>4. HasStream(p)
    BY <1>1, <2>1 DEF HasStream, PlacesOf
  <2>5. \A q \in Peers \ {p} : streams'[q] = streams[q] /\ dead'[q] = dead[q]
    BY <1>1, <2>1
  <2>6. \A q \in Peers : HasStream(q)' => HasStream(q)
    BY <2>4, <2>5 DEF HasStream, PlacesOf
  <2> QED
    BY <1>1, <1>2, <2>1, <2>2, <2>3, <2>6
<1>5. ASSUME NEW p \in Peers, DropStream(p) PROVE RpcInv'
  <2>1. /\ dead[p] > 0 /\ dead' = [dead EXCEPT ![p] = @ - 1]
        /\ UNCHANGED <<streams, call, reply, written>>
    BY <1>5 DEF DropStream
  <2>2. StreamingInv'
    BY <1>1, <1>5, StreamingUnchanged DEF DropStream, rpcUnchangedByStreams
  <2>3. RpcTypeOK'
    BY <1>1, <2>1 DEF RpcTypeOK
  <2>4. \A q \in Peers : HasStream(q)' => HasStream(q)
    BY <1>1, <2>1 DEF HasStream, PlacesOf
  <2> QED
    BY <1>2, <2>1, <2>2, <2>3, <2>4
<1>6. ASSUME NEW p \in Peers, NEW c \in Conns, StreamBreaks(p, c) \/ Closed(p, c) PROVE RpcInv'
  <2>1. c # NoConn /\ c \in Places
    BY <1>1, StreamingAssumption
  <2>2. PICK n \in 0 .. streams[p][c] :
           streams' = [streams EXCEPT ![p] = [streams[p] EXCEPT ![c] = streams[p][c] - n,
                                                               ![NoConn] = streams[p][NoConn] + n]]
    <3>1. CASE StreamBreaks(p, c)
      <4>1. streams' = [streams EXCEPT ![p] = [streams[p] EXCEPT ![c] = streams[p][c] - 1,
                                                                ![NoConn] = streams[p][NoConn] + 1]]
        BY <1>1, <2>1, <3>1 DEF StreamBreaks
      <4>2. 1 \in 0 .. streams[p][c]
        BY <1>1, <2>1, <3>1 DEF StreamBreaks
      <4> QED
        BY <4>1, <4>2
    <3>2. CASE Closed(p, c)
      <4> DEFINE n == streams[p][c]
      <4>1. streams' = [streams EXCEPT ![p] = [streams[p] EXCEPT ![c] = 0,
                                                                ![NoConn] = streams[p][NoConn] + n]]
        BY <1>1, <2>1, <3>2 DEF Closed
      <4>2. n \in 0 .. streams[p][c] /\ n - n = 0
        BY <1>1, <2>1
      <4> QED
        BY <4>1, <4>2
    <3> QED
      BY <1>6, <3>1, <3>2
  <2>3. UNCHANGED <<dead, call, reply, written>>
    BY <1>6 DEF StreamBreaks, Closed
  <2>4. StreamingInv'
    BY <1>1, <1>6, StreamingUnchanged, ClosedKeeps DEF StreamBreaks, Closed, rpcUnchangedByStreams
  <2>5. /\ streams' \in [Peers -> [Places -> Nat]]
        /\ \A q \in Peers \ {p} : streams'[q] = streams[q]
        /\ \A d \in Places : streams'[p][d] > 0 => streams[p][d] > 0 \/ streams[p][c] > 0
    BY <1>1, <2>1, <2>2
  <2>6. RpcTypeOK'
    BY <1>1, <2>3, <2>5 DEF RpcTypeOK
  <2>7. \A q \in Peers : HasStream(q)' => HasStream(q)
    BY <2>1, <2>3, <2>5 DEF HasStream, PlacesOf
  <2> QED
    BY <1>2, <2>3, <2>4, <2>6, <2>7
<1> QED
  BY <1>3, <1>4, <1>5, <1>6

\* A new stream takes all that waited for one, and a failure drops the responses.
LEMMA StreamingYields ==
    ASSUME RpcInv, NewStream \/ NoStream
    PROVE  RpcInv'
<1>1. /\ call \in [Calls -> CallStates] /\ reply \in [Served -> ReplyStates]
      /\ written \in [Calls -> Nat] /\ streams \in [Peers -> [Places -> Nat]]
      /\ dead \in [Peers -> Nat] /\ StreamingInv
  BY DEF RpcInv, RpcTypeOK
<1>2. StreamingInv' /\ UNCHANGED dead
  BY <1>1, GenerateKeeps DEF NewStream, NoStream
<1>3. PICK p \in Peers, c \in Places : p = Last(events).peer /\ c = Last(events).conn
  <2>1. events \in Seq(EventRecords) /\ events # <<>>
    BY <1>1 DEF StreamingInv, StreamingTypeOK, NewStream, NoStream, GenerateEvent
  <2>2. Last(events) \in EventRecords
    BY <2>1, ReportsFront
  <2> QED
    BY <2>2 DEF EventRecords
<1>4. CASE NoStream
  <2>1. /\ UNCHANGED <<streams, dead, call, written>>
        /\ reply' = [q \in Served |-> IF q \in PendingReplies(p) THEN "lost" ELSE reply[q]]
    BY <1>3, <1>4 DEF NoStream
  <2>2. RpcTypeOK'
    BY <1>1, <2>1 DEF RpcTypeOK, ReplyStates
  <2>3. ASSUME NEW q \in Peers
        PROVE  HasStream(q)' => PendingCalls(q)' = {} /\ PendingReplies(q)' = {}
    <3>1. HasStream(q)' <=> HasStream(q)
      BY <2>1, SameStreams
    <3> QED
      BY <2>1, <3>1, NothingWaits
  <2> QED
    BY <1>2, <2>1, <2>2, <2>3, RpcStep
<1>5. CASE NewStream
  <2>1. PICK unfit \in SUBSET (PendingCalls(p) \cup PendingReplies(p)) :
           /\ streams' = [streams EXCEPT ![p][c] = @ + 1]
           /\ call' = [k \in Calls |-> IF k \in PendingCalls(p) THEN Taken(k, unfit) ELSE call[k]]
           /\ written' = [k \in Calls |-> IF k \in PendingCalls(p) \ unfit THEN written[k] + 1
                                          ELSE written[k]]
           /\ reply' = [q \in Served |->
                           IF q \notin PendingReplies(p) THEN reply[q]
                           ELSE IF q \in unfit \/ c = NoConn THEN "lost" ELSE "sent"]
    BY <1>3, <1>5 DEF NewStream, StreamTo
  <2>2. /\ streams' \in [Peers -> [Places -> Nat]]
        /\ \A q \in Peers \ {p} : streams'[q] = streams[q]
    BY <1>1, <2>1
  <2>3. \A k \in Calls : Taken(k, unfit) \in {"failed", "ongoing"}
    BY DEF Taken
  <2>4. call' \in [Calls -> CallStates] /\ reply' \in [Served -> ReplyStates]
    BY <1>1, <2>1, <2>3 DEF CallStates, ReplyStates
  <2>5. RpcTypeOK'
    BY <1>1, <1>2, <2>1, <2>2, <2>4 DEF RpcTypeOK
  <2>6. ASSUME NEW k \in Calls
        PROVE  \/ /\ written'[k] = written[k]
                  /\ call'[k] \in {"new", "pending"} => call[k] \in {"new", "pending"}
               \/ /\ written'[k] = written[k] + 1 /\ call[k] \in {"new", "pending"}
                  /\ call'[k] \notin {"new", "pending"}
    <3>1. CASE k \in PendingCalls(p)
      BY <2>1, <2>3, <3>1 DEF PendingCalls
    <3>2. CASE k \notin PendingCalls(p)
      BY <2>1, <3>2
    <3> QED
      BY <3>1, <3>2
  <2>7. ASSUME NEW q \in Peers
        PROVE  HasStream(q)' => PendingCalls(q)' = {} /\ PendingReplies(q)' = {}
    <3>1. CASE q = p
      <4>1. ASSUME NEW k \in Calls, k[1] = p PROVE call'[k] # "pending"
        BY <2>1, <2>3, <4>1 DEF PendingCalls
      <4>2. ASSUME NEW r \in Served, r[1] = p PROVE reply'[r] # "pending"
        BY <2>1, <4>2 DEF PendingReplies
      <4> QED
        BY <3>1, <4>1, <4>2 DEF PendingCalls, PendingReplies
    <3>2. CASE q # p
      <4>1. HasStream(q)' <=> HasStream(q)
        BY <1>2, <2>2, <3>2 DEF HasStream, PlacesOf
      <4>2. \A k \in Calls : k[1] = q => call'[k] = call[k]
        BY <2>1, <3>2 DEF PendingCalls
      <4>3. \A r \in Served : r[1] = q => reply'[r] = reply[r]
        BY <2>1, <3>2 DEF PendingReplies
      <4> QED
        BY <4>1, <4>2, <4>3, NothingWaits
    <3> QED
      BY <3>1, <3>2
  <2> QED
    BY <1>2, <2>5, <2>6, <2>7, RpcStep
<1> QED
  BY <1>4, <1>5

\* Steps of the swarm and of streaming's own.
LEMMA SwarmKeeps ==
    ASSUME RpcInv, SwarmStep, UNCHANGED <<streams, dead, call, reply, heard, written>>
    PROVE  RpcInv'
<1>1. StreamingInv'
  BY DialFailureKeeps, DialKeeps, EstablishedKeeps, OutgoingKeeps, IncomingKeeps, NotifyKeeps
  DEF SwarmStep, RpcInv
<1>2. RpcTypeOK'
  BY DEF RpcInv, RpcTypeOK
<1>3. \A p \in Peers : HasStream(p)' => PendingCalls(p)' = {} /\ PendingReplies(p)' = {}
  BY SameStreams, NothingWaits
<1> QED
  BY <1>1, <1>2, <1>3, RpcStep

\* Every step keeps the invariant.
LEMMA NextRpc == RpcInv /\ [Next]_vars => RpcInv'
<1> SUFFICES ASSUME RpcInv, [Next]_vars PROVE RpcInv'
  OBVIOUS
<1>1. CASE UNCHANGED vars
  <2>1. UNCHANGED <<swarm, connected_peers, dial_requests, stream_requests, requested, events, due,
                    streams, dead, call, reply, written>>
    BY <1>1 DEF vars, streamingVars
  <2>2. StreamingInv'
    BY <2>1, StreamingUnchanged DEF RpcInv
  <2>3. RpcTypeOK'
    BY <2>1 DEF RpcInv, RpcTypeOK
  <2>4. \A p \in Peers : HasStream(p)' => PendingCalls(p)' = {} /\ PendingReplies(p)' = {}
    BY <2>1, SameStreams, NothingWaits
  <2> QED
    BY <2>1, <2>2, <2>3, <2>4, RpcStep
<1>2. CASE Next
  BY <1>2, RequestKeeps, RespondKeeps, StreamYields, StreamingYields, SwarmKeeps DEF Next
<1> QED
  BY <1>1, <1>2

\* Nothing is owed, kept or written at first.
LEMMA InitRpc == Init => RpcInv
<1> SUFFICES ASSUME Init PROVE RpcInv
  OBVIOUS
<1> DEFINE z == [c \in Conns |-> 0]
<1>1. z \in Counts /\ Total(z) = 0 /\ \A c \in Conns : z[c] = 0
  BY TotalZero DEF Counts
<1>2. NoDial.count = -1
  BY DEF NoDial, DialRequest
<1>3. \A p : Cardinality(Reports(<<>>, p)) = 0
  <2>1. \A p : Reports(<<>>, p) = {}
    BY DEF Reports
  <2> QED
    BY <2>1, FS_EmptySet
<1>4. StreamingInit
  BY DEF Init
<1>5. /\ stream_requests = [p \in Peers |-> z] /\ requested = [p \in Peers |-> z]
      /\ events = <<>> /\ dial_requests = [p \in Peers |-> NoDial]
      /\ connected_peers = [p \in Peers |-> NoConn] /\ due = [p \in Peers |-> 0]
      /\ swarm = [p \in Peers |-> {}]
  BY <1>4 DEF StreamingInit
<1> HIDE DEF z
<1>6. StreamingTypeOK
  BY <1>1, <1>5 DEF StreamingTypeOK, Places
<1>7. ASSUME NEW p \in Peers PROVE PeerAccounted(p)
  BY <1>1, <1>2, <1>3, <1>5 DEF PeerAccounted, Accounted
<1>8. RpcTypeOK /\ WaitingUnwritten
  BY DEF Init, RpcTypeOK, WaitingUnwritten, CallStates, ReplyStates
<1>9. \A p \in Peers : ~HasStream(p)
  BY DEF Init, HasStream, PlacesOf
<1>10. WrittenOnce
  BY <1>9 DEF Init, WrittenOnce
<1> QED
  BY <1>6, <1>7, <1>8, <1>10 DEF RpcInv, StreamingInv

\* Every stream that was asked for is accounted for, whatever connections come and go and
\* however many requests, peers and connections there are.
THEOREM StreamsAccountedHolds == Spec => []StreamsAccounted
<1>1. RpcInv => StreamsAccounted
  BY StreamingInvAccounts DEF RpcInv
<1> QED
  BY <1>1, InitRpc, NextRpc, PTL DEF Spec

\* No request is ever written to two streams, and none is overtaken while it waits for one.
THEOREM WrittenOnceHolds == Spec => []WrittenOnce
<1>1. RpcInv => WrittenOnce
  BY DEF RpcInv
<1> QED
  BY <1>1, InitRpc, NextRpc, PTL DEF Spec

\* The outcome of a request never changes: a late answer, a new stream and an error of another
\* stream leave it as it is.
THEOREM OutcomeIsFinalHolds == Spec => OutcomeIsFinal
<1> DEFINE Kept == \A k \in Calls : call[k] \in {"answered", "failed"} => call'[k] = call[k]
<1>1. RpcInv /\ [Next]_vars => [Kept]_vars
  <2> SUFFICES ASSUME RpcInv, Next PROVE Kept
    BY DEF RpcInv
  <2>1. call \in [Calls -> CallStates]
    BY DEF RpcInv, RpcTypeOK
  <2>2. ASSUME NEW k \in Calls, \/ RequestOnStream(k) \/ RequestPending(k) \/ RequestIgnored(k)
                                \/ Response(k)
        PROVE  Kept
    <3>1. CASE Response(k)
      BY <2>1, <3>1 DEF Response
    <3>2. CASE RequestOnStream(k) \/ RequestPending(k) \/ RequestIgnored(k)
      <4>1. call[k] = "new" /\ \E x \in CallStates : call' = [call EXCEPT ![k] = x]
        BY <3>2 DEF RequestOnStream, RequestPending, RequestIgnored, FirstUnused, CallStates
      <4> QED
        BY <2>1, <4>1
    <3> QED
      BY <2>2, <3>1, <3>2
  <2>3. ASSUME NEW p \in Peers, StreamError(p) PROVE Kept
    BY <2>1, <2>3 DEF StreamError, FailedCalls
  <2>4. CASE NewStream
    <3>1. PICK p, unfit :
             call' = [k \in Calls |-> IF k \in PendingCalls(p) THEN Taken(k, unfit) ELSE call[k]]
      BY <2>4 DEF NewStream, StreamTo
    <3> QED
      BY <3>1 DEF PendingCalls
  <2>5. ASSUME UNCHANGED call PROVE Kept
    BY <2>5
  <2>6. ASSUME NEW q \in Served,
               RespondOnStream(q) \/ RespondPending(q) \/ RespondIgnored(q) \/ IncomingRequest(q)
        PROVE  UNCHANGED call
    BY <2>6 DEF RespondOnStream, RespondPending, RespondIgnored, IncomingRequest
  <2>7. ASSUME NEW p \in Peers, NEW c \in Conns, DropStream(p) \/ Closed(p, c) \/ StreamBreaks(p, c)
        PROVE  UNCHANGED call
    BY <2>7 DEF DropStream, Closed, StreamBreaks
  <2>8. ASSUME NEW p \in Peers, DropStream(p) PROVE UNCHANGED call
    BY <2>8 DEF DropStream
  <2>9. NoStream => UNCHANGED call
    BY DEF NoStream
  <2> HIDE DEF Kept
  <2> QED
    BY <2>2, <2>3, <2>4, <2>5, <2>6, <2>7, <2>8, <2>9 DEF Next
<1> QED
  BY <1>1, InitRpc, NextRpc, PTL DEF Spec, OutcomeIsFinal
=============================================================================
