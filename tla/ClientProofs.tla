---------------------------- MODULE ClientProofs ----------------------------
(***************************************************************************)
(* Proofs about the client, from its first key to the end of the node: its *)
(* chats are covered when it starts (ClientBoot), and while it runs jobs   *)
(* of a topic keep their order and the selected chat is heard              *)
(* (ClientNode).                                                           *)
(***************************************************************************)
EXTENDS ClientNode, FiniteSetTheorems, SequenceTheorems, TLAPS

-----------------------------------------------------------------------------
(* Getting into the network.                                                *)

BootPhases == {"keys", "profile", "vault", "create", "chats", "starting"}

NoPaths == \A i \in Paths : awaiting[i] = NoStream
NoStreams == \A i \in Paths : streams[i] = NoStream

\* The profile's stream is the only one.
ProfileOnly == /\ streams[1] # NoStream /\ streams[1].topics = {Me}
               /\ \A i \in Paths : i # 1 => streams[i] = NoStream

ProfileAwaited == /\ awaiting[1] # NoStream /\ awaiting[1].topics = {Me}
                  /\ \A i \in Paths : i # 1 => awaiting[i] = NoStream

\* Streams and paths lead to replicators of their topics.
Placed == /\ \A i \in Paths : streams[i] # NoStream =>
                /\ streams[i].subs = {}
                /\ \A t \in streams[i].topics : streams[i].peer \in Group[t]
          /\ \A i \in Paths : awaiting[i] # NoStream =>
                /\ streams[i] = NoStream
                /\ \A t \in awaiting[i].topics : awaiting[i].peer \in Group[t]

\* A topic has a stream, or a path that will become one.
CoveredBy(i, t) == \/ streams[i] # NoStream /\ t \in streams[i].topics
                   \/ awaiting[i] # NoStream /\ t \in awaiting[i].topics
Covered == \A t \in chats \cup {Me} : \E i \in Paths : CoveredBy(i, t)

Booting ==
    /\ awaiting \in [Paths -> PathTypes \cup {NoStream}]
    /\ streams \in [Paths -> StreamTypes \cup {NoStream}]
    /\ Placed
    /\ phase = "keys" => NoStreams /\ NoPaths
    /\ phase = "profile" => NoStreams /\ ProfileAwaited
    /\ phase \in {"vault", "create"} => ProfileOnly /\ NoPaths
    /\ phase \in {"chats", "starting"} => Covered
    /\ phase = "starting" => NoPaths

BootInv == phase \in BootPhases => Booting

LEMMA FirstPath == Paths \subseteq Nat /\ 1 \in Paths /\ IsFiniteSet(Peers)
BY ClientAssumption DEF Paths

\* What is opened is not NoStream.
LEMMA NotNoStream ==
    ASSUME NEW p \in PathTypes
    PROVE  /\ p # NoStream
           /\ Stream(p.peer, p.topics) \in StreamTypes /\ Stream(p.peer, p.topics) # NoStream
           /\ Stream(p.peer, p.topics).peer = p.peer
           /\ Stream(p.peer, p.topics).topics = p.topics
           /\ Stream(p.peer, p.topics).subs = {}
           /\ Stream(p.peer, p.topics).io = "open"
<1>1. NoStream \notin PathTypes /\ NoStream \notin StreamTypes
  BY ClientAssumption
<1>2. Stream(p.peer, p.topics) \in StreamTypes
  BY DEF Stream, PathTypes, StreamTypes
<1> QED
  BY <1>1, <1>2 DEF Stream

LEMMA GotKeyInv == ASSUME BootInv, NEW p \in Peers, GotKey(p) PROVE BootInv'
<1>1. Booting /\ phase = "keys" /\ NoStreams /\ NoPaths
  BY DEF GotKey, BootInv, BootPhases, Booting
<1>2. streams' = streams
  BY DEF GotKey
<1>3. PICK pick \in Group[Me] :
          awaiting' = IF phase' # "profile" THEN awaiting
                      ELSE [awaiting EXCEPT ![1] = [peer |-> pick, topics |-> {Me}]]
  BY DEF GotKey
<1>4. CASE phase' # "profile"
  <2>1. awaiting' = awaiting /\ phase' \in {"keys", "failed"}
    BY <1>3, <1>4 DEF GotKey
  <2> QED
    BY <1>1, <1>2, <2>1 DEF BootInv, Booting, BootPhases, Placed, NoStreams, NoPaths
<1>5. CASE phase' = "profile"
  <2> DEFINE a == [peer |-> pick, topics |-> {Me}]
  <2>1. a \in PathTypes /\ a.peer = pick /\ a.topics = {Me} /\ pick \in Group[Me]
    BY ClientAssumption DEF PathTypes
  <2>2. a # NoStream
    BY <2>1, NotNoStream
  <2>3. awaiting' = [awaiting EXCEPT ![1] = a]
    BY <1>3, <1>5
  <2> HIDE DEF a
  <2>4. awaiting' \in [Paths -> PathTypes \cup {NoStream}]
    BY <1>1, <2>1, <2>3 DEF Booting
  <2>5. awaiting'[1] = a /\ \A i \in Paths : i # 1 => awaiting'[i] = NoStream
    BY <1>1, <2>3, FirstPath DEF Booting, NoPaths
  <2>6. ProfileAwaited'
    BY <2>1, <2>2, <2>5 DEF ProfileAwaited
  <2>7. NoStreams'
    BY <1>1, <1>2 DEF NoStreams
  <2>8. Placed'
    BY <2>1, <2>5, <2>7 DEF Placed, NoStreams
  <2> QED
    BY <1>1, <1>2, <1>5, <2>4, <2>6, <2>7, <2>8 DEF BootInv, Booting
<1> QED
  BY <1>4, <1>5

LEMMA ProfilePathOpenedInv == ASSUME BootInv, ProfilePathOpened PROVE BootInv'
<1>1. Booting /\ phase = "profile" /\ NoStreams /\ ProfileAwaited /\ Placed
  BY DEF ProfilePathOpened, BootInv, BootPhases, Booting
<1>2. /\ streams' = [streams EXCEPT ![1] = Stream(awaiting[1].peer, {Me})]
      /\ awaiting' = [awaiting EXCEPT ![1] = NoStream] /\ phase' = "vault"
  BY DEF ProfilePathOpened
<1> DEFINE s == Stream(awaiting[1].peer, {Me})
<1>3. awaiting[1] \in PathTypes /\ awaiting[1].topics = {Me} /\ awaiting[1].peer \in Group[Me]
  BY <1>1, FirstPath DEF Booting, ProfileAwaited, Placed
<1>4. /\ s \in StreamTypes /\ s # NoStream /\ s.peer = awaiting[1].peer /\ s.topics = {Me}
      /\ s.subs = {}
  BY <1>3, NotNoStream
<1> HIDE DEF s
<1>5. streams' = [streams EXCEPT ![1] = s]
  BY <1>2 DEF s
<1>6. streams' \in [Paths -> StreamTypes \cup {NoStream}]
      /\ awaiting' \in [Paths -> PathTypes \cup {NoStream}]
  BY <1>1, <1>2, <1>4, <1>5 DEF Booting
<1>7. streams'[1] = s /\ \A i \in Paths : i # 1 => streams'[i] = NoStream
  BY <1>1, <1>5, FirstPath DEF Booting, NoStreams
<1>8. NoPaths'
  BY <1>1, <1>2 DEF Booting, NoPaths, ProfileAwaited
<1>9. ProfileOnly'
  BY <1>4, <1>7 DEF ProfileOnly
<1>10. Placed'
  BY <1>3, <1>4, <1>7, <1>8 DEF Placed, NoPaths
<1> QED
  BY <1>2, <1>6, <1>8, <1>9, <1>10 DEF BootInv, Booting

\* The numbers that the picked peers get are different, and follow that of the profile's path.
LEMMA Ranks ==
    ASSUME NEW n \in Nat, NEW P \in SUBSET (1 .. n)
    PROVE  /\ IsFiniteSet(P)
           /\ \A i \in P : Cardinality({j \in P : j <= i}) \in 1 .. Cardinality(P)
           /\ \A i, k \in P : Cardinality({j \in P : j <= i}) = Cardinality({j \in P : j <= k})
                                 => i = k
<1> DEFINE Upto(i) == {j \in P : j <= i}
<1>1. IsFiniteSet(1 .. n)
  BY FS_Interval
<1>2. IsFiniteSet(P) /\ Cardinality(P) \in Nat
  BY <1>1, FS_Subset, FS_CardinalityType
<1>3. ASSUME NEW i \in P PROVE IsFiniteSet(Upto(i)) /\ Cardinality(Upto(i)) \in Nat
                               /\ Cardinality(Upto(i)) <= Cardinality(P)
  <2>1. Upto(i) \subseteq P
    OBVIOUS
  <2> HIDE DEF Upto
  <2> QED
    BY <1>2, <2>1, FS_Subset, FS_CardinalityType
<1>4. ASSUME NEW i \in P PROVE Cardinality(Upto(i)) # 0
  <2>1. i \in Upto(i)
    OBVIOUS
  <2> HIDE DEF Upto
  <2>2. Upto(i) # {}
    BY <2>1
  <2> QED
    BY <1>3, <2>2, FS_EmptySet
<1>5. ASSUME NEW i \in P, NEW k \in P, i < k PROVE Cardinality(Upto(i)) < Cardinality(Upto(k))
  <2>0. i \in Int /\ k \in Int /\ \A j \in P : j \in Int
    OBVIOUS
  <2>1. Upto(i) \subseteq Upto(k) /\ k \in Upto(k) /\ k \notin Upto(i)
    <3>1. \A j \in P : j <= i => j <= k
      BY <1>5, <2>0
    <3>2. k <= k /\ ~(k <= i)
      BY <1>5, <2>0
    <3> QED
      BY <3>1, <3>2
  <2> HIDE DEF Upto
  <2>2. Upto(i) # Upto(k)
    BY <2>1
  <2> QED
    BY <1>3, <2>1, <2>2, FS_Subset
<1>6. ASSUME NEW i \in P, NEW k \in P, Cardinality(Upto(i)) = Cardinality(Upto(k)) PROVE i = k
  <2>1. i < k \/ k < i \/ i = k
    OBVIOUS
  <2>2. ~(Cardinality(Upto(i)) < Cardinality(Upto(k)))
        /\ ~(Cardinality(Upto(k)) < Cardinality(Upto(i)))
    BY <1>3, <1>6
  <2> QED
    BY <1>5, <2>1, <2>2
<1>7. \A i \in P : Cardinality(Upto(i)) \in 1 .. Cardinality(P)
  BY <1>2, <1>3, <1>4
<1> QED
  BY <1>2, <1>6, <1>7

\* What OpenChats does, with the peers that were picked named.
LEMMA OpenChatsFacts ==
    ASSUME NEW vault \in SUBSET Chats, OpenChats(vault)
    PROVE  \E N \in Nat : \E o \in [1 .. N -> Peers] : \E set \in [1 .. N -> SUBSET vault] :
              \E picks \in SUBSET (1 .. N) :
              /\ picks = {i \in 1 .. N : set[i] # {}}
              /\ \A i \in 1 .. N : \A c \in set[i] : o[i] \in Group[c]
              /\ Cardinality(picks) < MaxPaths
              /\ chats' = vault
              /\ phase' \in {"panicked", "starting", "chats"}
              /\ phase' # "panicked" => \A c \in vault : \E i \in picks : c \in set[i]
              /\ phase' = "starting" => picks = {}
              /\ streams' = [streams EXCEPT ![1].topics =
                                @ \cup {c \in vault : streams[1].peer \in Group[c]}]
              /\ awaiting' = [k \in Paths |-> IF \E i \in picks : PathTo(picks, i) = k
                                 THEN LET i == CHOOSE i \in picks : PathTo(picks, i) = k
                                      IN  [peer |-> o[i], topics |-> set[i]]
                                 ELSE NoStream]
<1> DEFINE N == Cardinality(Peers)
<1>1. N \in Nat
  BY FirstPath, FS_CardinalityType
<1> DEFINE Opens(o, set, picks) ==
       /\ Cardinality(picks) < MaxPaths
       /\ chats' = vault
       /\ phase' = IF UNION Range(set) # vault THEN "panicked"
                   ELSE IF picks = {} THEN "starting" ELSE "chats"
       /\ streams' = [streams EXCEPT ![1].topics =
                         @ \cup {c \in vault : streams[1].peer \in Group[c]}]
       /\ awaiting' = [k \in Paths |-> IF \E i \in picks : PathTo(picks, i) = k
                          THEN LET i == CHOOSE i \in picks : PathTo(picks, i) = k
                               IN  [peer |-> o[i], topics |-> set[i]]
                          ELSE NoStream]
<1>2. PICK o \in Orders(vault) :
         Opens(o, Picked(o, vault), {i \in DOMAIN o : Picked(o, vault)[i] # {}})
  BY DEF OpenChats
<1>3. o \in [1 .. N -> Peers] /\ DOMAIN o = 1 .. N
  BY DEF Orders, SetToSeqs
<1>4. PICK set \in {Picked(o, vault)} : TRUE
  OBVIOUS
<1>5. PICK picks \in {{i \in 1 .. N : set[i] # {}}} : TRUE
  OBVIOUS
<1>6. Opens(o, set, picks)
  BY <1>2, <1>3, <1>4, <1>5
<1>7. set \in [1 .. N -> SUBSET vault]
      /\ \A i \in 1 .. N : \A c \in set[i] : o[i] \in Group[c]
  <2>1. \A p \in Peers : Served(p, vault) \in SUBSET vault
                         /\ \A c \in Served(p, vault) : p \in Group[c]
    BY DEF Served
  <2>2. set = [i \in 1 .. N |-> Served(o[i], vault)
                                   \ UNION {Served(o[j], vault) : j \in 1 .. i - 1}]
    BY <1>3, <1>4 DEF Picked
  <2> HIDE DEF N
  <2>3. ASSUME NEW i \in 1 .. N PROVE set[i] \in SUBSET vault /\ \A c \in set[i] : o[i] \in Group[c]
    <3>1. set[i] \subseteq Served(o[i], vault) /\ o[i] \in Peers
      BY <1>3, <2>2
    <3> QED
      BY <2>1, <3>1
  <2> QED
    BY <2>2, <2>3
<1>8. picks \in SUBSET (1 .. N) /\ picks = {i \in 1 .. N : set[i] # {}}
  BY <1>5
<1>9. phase' \in {"panicked", "starting", "chats"} /\ (phase' = "starting" => picks = {})
      /\ (phase' # "panicked" => UNION Range(set) = vault)
  <2>1. phase' = IF UNION Range(set) # vault THEN "panicked"
                 ELSE IF picks = {} THEN "starting" ELSE "chats"
    BY <1>6
  <2> HIDE DEF Opens
  <2> QED
    BY <2>1
<1>10. ASSUME phase' # "panicked", NEW c \in vault PROVE \E i \in picks : c \in set[i]
  <2>1. c \in UNION Range(set)
    BY <1>9, <1>10
  <2>2. PICK i \in DOMAIN set : c \in set[i]
    BY <2>1 DEF Range
  <2>3. i \in 1 .. N
    BY <1>7, <2>2
  <2> QED
    BY <1>8, <2>2, <2>3
<1> HIDE DEF N
<1> QED
  BY <1>1, <1>3, <1>6, <1>7, <1>8, <1>9, <1>10

LEMMA OpenChatsInv ==
    ASSUME Booting, phase \in {"vault", "create"}, NEW vault \in SUBSET Chats, OpenChats(vault)
    PROVE  BootInv'
<1>1. /\ awaiting \in [Paths -> PathTypes \cup {NoStream}]
      /\ streams \in [Paths -> StreamTypes \cup {NoStream}]
      /\ Placed /\ ProfileOnly /\ NoPaths
  BY DEF Booting
<1>2. PICK N \in Nat : \E o \in [1 .. N -> Peers] : \E set \in [1 .. N -> SUBSET vault] :
              \E picks \in SUBSET (1 .. N) :
              /\ picks = {i \in 1 .. N : set[i] # {}}
              /\ \A i \in 1 .. N : \A c \in set[i] : o[i] \in Group[c]
              /\ Cardinality(picks) < MaxPaths
              /\ chats' = vault
              /\ phase' \in {"panicked", "starting", "chats"}
              /\ phase' # "panicked" => \A c \in vault : \E i \in picks : c \in set[i]
              /\ phase' = "starting" => picks = {}
              /\ streams' = [streams EXCEPT ![1].topics =
                                @ \cup {c \in vault : streams[1].peer \in Group[c]}]
              /\ awaiting' = [k \in Paths |-> IF \E i \in picks : PathTo(picks, i) = k
                                 THEN LET i == CHOOSE i \in picks : PathTo(picks, i) = k
                                      IN  [peer |-> o[i], topics |-> set[i]]
                                 ELSE NoStream]
  BY OpenChatsFacts
<1>3. PICK o \in [1 .. N -> Peers], set \in [1 .. N -> SUBSET vault], picks \in SUBSET (1 .. N) :
              /\ picks = {i \in 1 .. N : set[i] # {}}
              /\ \A i \in 1 .. N : \A c \in set[i] : o[i] \in Group[c]
              /\ Cardinality(picks) < MaxPaths
              /\ chats' = vault
              /\ phase' \in {"panicked", "starting", "chats"}
              /\ phase' # "panicked" => \A c \in vault : \E i \in picks : c \in set[i]
              /\ phase' = "starting" => picks = {}
              /\ streams' = [streams EXCEPT ![1].topics =
                                @ \cup {c \in vault : streams[1].peer \in Group[c]}]
              /\ awaiting' = [k \in Paths |-> IF \E i \in picks : PathTo(picks, i) = k
                                 THEN LET i == CHOOSE i \in picks : PathTo(picks, i) = k
                                      IN  [peer |-> o[i], topics |-> set[i]]
                                 ELSE NoStream]
  BY <1>2
<1>4. Chats \subseteq Topics /\ MaxPaths \in Nat
  BY ClientAssumption
\* The numbers of the paths.
<1>5. /\ \A i \in picks : PathTo(picks, i) \in Paths /\ PathTo(picks, i) # 1
      /\ \A i, k \in picks : PathTo(picks, i) = PathTo(picks, k) => i = k
  <2>1. IsFiniteSet(picks) /\ Cardinality(picks) \in Nat
    BY Ranks, FS_CardinalityType
  <2>2. ASSUME NEW i \in picks
        PROVE  Cardinality({j \in picks : j <= i}) \in 1 .. Cardinality(picks)
    BY Ranks
  <2>0. Cardinality(picks) < MaxPaths
    BY <1>3
  <2> DEFINE R(i) == Cardinality({j \in picks : j <= i})
  <2>5. \A i, k \in picks : R(i) = R(k) => i = k
    BY Ranks
  <2>6. \A i \in picks : R(i) \in 1 .. Cardinality(picks)
    BY <2>2
  <2>7. \A i : PathTo(picks, i) = 1 + R(i)
    BY DEF PathTo
  <2> HIDE DEF R
  <2>3. ASSUME NEW i \in picks PROVE PathTo(picks, i) \in Paths /\ PathTo(picks, i) # 1
    BY <1>4, <2>0, <2>1, <2>6, <2>7 DEF Paths
  <2>4. ASSUME NEW i \in picks, NEW k \in picks, PathTo(picks, i) = PathTo(picks, k) PROVE i = k
    <3>1. R(i) = R(k)
      BY <2>1, <2>4, <2>6, <2>7
    <3> QED
      BY <2>5, <3>1
  <2> QED
    BY <2>3, <2>4
<1>6. ASSUME NEW i \in picks
      PROVE  awaiting'[PathTo(picks, i)] = [peer |-> o[i], topics |-> set[i]]
  <2>1. PICK k \in {PathTo(picks, i)} : TRUE
    OBVIOUS
  <2>2. (CHOOSE j \in picks : PathTo(picks, j) = k) = i
    BY <1>5, <2>1
  <2>3. k \in Paths /\ \E j \in picks : PathTo(picks, j) = k
    BY <1>5, <2>1
  <2>4. awaiting'[k] = [peer |-> o[i], topics |-> set[i]]
    BY <1>3, <2>2, <2>3
  <2> QED
    BY <2>1, <2>4
<1>7. ASSUME NEW i \in picks
      PROVE  [peer |-> o[i], topics |-> set[i]] \in PathTypes
             /\ [peer |-> o[i], topics |-> set[i]] # NoStream
  <2>1. o[i] \in Peers /\ set[i] \in SUBSET Topics
    BY <1>4
  <2>2. [peer |-> o[i], topics |-> set[i]] \in PathTypes
    BY <2>1 DEF PathTypes
  <2> QED
    BY <2>2, NotNoStream
<1>8. ASSUME NEW k \in Paths, awaiting'[k] # NoStream
      PROVE  \E i \in picks : PathTo(picks, i) = k
  BY <1>3, <1>8
<1>9. ASSUME NEW k \in Paths
      PROVE  awaiting'[k] \in PathTypes \cup {NoStream}
  <2>1. CASE awaiting'[k] = NoStream
    BY <2>1
  <2>2. CASE awaiting'[k] # NoStream
    BY <1>6, <1>7, <1>8, <2>2
  <2> QED
    BY <2>1, <2>2
<1>10. awaiting' \in [Paths -> PathTypes \cup {NoStream}]
  BY <1>3, <1>9
\* The profile's stream.
<1> DEFINE more == {c \in vault : streams[1].peer \in Group[c]}
           s == [streams[1] EXCEPT !.topics = @ \cup more]
<1>11. streams[1] \in StreamTypes
  BY <1>1, FirstPath DEF ProfileOnly
<1>12. /\ s \in StreamTypes /\ s.peer = streams[1].peer /\ s.topics = {Me} \cup more
       /\ s.subs = {}
  <2>1. more \subseteq Topics
    BY <1>4
  <2>2. streams[1].topics = {Me} /\ streams[1].subs = {}
    BY <1>1, FirstPath DEF ProfileOnly, Placed
  <2> QED
    BY <1>11, <2>1, <2>2 DEF StreamTypes
<1>13. s # NoStream
  BY <1>12, ClientAssumption
<1>14. streams' = [streams EXCEPT ![1] = s]
  BY <1>3
<1>15. \A c \in {Me} \cup more : s.peer \in Group[c]
  <2>1. streams[1].peer \in Group[Me]
    BY <1>1, FirstPath DEF ProfileOnly, Placed
  <2> QED
    BY <1>12, <2>1
<1> HIDE DEF s, more
<1>16. streams' \in [Paths -> StreamTypes \cup {NoStream}]
  BY <1>1, <1>12, <1>14
<1>17. streams'[1] = s /\ \A i \in Paths : i # 1 => streams'[i] = NoStream
  BY <1>1, <1>14, FirstPath DEF ProfileOnly
<1>18. Placed'
  <2>1. ASSUME NEW i \in Paths, streams'[i] # NoStream
        PROVE  streams'[i].subs = {} /\ \A t \in streams'[i].topics : streams'[i].peer \in Group[t]
    BY <1>12, <1>15, <1>17, <2>1
  <2>2. ASSUME NEW k \in Paths, awaiting'[k] # NoStream
        PROVE  streams'[k] = NoStream /\ \A t \in awaiting'[k].topics : awaiting'[k].peer \in Group[t]
    <3>1. PICK i \in picks : PathTo(picks, i) = k
      BY <1>8, <2>2
    <3>2. k # 1 /\ awaiting'[k] = [peer |-> o[i], topics |-> set[i]]
      BY <1>5, <1>6, <3>1
    <3>3. \A c \in set[i] : o[i] \in Group[c]
      BY <1>3
    <3>4. awaiting'[k].topics = set[i] /\ awaiting'[k].peer = o[i]
      BY <3>2
    <3> QED
      BY <1>17, <3>2, <3>3, <3>4
  <2> QED
    BY <2>1, <2>2 DEF Placed
<1>19. ASSUME phase' # "panicked" PROVE Covered'
  <2> SUFFICES ASSUME NEW t \in chats' \cup {Me} PROVE \E i \in Paths : CoveredBy(i, t)'
    BY DEF Covered
  <2>1. CASE t = Me
    <3>1. CoveredBy(1, t)'
      BY <1>12, <1>13, <1>17, <2>1 DEF CoveredBy
    <3> QED
      BY <3>1, FirstPath
  <2>2. CASE t \in vault
    <3>1. PICK i \in picks : t \in set[i]
      BY <1>3, <1>19, <2>2
    <3>2. PICK k \in Paths : k = PathTo(picks, i)
      BY <1>5
    <3>3. awaiting'[k] # NoStream /\ t \in awaiting'[k].topics
      <4>1. awaiting'[k] = [peer |-> o[i], topics |-> set[i]]
        BY <1>6, <3>2
      <4>2. [peer |-> o[i], topics |-> set[i]] # NoStream
        BY <1>7
      <4> QED
        BY <3>1, <4>1, <4>2
    <3> QED
      BY <3>3 DEF CoveredBy
  <2> QED
    BY <1>3, <2>1, <2>2
<1>20. phase' = "starting" => NoPaths'
  BY <1>3, <1>8 DEF NoPaths
<1> QED
  BY <1>3, <1>10, <1>16, <1>18, <1>19, <1>20 DEF BootInv, Booting, BootPhases

LEMMA ChatPathOpenedInv == ASSUME BootInv, NEW i \in Paths, ChatPathOpened(i) PROVE BootInv'
<1>1. /\ Booting /\ phase = "chats" /\ Placed /\ Covered
      /\ awaiting \in [Paths -> PathTypes \cup {NoStream}]
      /\ streams \in [Paths -> StreamTypes \cup {NoStream}]
  BY DEF ChatPathOpened, BootInv, BootPhases, Booting
<1> DEFINE s == Stream(awaiting[i].peer, awaiting[i].topics)
<1>2. /\ streams' = [streams EXCEPT ![i] = s]
      /\ awaiting' = [awaiting EXCEPT ![i] = NoStream]
      /\ phase' = IF \A j \in Paths : awaiting'[j] = NoStream THEN "starting" ELSE "chats"
      /\ chats' = chats /\ awaiting[i] # NoStream
  BY DEF ChatPathOpened
<1>3. awaiting[i] \in PathTypes
  BY <1>1, <1>2
<1>4. /\ s \in StreamTypes /\ s # NoStream /\ s.peer = awaiting[i].peer
      /\ s.topics = awaiting[i].topics /\ s.subs = {}
  BY <1>3, NotNoStream
<1> HIDE DEF s
<1>5. /\ streams'[i] = s /\ \A j \in Paths : j # i => streams'[j] = streams[j]
      /\ awaiting'[i] = NoStream /\ \A j \in Paths : j # i => awaiting'[j] = awaiting[j]
  BY <1>1, <1>2
<1>6. streams' \in [Paths -> StreamTypes \cup {NoStream}]
      /\ awaiting' \in [Paths -> PathTypes \cup {NoStream}]
  BY <1>1, <1>2, <1>4
<1>7. Placed'
  BY <1>1, <1>2, <1>4, <1>5 DEF Placed
<1>8. Covered'
  <2> SUFFICES ASSUME NEW t \in chats \cup {Me} PROVE \E k \in Paths : CoveredBy(k, t)'
    BY <1>2 DEF Covered
  <2>1. PICK k \in Paths : CoveredBy(k, t)
    BY <1>1 DEF Covered
  <2>2. CASE k = i
    <3>1. t \in awaiting[i].topics
      BY <1>1, <1>2, <2>1, <2>2 DEF CoveredBy, Placed
    <3> QED
      BY <1>4, <1>5, <3>1 DEF CoveredBy
  <2>3. CASE k # i
    BY <1>5, <2>1, <2>3 DEF CoveredBy
  <2> QED
    BY <2>2, <2>3
<1>9. phase' = "starting" => NoPaths'
  BY <1>2 DEF NoPaths
<1>10. phase' \in {"chats", "starting"}
  BY <1>2
<1> QED
  BY <1>6, <1>7, <1>8, <1>9, <1>10 DEF BootInv, Booting

LEMMA BootStepInv == ASSUME BootInv, BootNext PROVE BootInv'
<1>1. CASE \E p \in Peers : GotKey(p)
  BY <1>1, GotKeyInv
<1>2. CASE ProfilePathOpened
  BY <1>2, ProfilePathOpenedInv
<1>3. CASE VaultFetched
  <2>1. Booting /\ phase = "vault"
    BY <1>3 DEF VaultFetched, BootInv, BootPhases
  <2>2. CASE \E vault \in Vaults : OpenChats(vault)
    <3>1. PICK vault \in Vaults : OpenChats(vault)
      BY <2>2
    <3>2. vault \in SUBSET Chats
      BY ClientAssumption
    <3> QED
      BY <2>1, <3>1, <3>2, OpenChatsInv
  <2>3. CASE phase' = "create" /\ UNCHANGED <<chats, awaiting, streams>>
    BY <2>1, <2>3 DEF BootInv, Booting, Placed, ProfileOnly, NoPaths
  <2> QED
    BY <1>3, <2>2, <2>3 DEF VaultFetched
<1>4. CASE ProfileCreated
  <2>1. Booting /\ phase = "create" /\ OpenChats({})
    BY <1>4 DEF ProfileCreated, BootInv, BootPhases
  <2> QED
    BY <2>1, OpenChatsInv
<1>5. CASE BootFails
  BY <1>5 DEF BootFails, BootInv, BootPhases
<1>6. CASE \E i \in Paths : ChatPathOpened(i)
  BY <1>6, ChatPathOpenedInv
<1> QED
  BY <1>1, <1>2, <1>3, <1>4, <1>5, <1>6 DEF BootNext

\* The node runs once the client has started, and never goes back.
LEMMA NodeStepPhase ==
    ASSUME Next, ~Boot
    PROVE  \/ phase = "starting" /\ Start
           \/ phase \notin BootPhases /\ phase' \notin BootPhases
           \/ UNCHANGED bootVars
<1>1. CASE Start
  BY <1>1 DEF Start
<1>2. CASE \E t \in Asked : Dispatch(t) \/ SelectChat(t)
  BY <1>2 DEF Dispatch, SelectChat, Running, bootVars, BootPhases
<1>3. CASE HandleJob \/ HandleClose \/ NodePanics \/ Listen
  BY <1>3 DEF HandleJob, HandleClose, NodePanics, Listen, NodeReady, Running, bootVars, BootPhases
<1>4. CASE \E i \in Paths : \/ PathOpened(i) \/ Handles(i) \/ Serve(i) \/ StreamBreaks(i)
                            \/ \E t \in Topics : ServerPushes(i, t)
  <2>1. PICK i \in Paths : \/ PathOpened(i) \/ Handles(i) \/ Serve(i) \/ StreamBreaks(i)
                           \/ \E t \in Topics : ServerPushes(i, t)
    BY <1>4
  <2>2. CASE PathOpened(i) \/ Handles(i)
    BY <2>2 DEF Handles, PathOpened, Respond, StreamErrs, StreamEnds, NodeReady, Running,
                BootPhases
  <2>3. CASE StreamBreaks(i)
    BY <2>3 DEF StreamBreaks, Running, BootPhases
  <2>4. CASE Serve(i)
    BY <2>4 DEF Serve, ServerHandles
  <2>5. CASE \E t \in Topics : ServerPushes(i, t)
    BY <2>5 DEF ServerPushes
  <2> QED
    BY <2>1, <2>2, <2>3, <2>4, <2>5
<1> QED
  BY <1>1, <1>2, <1>3, <1>4 DEF Next

LEMMA BootInvHolds == Spec => []BootInv
<1>1. Init => BootInv
  <2> SUFFICES ASSUME Init PROVE BootInv
    OBVIOUS
  <2>1. /\ phase = "keys" /\ awaiting = [i \in Paths |-> NoStream]
        /\ streams = [i \in Paths |-> NoStream]
    BY DEF Init, BootInit
  <2> QED
    BY <2>1 DEF BootInv, Booting, Placed, NoStreams, NoPaths
<1>2. BootInv /\ [Next]_clientVars => BootInv'
  <2> SUFFICES ASSUME BootInv, [Next]_clientVars PROVE BootInv'
    OBVIOUS
  <2>1. CASE UNCHANGED bootVars
    BY <2>1 DEF bootVars, BootInv, Booting, Placed, NoStreams, NoPaths, ProfileOnly,
                ProfileAwaited, Covered, CoveredBy
  <2>2. CASE Next /\ Boot
    BY <2>2, BootStepInv DEF Boot
  <2>3. CASE Next /\ ~Boot
    <3>1. CASE Start
      BY <3>1 DEF Start, BootInv, BootPhases
    <3>2. CASE phase' \notin BootPhases
      BY <3>2 DEF BootInv
    <3> QED
      BY <2>1, <2>3, <3>1, <3>2, NodeStepPhase
  <2> QED
    BY <2>1, <2>2, <2>3 DEF clientVars
<1> QED
  BY <1>1, <1>2, PTL DEF Spec

\* However the chats of the vault are spread over the peers, and in whatever order peers with
\* equally many chats come and paths open (Node::new), a client that starts has, for its profile
\* and for each chat, a stream to one of the replicators of the topic.
THEOREM BootCoversHolds == Spec => []BootCovers
<1>1. BootInv => BootCovers
  <2> SUFFICES ASSUME BootInv, phase = "starting"
               PROVE  /\ \A t \in chats \cup {Me} : \E i \in Paths :
                             streams[i] # NoStream /\ t \in streams[i].topics
                      /\ \A i \in Paths : streams[i] # NoStream =>
                             \A t \in streams[i].topics : streams[i].peer \in Group[t]
    BY DEF BootCovers
  <2>1. Covered /\ NoPaths /\ Placed
    BY DEF BootInv, Booting, BootPhases
  <2> QED
    BY <2>1 DEF Covered, CoveredBy, NoPaths, Placed
<1> QED
  BY <1>1, BootInvHolds, PTL

-----------------------------------------------------------------------------
(* The running node.                                                        *)

JobTypes == [kind : {"request", "subscribe"}, topic : Topics]
Commands == [kind : {"request", "subscribe"}, job : Nat]
AnyCommands == [kind : {"request", "subscribe", "close"}, job : Nat]

RunTypeOK ==
    /\ jobs \in Seq(JobTypes) /\ requests \in Seq(AnyCommands)
    /\ searching \in [Paths -> Seq(Commands)] /\ inbox \in [Paths -> Seq(Commands)]
    /\ table \in [Paths -> [Topics -> Nat]]
    /\ awaiting \in [Paths -> PathTypes \cup {NoStream}]
    /\ streams \in [Paths -> StreamTypes \cup {NoStream}]

\* A command has the kind of its job.
Known(c) == c.job \in 1 .. Len(jobs) /\ (c.kind # "close" => jobs[c.job].kind = c.kind)
AllKnown ==
    /\ \A k \in 1 .. Len(requests) : Known(requests[k])
    /\ \A i \in Paths : \A k \in 1 .. Len(searching[i]) : Known(searching[i][k])
    /\ \A i \in Paths : \A k \in 1 .. Len(inbox[i]) : Known(inbox[i][k])

\* A job is in front of the node, or waits for path i; a subscription is to be closed.
Ahead(rs, n) == \E k \in 1 .. Len(rs) : rs[k].kind # "close" /\ rs[k].job = n
Among(cs, n) == \E k \in 1 .. Len(cs) : cs[k].job = n
Waiting(n) == Ahead(requests, n) \/ \E i \in Paths : Among(searching[i], n)
ToClose(rs, n) == \E k \in 1 .. Len(rs) : rs[k].kind = "close" /\ rs[k].job = n
Closing(n) == ToClose(requests, n)

Sorted(cs) == \A k, l \in 1 .. Len(cs) : k < l => cs[k].job < cs[l].job

\* Commands are handed to the node in the order of their jobs, and closed after that.
InLine(rs) == \A k, l \in 1 .. Len(rs) : k < l /\ rs[l].kind # "close" => rs[k].job < rs[l].job
RequestsInLine ==
    /\ InLine(requests)
    /\ \A i \in Paths : \A k \in 1 .. Len(searching[i]), l \in 1 .. Len(requests) :
          requests[l].kind # "close" => searching[i][k].job < requests[l].job
    /\ \A i \in Paths : Sorted(searching[i])

\* A topic for which a path is opened has no stream, and no other path.
SearchedFor(i, t) ==
    /\ awaiting[i].topics = {t} /\ streams[i] = NoStream
    /\ searching[i] # <<>> /\ \A k \in 1 .. Len(searching[i]) : TopicOf(searching[i][k]) = t
    /\ \A j \in Paths : ~Serves(j, t)
    /\ \A j \in Paths : awaiting[j] # NoStream /\ awaiting[j].topics = {t} => j = i
Searches == /\ \A i \in Paths : awaiting[i] # NoStream => \E t \in Topics : SearchedFor(i, t)
            /\ \A i \in Paths : awaiting[i] = NoStream => searching[i] = <<>>

\* NoOvertaking, in these words.
Order == \A m, n \in 1 .. Len(jobs) :
            m < n /\ jobs[m].topic = jobs[n].topic /\ Waiting(m) => Waiting(n)

IsSub(n) == n \in 1 .. Len(jobs) /\ jobs[n].kind = "subscribe"

\* What was written waits no more.
Written ==
    /\ \A i \in Paths : streams[i] # NoStream => \A n \in streams[i].subs : IsSub(n) /\ ~Waiting(n)
    /\ \A i \in Paths : \A k \in 1 .. Len(inbox[i]) : ~Waiting(inbox[i][k].job)
    /\ \A i \in Paths : ~Up(i) => inbox[i] = <<>>

\* Jobs of a topic are on a stream in their order.
InboxInLine(cs) == \A k, l \in 1 .. Len(cs) :
    k < l /\ TopicOf(cs[k]) = TopicOf(cs[l]) => cs[k].job < cs[l].job
StreamsInLine == \A i \in Paths : InboxInLine(inbox[i])

\* The subscription of an owner is the last one of its topic that the server gets.
HeardOn(i, n) ==
    \/ \E k \in 1 .. Len(inbox[i]) : inbox[i][k] = Command("subscribe", n)
    \/ /\ table[i][jobs[n].topic] = n
       /\ \A k \in 1 .. Len(inbox[i]) : IsSubscribe(inbox[i][k]) =>
             TopicOf(inbox[i][k]) # jobs[n].topic
Heard == \A i \in Paths : Up(i) => \A n \in owned \cap streams[i].subs : HeardOn(i, n)

\* The profile has one subscription, and that of the selected chat is the last one.
Owners ==
    /\ IsSub(Account) /\ jobs[Account].topic = Me /\ Account \in owned
    /\ \A n \in 1 .. Len(jobs) : IsSub(n) /\ n # Account => jobs[n].topic # Me
    /\ \A n \in owned : IsSub(n)
    /\ \A n \in owned : n # Account => \A m \in 1 .. Len(jobs) : IsSub(m) => m <= n

Closed == \A n \in 1 .. Len(jobs) : IsSub(n) /\ n \notin owned =>
             \/ n \in strays \/ Closing(n)
             \/ ~Subscribed(n) /\ ~Waiting(n)

RunInv == /\ RunTypeOK /\ AllKnown /\ RequestsInLine /\ Searches /\ Order
          /\ Written /\ StreamsInLine /\ Heard /\ Owners /\ Closed

\* Before it runs, nothing was handed to the node.
Quiet == /\ jobs = <<>> /\ requests = <<>>
         /\ searching = [i \in Paths |-> <<>>] /\ inbox = [i \in Paths |-> <<>>]
         /\ table = [i \in Paths |-> [t \in Topics |-> 0]]

NodeInv == /\ phase \in BootPhases => Quiet
           /\ Running => RunInv

\* Streams that break, end, or lose a subscription.
LEMMA ShrinkInv ==
    ASSUME RunInv, streams' \in [Paths -> StreamTypes \cup {NoStream}],
           \A k \in Paths : streams'[k] # NoStream =>
              /\ streams[k] # NoStream /\ streams'[k].topics = streams[k].topics
              /\ streams'[k].subs \subseteq streams[k].subs
              /\ streams'[k].io = "open" => streams[k].io = "open",
           \A k \in Paths : Up(k) => Up(k)',
           UNCHANGED <<jobs, requests, searching, inbox, table, awaiting, owned, strays>>
    PROVE  RunInv'
<1> USE DEF RunInv
<1>0. \A n : (Waiting(n)' <=> Waiting(n)) /\ (IsSub(n)' <=> IsSub(n)) /\ (Closing(n)' <=> Closing(n))
  BY DEF Waiting, IsSub, Closing
<1>1. RunTypeOK'
  BY DEF RunTypeOK
<1>2. AllKnown'
  BY DEF AllKnown, Known
<1>3. RequestsInLine'
  BY DEF RequestsInLine
<1>4. Searches'
  <2>1. ASSUME NEW i \in Paths, NEW t \in Topics, awaiting[i] # NoStream, SearchedFor(i, t)
        PROVE  SearchedFor(i, t)'
    <3>1. streams'[i] = NoStream
      BY <2>1 DEF SearchedFor
    <3>2. \A j \in Paths : ~Serves(j, t)'
      BY <2>1 DEF SearchedFor, Serves
    <3> QED
      BY <2>1, <3>1, <3>2 DEF SearchedFor, TopicOf
  <2> QED
    BY <2>1 DEF Searches
<1>5. Order'
  BY <1>0 DEF Order
<1>6. Written'
  <2>1. ASSUME NEW i \in Paths, streams'[i] # NoStream, NEW n \in streams'[i].subs
        PROVE  IsSub(n)' /\ ~Waiting(n)'
    BY <1>0, <2>1 DEF Written
  <2>2. ASSUME NEW i \in Paths, NEW k \in 1 .. Len(inbox[i]) PROVE ~Waiting(inbox[i][k].job)'
    BY <1>0 DEF Written, Waiting
  <2>3. ASSUME NEW i \in Paths, ~Up(i)' PROVE inbox'[i] = <<>>
    BY <2>3 DEF Written
  <2> QED
    BY <2>1, <2>2, <2>3 DEF Written
<1>7. StreamsInLine'
  BY DEF StreamsInLine, InboxInLine, TopicOf
<1>8. Heard'
  <2> SUFFICES ASSUME NEW i \in Paths, Up(i)', NEW n \in owned' \cap streams'[i].subs
               PROVE  HeardOn(i, n)'
    BY DEF Heard
  <2>1. Up(i) /\ n \in owned \cap streams[i].subs
    BY DEF Up
  <2>2. HeardOn(i, n)
    BY <2>1 DEF Heard
  <2> QED
    BY <2>2 DEF HeardOn, TopicOf
<1>9. Owners'
  BY DEF Owners, IsSub, Account
<1>10. Closed'
  <2>1. ASSUME NEW n, Subscribed(n)' PROVE Subscribed(n)
    BY <2>1 DEF Subscribed
  <2> QED
    BY <1>0, <2>1 DEF Closed
<1> QED
  BY <1>1, <1>2, <1>3, <1>4, <1>5, <1>6, <1>7, <1>8, <1>9, <1>10

\* The subscription is in no stream any more.
LEMMA UnsubscribedFacts ==
    ASSUME RunTypeOK, NEW n, streams' = Unsubscribed(n)
    PROVE  /\ streams' \in [Paths -> StreamTypes \cup {NoStream}]
           /\ \A k \in Paths : /\ streams'[k] = NoStream <=> streams[k] = NoStream
                               /\ streams[k] # NoStream =>
                                     /\ streams'[k].topics = streams[k].topics
                                     /\ streams'[k].subs = streams[k].subs \ {n}
                                     /\ streams'[k].io = streams[k].io
           /\ ~Subscribed(n)' /\ \A k \in Paths : Up(k)' <=> Up(k)
<1>1. streams \in [Paths -> StreamTypes \cup {NoStream}] /\ NoStream \notin StreamTypes
  BY ClientAssumption DEF RunTypeOK
<1>2. ASSUME NEW k \in Paths
      PROVE  /\ streams'[k] \in StreamTypes \cup {NoStream}
             /\ streams'[k] = NoStream <=> streams[k] = NoStream
             /\ streams[k] # NoStream =>
                   /\ streams'[k].topics = streams[k].topics
                   /\ streams'[k].subs = streams[k].subs \ {n}
                   /\ streams'[k].io = streams[k].io
  <2>1. CASE streams[k] = NoStream
    BY <2>1 DEF Unsubscribed
  <2>2. CASE streams[k] # NoStream
    <3>1. streams[k] \in StreamTypes
      BY <1>1, <2>2
    <3> DEFINE s == [streams[k] EXCEPT !.subs = @ \ {n}]
    <3>2. streams'[k] = s
      BY <2>2 DEF Unsubscribed
    <3>3. /\ s \in StreamTypes /\ s.topics = streams[k].topics /\ s.subs = streams[k].subs \ {n}
          /\ s.io = streams[k].io
      BY <3>1 DEF StreamTypes
    <3> HIDE DEF s
    <3> QED
      BY <1>1, <2>2, <3>2, <3>3
  <2> QED
    BY <2>1, <2>2
<1>3. streams' \in [Paths -> StreamTypes \cup {NoStream}]
  <2>1. streams' = [i \in Paths |-> IF streams[i] # NoStream
                       THEN [streams[i] EXCEPT !.subs = @ \ {n}] ELSE NoStream]
    BY DEF Unsubscribed
  <2>2. DOMAIN streams' = Paths /\ streams' = [i \in Paths |-> streams'[i]]
    BY <2>1
  <2> QED
    BY <1>2, <2>2
<1>4. ~Subscribed(n)' /\ \A k \in Paths : Up(k)' <=> Up(k)
  BY <1>2 DEF Subscribed, Up
<1> QED
  BY <1>2, <1>3, <1>4

LEMMA RespondInv == ASSUME RunInv, NEW i \in Paths, Respond(i) PROVE RunInv'
<1>1. UNCHANGED <<jobs, requests, searching, inbox, table, awaiting, owned, strays>>
  BY DEF Respond
<1>2. RunTypeOK
  BY DEF RunInv
<1>3. CASE streams' = streams
  BY <1>1, <1>2, <1>3, ShrinkInv DEF RunTypeOK, Up
<1>4. CASE \E n \in {Head(outbox[i]).job} : streams' = Unsubscribed(n)
  <2>1. PICK n \in {Head(outbox[i]).job} : streams' = Unsubscribed(n)
    BY <1>4
  <2> QED
    BY <1>1, <1>2, <2>1, UnsubscribedFacts, ShrinkInv
<1> QED
  BY <1>3, <1>4 DEF Respond

LEMMA StreamErrsInv == ASSUME RunInv, NEW i \in Paths, StreamErrs(i) PROVE RunInv'
<1>1. /\ UNCHANGED <<jobs, requests, searching, inbox, table, awaiting, owned, strays>>
      /\ streams[i] # NoStream /\ streams[i].io = "broken"
      /\ streams' = [streams EXCEPT ![i].io = "taken"]
  BY DEF StreamErrs, nodeVars
<1>2. streams \in [Paths -> StreamTypes \cup {NoStream}]
  BY DEF RunInv, RunTypeOK
<1> DEFINE s == [streams[i] EXCEPT !.io = "taken"]
<1>3. /\ s \in StreamTypes /\ s.topics = streams[i].topics /\ s.subs = streams[i].subs
      /\ s.io = "taken"
  BY <1>1, <1>2 DEF StreamTypes
<1>4. streams' = [streams EXCEPT ![i] = s]
  BY <1>1
<1> HIDE DEF s
<1>5. /\ streams' \in [Paths -> StreamTypes \cup {NoStream}]
      /\ streams'[i] = s /\ \A k \in Paths : k # i => streams'[k] = streams[k]
  BY <1>2, <1>3, <1>4
<1>6. \A k \in Paths : Up(k) => Up(k)'
  BY <1>1, <1>5 DEF Up
<1>7. \A k \in Paths : streams'[k] # NoStream =>
              /\ streams[k] # NoStream /\ streams'[k].topics = streams[k].topics
              /\ streams'[k].subs \subseteq streams[k].subs
              /\ streams'[k].io = "open" => streams[k].io = "open"
  BY <1>1, <1>3, <1>5
<1> QED
  BY <1>1, <1>5, <1>6, <1>7, ShrinkInv

LEMMA StreamEndsInv == ASSUME RunInv, NEW i \in Paths, StreamEnds(i) PROVE RunInv'
<1>1. /\ UNCHANGED <<jobs, requests, searching, inbox, table, awaiting, owned, strays>>
      /\ streams[i] # NoStream /\ streams[i].io = "taken"
      /\ streams' = [streams EXCEPT ![i] = NoStream]
  BY DEF StreamEnds
<1>2. streams \in [Paths -> StreamTypes \cup {NoStream}]
  BY DEF RunInv, RunTypeOK
<1>3. /\ streams' \in [Paths -> StreamTypes \cup {NoStream}]
      /\ streams'[i] = NoStream /\ \A k \in Paths : k # i => streams'[k] = streams[k]
  BY <1>1, <1>2
<1>4. \A k \in Paths : Up(k) => Up(k)'
  BY <1>1, <1>3 DEF Up
<1>5. \A k \in Paths : streams'[k] # NoStream =>
              /\ streams[k] # NoStream /\ streams'[k].topics = streams[k].topics
              /\ streams'[k].subs \subseteq streams[k].subs
              /\ streams'[k].io = "open" => streams[k].io = "open"
  BY <1>3
<1> QED
  BY <1>1, <1>3, <1>4, <1>5, ShrinkInv

\* Steps that change nothing the order of jobs depends on.
LEMMA KeepInv ==
    ASSUME RunInv,
           UNCHANGED <<jobs, requests, searching, inbox, table, awaiting, owned, strays, streams>>
    PROVE  RunInv'
<1>1. RunTypeOK
  BY DEF RunInv
<1> QED
  BY <1>1, ShrinkInv DEF RunTypeOK, Up

\* What was under way on a stream that breaks is lost.
LEMMA StreamBreaksInv == ASSUME RunInv, NEW i \in Paths, StreamBreaks(i) PROVE RunInv'
<1> USE DEF RunInv
<1>1. /\ UNCHANGED <<jobs, requests, searching, awaiting, owned, strays>>
      /\ Up(i) /\ streams' = [streams EXCEPT ![i].io = "broken"]
      /\ inbox' = [inbox EXCEPT ![i] = <<>>]
      /\ table' = [table EXCEPT ![i] = [t \in Topics |-> 0]]
  BY DEF StreamBreaks
<1>2. /\ streams \in [Paths -> StreamTypes \cup {NoStream}]
      /\ inbox \in [Paths -> Seq(Commands)] /\ table \in [Paths -> [Topics -> Nat]]
  BY DEF RunTypeOK
<1> DEFINE s == [streams[i] EXCEPT !.io = "broken"]
<1>3. /\ s \in StreamTypes /\ s.topics = streams[i].topics /\ s.subs = streams[i].subs
      /\ s.io = "broken"
  BY <1>1, <1>2 DEF StreamTypes, Up
<1>4. streams' = [streams EXCEPT ![i] = s]
  BY <1>1
<1> HIDE DEF s
<1>5. /\ streams' \in [Paths -> StreamTypes \cup {NoStream}]
      /\ streams'[i] = s /\ \A k \in Paths : k # i => streams'[k] = streams[k]
  BY <1>2, <1>3, <1>4
<1>6. s # NoStream /\ streams[i] # NoStream
  BY <1>1, <1>3, ClientAssumption DEF Up
<1>7. \A k \in Paths : /\ streams'[k] = NoStream <=> streams[k] = NoStream
                       /\ streams[k] # NoStream =>
                             /\ streams'[k].topics = streams[k].topics
                             /\ streams'[k].subs = streams[k].subs
  BY <1>3, <1>5, <1>6
<1>8. /\ inbox' \in [Paths -> Seq(Commands)] /\ table' \in [Paths -> [Topics -> Nat]]
      /\ inbox'[i] = <<>> /\ Len(inbox'[i]) = 0
      /\ \A k \in Paths : k # i => inbox'[k] = inbox[k] /\ table'[k] = table[k]
  BY <1>1, <1>2
<1>9. ~Up(i)' /\ \A k \in Paths : k # i => (Up(k)' <=> Up(k))
  BY <1>3, <1>5 DEF Up
<1>10. \A n : (Waiting(n)' <=> Waiting(n)) /\ (IsSub(n)' <=> IsSub(n)) /\ (Closing(n)' <=> Closing(n))
              /\ (Subscribed(n)' <=> Subscribed(n))
  BY <1>1, <1>7 DEF Waiting, IsSub, Closing, Subscribed
<1>11. RunTypeOK'
  BY <1>1, <1>5, <1>8 DEF RunTypeOK
<1>12. AllKnown'
  <2>1. ASSUME NEW k \in Paths, NEW l \in 1 .. Len(inbox'[k]) PROVE Known(inbox[k][l])' /\ k # i
    BY <1>1, <1>8 DEF AllKnown, Known
  <2> QED
    BY <1>1, <1>8, <2>1 DEF AllKnown, Known
<1>13. RequestsInLine'
  BY <1>1 DEF RequestsInLine
<1>14. Searches'
  <2>1. ASSUME NEW k \in Paths, NEW t \in Topics, awaiting[k] # NoStream, SearchedFor(k, t)
        PROVE  SearchedFor(k, t)'
    <3>1. streams'[k] = NoStream
      BY <1>7, <2>1 DEF SearchedFor
    <3>2. \A j \in Paths : ~Serves(j, t)'
      BY <1>7, <2>1 DEF SearchedFor, Serves
    <3> QED
      BY <1>1, <2>1, <3>1, <3>2 DEF SearchedFor, TopicOf
  <2> QED
    BY <1>1, <2>1 DEF Searches
<1>15. Order'
  BY <1>1, <1>10 DEF Order
<1>16. Written'
  <2>1. ASSUME NEW k \in Paths, streams'[k] # NoStream, NEW n \in streams'[k].subs
        PROVE  IsSub(n)' /\ ~Waiting(n)'
    BY <1>7, <1>10, <2>1 DEF Written
  <2>2. ASSUME NEW k \in Paths, NEW l \in 1 .. Len(inbox'[k]) PROVE ~Waiting(inbox[k][l].job)'
    <3>1. k # i /\ ~Waiting(inbox[k][l].job)
      BY <1>8 DEF Written
    <3>2. PICK n \in {inbox[k][l].job} : TRUE
      OBVIOUS
    <3>3. ~Waiting(n)'
      BY <1>10, <3>1, <3>2
    <3> QED
      BY <1>8, <3>1, <3>2, <3>3 DEF Waiting
  <2>3. ASSUME NEW k \in Paths, ~Up(k)' PROVE inbox'[k] = <<>>
    BY <1>8, <1>9, <2>3 DEF Written
  <2> QED
    BY <2>1, <2>2, <2>3 DEF Written
<1>17. StreamsInLine'
  <2>1. ASSUME NEW k \in Paths PROVE InboxInLine(inbox[k])'
    <3>1. CASE k = i
      BY <1>8, <3>1 DEF InboxInLine
    <3>2. CASE k # i
      BY <1>1, <1>8, <3>2 DEF StreamsInLine, InboxInLine, TopicOf
    <3> QED
      BY <3>1, <3>2
  <2> QED
    BY <2>1 DEF StreamsInLine
<1>18. Heard'
  <2> SUFFICES ASSUME NEW k \in Paths, Up(k)', NEW n \in owned' \cap streams'[k].subs
               PROVE  HeardOn(k, n)'
    BY DEF Heard
  <2>1. k # i /\ Up(k) /\ n \in owned \cap streams[k].subs
    BY <1>1, <1>7, <1>9 DEF Up
  <2>2. HeardOn(k, n)
    BY <2>1 DEF Heard
  <2> QED
    BY <1>1, <1>8, <2>1, <2>2 DEF HeardOn, TopicOf
<1>19. Owners'
  BY <1>1 DEF Owners, IsSub, Account
<1>20. Closed'
  BY <1>1, <1>10 DEF Closed
<1> QED
  BY <1>11, <1>12, <1>13, <1>14, <1>15, <1>16, <1>17, <1>18, <1>19, <1>20

\* A sequence without its k-th element: which element each one was.
LEMMA RemoveAtFacts ==
    ASSUME NEW S, NEW s \in Seq(S), NEW k \in 1 .. Len(s)
    PROVE  /\ RemoveAt(s, k) \in Seq(S) /\ Len(RemoveAt(s, k)) = Len(s) - 1
           /\ \A j \in 1 .. Len(s) - 1 : RemoveAt(s, k)[j] = s[IF j < k THEN j ELSE j + 1]
<1> DEFINE a == SubSeq(s, 1, k - 1)
           b == SubSeq(s, k + 1, Len(s))
<1>1. RemoveAt(s, k) = a \o b
  BY DEF RemoveAt
<1>2. a \in Seq(S) /\ Len(a) = k - 1 /\ \A j \in 1 .. k - 1 : a[j] = s[j]
  OBVIOUS
<1>3. b \in Seq(S) /\ Len(b) = Len(s) - k /\ \A j \in 1 .. Len(s) - k : b[j] = s[j + k]
  OBVIOUS
<1> HIDE DEF a, b
<1>4. a \o b \in Seq(S) /\ Len(a \o b) = Len(s) - 1
  <2>1. a \o b \in Seq(S) /\ Len(a \o b) = Len(a) + Len(b)
    BY <1>2, <1>3, ConcatProperties
  <2>2. Len(s) \in Nat /\ k \in Int
    OBVIOUS
  <2>3. (k - 1) + (Len(s) - k) = Len(s) - 1
    BY <2>2
  <2> QED
    BY <1>2, <1>3, <2>1, <2>3
<1>5. ASSUME NEW j \in 1 .. Len(s) - 1 PROVE (a \o b)[j] = s[IF j < k THEN j ELSE j + 1]
  <2>1. CASE j < k
    BY <1>2, <1>3, <2>1
  <2>2. CASE ~(j < k)
    <3>1. (a \o b)[j] = b[j - (k - 1)]
      BY <1>2, <1>3, <2>2
    <3>2. j - (k - 1) \in 1 .. Len(s) - k /\ (j - (k - 1)) + k = j + 1
      BY <2>2
    <3>3. b[j - (k - 1)] = s[j + 1]
      BY <1>3, <3>2
    <3> QED
      BY <2>2, <3>1, <3>3
  <2> QED
    BY <2>1, <2>2
<1> QED
  BY <1>1, <1>4, <1>5

\* r has the elements of s but the k-th, in their order.
Without(r, s, k) ==
    /\ \A l \in 1 .. Len(s) : l # k => \E j \in 1 .. Len(r) : r[j] = s[l]
    /\ \E f \in [1 .. Len(r) -> 1 .. Len(s)] :
          /\ \A j \in 1 .. Len(r) : f[j] # k /\ r[j] = s[f[j]]
          /\ \A j, l \in 1 .. Len(r) : j < l => f[j] < f[l]

LEMMA RemoveAtElements ==
    ASSUME NEW S, NEW s \in Seq(S), NEW k \in 1 .. Len(s)
    PROVE  RemoveAt(s, k) \in Seq(S) /\ Without(RemoveAt(s, k), s, k)
<1>0. PICK r \in {RemoveAt(s, k)} : TRUE
  OBVIOUS
<1>1. /\ r \in Seq(S) /\ Len(r) = Len(s) - 1 /\ Len(s) \in Nat
      /\ \A j \in 1 .. Len(s) - 1 : r[j] = s[IF j < k THEN j ELSE j + 1]
  <2>1. Len(s) \in Nat
    OBVIOUS
  <2>2. /\ RemoveAt(s, k) \in Seq(S) /\ Len(RemoveAt(s, k)) = Len(s) - 1
        /\ \A j \in 1 .. Len(s) - 1 : RemoveAt(s, k)[j] = s[IF j < k THEN j ELSE j + 1]
    BY RemoveAtFacts, Zenon
  <2> QED
    BY <1>0, <2>1, <2>2
<1>2. ASSUME NEW l \in 1 .. Len(s), l # k PROVE \E j \in 1 .. Len(r) : r[j] = s[l]
  <2>1. CASE l < k
    <3>1. l \in 1 .. Len(r) /\ r[l] = s[l]
      BY <1>1, <2>1
    <3> QED
      BY <3>1
  <2>2. CASE ~(l < k)
    <3>1. l - 1 \in 1 .. Len(r) /\ ~(l - 1 < k) /\ (l - 1) + 1 = l
      BY <1>1, <1>2, <2>2
    <3>2. r[l - 1] = s[l]
      BY <1>1, <3>1
    <3> QED
      BY <3>1, <3>2
  <2> QED
    BY <2>1, <2>2
<1> DEFINE f == [j \in 1 .. Len(r) |-> IF j < k THEN j ELSE j + 1]
<1>3. f \in [1 .. Len(r) -> 1 .. Len(s)]
  BY <1>1
<1>4. \A j \in 1 .. Len(r) : f[j] # k /\ r[j] = s[f[j]]
  BY <1>1
<1>5. \A j, l \in 1 .. Len(r) : j < l => f[j] < f[l]
  BY <1>1
<1> HIDE DEF f
<1>6. Without(r, s, k)
  BY <1>2, <1>3, <1>4, <1>5 DEF Without
<1> QED
  BY <1>0, <1>1, <1>6

LEMMA JobsTyped ==
    ASSUME NEW js \in Seq(JobTypes), NEW n \in 1 .. Len(js)
    PROVE  n \in Nat /\ js[n].topic \in Topics /\ js[n].kind \in {"request", "subscribe"}
<1>1. js[n] \in JobTypes
  OBVIOUS
<1> QED
  BY <1>1 DEF JobTypes

\* No job of its topic is subscribed after the subscription of an owner.
LEMMA LastOfTopic ==
    ASSUME RunInv, NEW n \in owned, NEW m \in Nat, IsSub(m), jobs[m].topic = jobs[n].topic
    PROVE  m <= n
<1>1. Owners
  BY DEF RunInv
<1>2. CASE n = Account
  BY <1>1, <1>2 DEF Owners, IsSub
<1>3. CASE n # Account
  BY <1>1, <1>3 DEF Owners, IsSub
<1> QED
  BY <1>2, <1>3

\* The server takes a command: a subscription of an owner enters the table, and none that is
\* behind it takes its place.
LEMMA ServerHandlesInv ==
    ASSUME RunInv, NEW i \in Paths, NEW k \in Jobs, ServerHandles(i, k) PROVE RunInv'
<1> USE DEF RunInv
<1>1. /\ UNCHANGED <<jobs, requests, searching, awaiting, owned, strays, streams>>
      /\ Up(i) /\ k \in DOMAIN inbox[i]
      /\ \A j \in 1 .. k - 1 : ~IsSubscribe(inbox[i][j])
      /\ inbox' = [inbox EXCEPT ![i] = RemoveAt(@, k)]
      /\ table' = IF IsSubscribe(inbox[i][k]) THEN [table EXCEPT ![i] = Entered(i, inbox[i][k])]
                                              ELSE table
  BY DEF ServerHandles, bootVars
<1>2. /\ inbox \in [Paths -> Seq(Commands)] /\ table \in [Paths -> [Topics -> Nat]]
      /\ jobs \in Seq(JobTypes)
  BY DEF RunTypeOK
<1>3. PICK s \in Seq(Commands) : s = inbox[i]
  BY <1>2
<1>4. PICK c \in Commands : c = s[k] /\ k \in 1 .. Len(s)
  BY <1>1, <1>3
<1>5. PICK r \in {RemoveAt(s, k)} : TRUE
  OBVIOUS
<1>6. r \in Seq(Commands) /\ Without(r, s, k)
  BY <1>4, <1>5, RemoveAtElements
<1>7. PICK f \in [1 .. Len(r) -> 1 .. Len(s)] :
            /\ \A j \in 1 .. Len(r) : f[j] # k /\ r[j] = s[f[j]]
            /\ \A j, l \in 1 .. Len(r) : j < l => f[j] < f[l]
  BY <1>6 DEF Without
<1>8. /\ inbox' \in [Paths -> Seq(Commands)] /\ inbox'[i] = r
      /\ \A j \in Paths : j # i => inbox'[j] = inbox[j]
  BY <1>1, <1>2, <1>3, <1>5, <1>6
<1>9. \A j \in 1 .. Len(s) : Known(s[j]) /\ s[j] \in Commands
  BY <1>3 DEF AllKnown
<1>10. Known(c) /\ TopicOf(c) \in Topics /\ c.job \in Nat
  <2>1. Known(c) /\ c.job \in 1 .. Len(jobs)
    BY <1>4, <1>9 DEF Known
  <2> QED
    BY <1>2, <2>1, JobsTyped DEF TopicOf
<1>11. /\ table' \in [Paths -> [Topics -> Nat]]
       /\ \A j \in Paths : j # i => table'[j] = table[j]
       /\ \A t \in Topics : table'[i][t] = IF IsSubscribe(c) /\ t = TopicOf(c) THEN c.job
                                                                             ELSE table[i][t]
  <2>1. CASE IsSubscribe(c)
    <3>1. table' = [table EXCEPT ![i] = Entered(i, c)]
      BY <1>1, <1>3, <1>4, <2>1
    <3>2. PICK e \in [Topics -> Nat] : e = Entered(i, c)
      BY <1>2, <1>10 DEF Entered
    <3>3. \A t \in Topics : e[t] = IF t = TopicOf(c) THEN c.job ELSE table[i][t]
      BY <1>2, <1>10, <3>2 DEF Entered
    <3>4. table' = [table EXCEPT ![i] = e]
      BY <3>1, <3>2
    <3> QED
      BY <1>2, <2>1, <3>3, <3>4
  <2>2. CASE ~IsSubscribe(c)
    BY <1>1, <1>2, <1>3, <1>4, <2>2
  <2> QED
    BY <2>1, <2>2
<1>12. \A n : (Waiting(n)' <=> Waiting(n)) /\ (IsSub(n)' <=> IsSub(n)) /\ (Closing(n)' <=> Closing(n))
              /\ (Subscribed(n)' <=> Subscribed(n))
  BY <1>1 DEF Waiting, IsSub, Closing, Subscribed
<1>13. \A j \in Paths : Up(j)' <=> Up(j)
  BY <1>1 DEF Up
<1>14. RunTypeOK'
  BY <1>1, <1>8, <1>11 DEF RunTypeOK
<1>15. AllKnown'
  <2>1. ASSUME NEW j \in Paths, NEW l \in 1 .. Len(inbox'[j]) PROVE Known(inbox[j][l])'
    <3>1. CASE j = i
      <4>1. l \in 1 .. Len(r) /\ inbox'[j][l] = s[f[l]] /\ f[l] \in 1 .. Len(s)
        BY <1>7, <1>8, <3>1
      <4>2. Known(s[f[l]])
        BY <1>9, <4>1
      <4> QED
        BY <1>1, <4>1, <4>2 DEF Known
    <3>2. CASE j # i
      BY <1>1, <1>8, <3>2 DEF AllKnown, Known
    <3> QED
      BY <3>1, <3>2
  <2> QED
    BY <1>1, <2>1 DEF AllKnown, Known
<1>16. RequestsInLine' /\ Order' /\ Owners' /\ Closed'
  <2>1. RequestsInLine'
    BY <1>1 DEF RequestsInLine
  <2>2. Order'
    BY <1>1, <1>12 DEF Order
  <2>3. Owners'
    BY <1>1 DEF Owners, IsSub, Account
  <2>4. Closed'
    BY <1>1, <1>12 DEF Closed
  <2> QED
    BY <2>1, <2>2, <2>3, <2>4
<1>17. Searches'
  <2>1. ASSUME NEW j \in Paths, NEW t \in Topics, SearchedFor(j, t) PROVE SearchedFor(j, t)'
    <3>1. \A l \in Paths : ~Serves(l, t)'
      BY <1>1, <2>1 DEF SearchedFor, Serves
    <3> QED
      BY <1>1, <2>1, <3>1 DEF SearchedFor, TopicOf
  <2> QED
    BY <1>1, <2>1 DEF Searches
<1>18. Written'
  <2>1. ASSUME NEW j \in Paths, streams'[j] # NoStream, NEW n \in streams'[j].subs
        PROVE  IsSub(n)' /\ ~Waiting(n)'
    BY <1>1, <1>12, <2>1 DEF Written
  <2>2. ASSUME NEW j \in Paths, NEW l \in 1 .. Len(inbox'[j]) PROVE ~Waiting(inbox[j][l].job)'
    <3>1. \E m \in 1 .. Len(inbox[j]) : inbox'[j][l] = inbox[j][m]
      <4>1. CASE j = i
        BY <1>3, <1>7, <1>8, <4>1
      <4>2. CASE j # i
        BY <1>8, <4>2
      <4> QED
        BY <4>1, <4>2
    <3>2. PICK m \in 1 .. Len(inbox[j]) : inbox'[j][l] = inbox[j][m]
      BY <3>1
    <3>3. PICK n \in {inbox[j][m].job} : TRUE
      OBVIOUS
    <3>4. ~Waiting(n)
      BY <3>3 DEF Written
    <3>5. ~Waiting(n)'
      BY <1>12, <3>4
    <3> QED
      BY <3>2, <3>3, <3>5 DEF Waiting
  <2>3. ASSUME NEW j \in Paths, ~Up(j)' PROVE inbox'[j] = <<>>
    BY <1>1, <1>8, <1>13, <2>3 DEF Written
  <2> QED
    BY <2>1, <2>2, <2>3 DEF Written
<1>19. InboxInLine(s)
  BY <1>3 DEF StreamsInLine
<1>20. StreamsInLine'
  <2>1. ASSUME NEW j \in Paths PROVE InboxInLine(inbox[j])'
    <3>1. CASE j = i
      <4>1. ASSUME NEW a \in 1 .. Len(r), NEW b \in 1 .. Len(r), a < b, TopicOf(r[a]) = TopicOf(r[b])
            PROVE  r[a].job < r[b].job
        <5>1. f[a] \in 1 .. Len(s) /\ f[b] \in 1 .. Len(s) /\ f[a] < f[b]
              /\ r[a] = s[f[a]] /\ r[b] = s[f[b]]
          BY <1>7, <4>1
        <5> QED
          BY <1>19, <4>1, <5>1 DEF InboxInLine
      <4> QED
        BY <1>1, <1>8, <3>1, <4>1 DEF InboxInLine, TopicOf
    <3>2. CASE j # i
      BY <1>1, <1>8, <3>2 DEF StreamsInLine, InboxInLine, TopicOf
    <3> QED
      BY <3>1, <3>2
  <2> QED
    BY <2>1 DEF StreamsInLine
<1>21. Heard'
  <2> SUFFICES ASSUME NEW j \in Paths, Up(j)', NEW n \in owned' \cap streams'[j].subs
               PROVE  HeardOn(j, n)'
    BY DEF Heard
  <2>1. Up(j) /\ n \in owned /\ n \in streams[j].subs
    BY <1>1, <1>13
  <2>2. HeardOn(j, n)
    BY <2>1 DEF Heard
  <2>3. CASE j # i
    BY <1>1, <1>8, <1>11, <2>2, <2>3 DEF HeardOn, TopicOf
  <2>4. CASE j = i
    <3>1. IsSub(n) /\ n \in Nat /\ jobs[n].topic \in Topics
      <4>1. IsSub(n) /\ n \in 1 .. Len(jobs)
        BY <2>1 DEF Owners, IsSub
      <4> QED
        BY <1>2, <4>1, JobsTyped
    <3> DEFINE e == Command("subscribe", n)
    <3>2. e.job = n /\ IsSubscribe(e) /\ TopicOf(e) = jobs[n].topic
      BY DEF Command, IsSubscribe, TopicOf
    <3>3. \/ \E l \in 1 .. Len(s) : s[l] = e
          \/ /\ table[i][jobs[n].topic] = n
             /\ \A l \in 1 .. Len(s) : IsSubscribe(s[l]) => TopicOf(s[l]) # jobs[n].topic
      BY <1>3, <2>2, <2>4 DEF HeardOn
    <3> HIDE DEF e
    <3>4. \/ \E l \in 1 .. Len(r) : r[l] = e
          \/ /\ table'[i][jobs[n].topic] = n
             /\ \A l \in 1 .. Len(r) : IsSubscribe(r[l]) => TopicOf(r[l]) # jobs[n].topic
      <4>1. CASE c = e
        <5>1. table'[i][jobs[n].topic] = n
          BY <1>11, <3>1, <3>2, <4>1
        <5>2. ASSUME NEW l \in 1 .. Len(r), IsSubscribe(r[l]), TopicOf(r[l]) = jobs[n].topic
              PROVE  FALSE
          <6>1. PICK m \in 1 .. Len(s) : m = f[l] /\ m # k /\ r[l] = s[m]
            BY <1>7
          <6>2. k < m
            <7>1. ~(m \in 1 .. k - 1)
              BY <1>1, <1>3, <5>2, <6>1
            <7> QED
              BY <1>4, <6>1, <7>1
          <6>3. s[k].job < s[m].job
            BY <1>4, <1>19, <3>2, <4>1, <5>2, <6>1, <6>2 DEF InboxInLine
          <6>4. n < s[m].job
            BY <1>4, <3>2, <4>1, <6>3
          <6>5. PICK q \in Nat : q = s[m].job
            BY <1>9 DEF Commands
          <6>6. IsSub(q) /\ jobs[q].topic = jobs[n].topic
            BY <1>9, <5>2, <6>1, <6>5 DEF Known, IsSub, IsSubscribe, TopicOf
          <6>7. q <= n
            BY <2>1, <6>6, LastOfTopic
          <6> QED
            BY <3>1, <6>4, <6>5, <6>7
        <5> QED
          BY <5>1, <5>2
      <4>2. CASE c # e /\ \E l \in 1 .. Len(s) : s[l] = e
        <5>1. PICK l \in 1 .. Len(s) : s[l] = e
          BY <4>2
        <5>2. l # k
          BY <1>4, <4>2, <5>1
        <5> QED
          BY <1>6, <5>1, <5>2 DEF Without
      <4>3. CASE /\ table[i][jobs[n].topic] = n
                 /\ \A l \in 1 .. Len(s) : IsSubscribe(s[l]) => TopicOf(s[l]) # jobs[n].topic
        <5>1. ~(IsSubscribe(c) /\ jobs[n].topic = TopicOf(c))
          BY <1>4, <4>3
        <5>2. table'[i][jobs[n].topic] = n
          BY <1>11, <3>1, <4>3, <5>1
        <5>3. \A l \in 1 .. Len(r) : IsSubscribe(r[l]) => TopicOf(r[l]) # jobs[n].topic
          BY <1>7, <4>3
        <5> QED
          BY <5>2, <5>3
      <4> QED
        BY <3>3, <4>1, <4>2, <4>3
    <3> QED
      BY <1>1, <1>8, <2>4, <3>4 DEF HeardOn, TopicOf, e
  <2> QED
    BY <2>3, <2>4
<1> QED
  BY <1>14, <1>15, <1>16, <1>17, <1>18, <1>20, <1>21

\* The commands that are left when the node has taken the first one.
LEMMA TailElements ==
    ASSUME NEW S, NEW rs \in Seq(S), rs # <<>>
    PROVE  /\ Tail(rs) \in Seq(S) /\ Head(rs) = rs[1] /\ rs[1] \in S /\ 1 \in 1 .. Len(rs)
           /\ \A k \in 1 .. Len(Tail(rs)) : k + 1 \in 1 .. Len(rs) /\ Tail(rs)[k] = rs[k + 1]
           /\ \A k \in 1 .. Len(rs) : k # 1 =>
                 k - 1 \in 1 .. Len(Tail(rs)) /\ Tail(rs)[k - 1] = rs[k]
<1>1. /\ Tail(rs) \in Seq(S) /\ Head(rs) = rs[1] /\ Len(Tail(rs)) = Len(rs) - 1
      /\ Len(rs) \in Nat /\ Len(rs) # 0
  OBVIOUS
<1>2. \A k \in 1 .. Len(Tail(rs)) : Tail(rs)[k] = rs[k + 1]
  OBVIOUS
<1>3. 1 \in 1 .. Len(rs) /\ rs[1] \in S
  BY <1>1
<1>4. ASSUME NEW k \in 1 .. Len(rs), k # 1
      PROVE  k - 1 \in 1 .. Len(Tail(rs)) /\ Tail(rs)[k - 1] = rs[k]
  <2>1. k - 1 \in 1 .. Len(Tail(rs)) /\ (k - 1) + 1 = k
    BY <1>1, <1>4
  <2> QED
    BY <1>2, <2>1
<1>5. \A k \in 1 .. Len(Tail(rs)) : k + 1 \in 1 .. Len(rs)
  BY <1>1
<1> QED
  BY <1>1, <1>2, <1>3, <1>4, <1>5

LEMMA TailRequests ==
    ASSUME NEW rs \in Seq(AnyCommands), rs # <<>>, InLine(rs)
    PROVE  /\ InLine(Tail(rs))
           /\ \A n : Ahead(rs, n) <=> \/ rs[1].kind # "close" /\ rs[1].job = n
                                      \/ Ahead(Tail(rs), n)
           /\ \A n : ToClose(rs, n) <=> \/ rs[1].kind = "close" /\ rs[1].job = n
                                        \/ ToClose(Tail(rs), n)
           /\ \A n : Ahead(Tail(rs), n) => rs[1].job < n
<1>1. PICK ts \in Seq(AnyCommands) : ts = Tail(rs)
  BY TailElements
<1>2. /\ 1 \in 1 .. Len(rs)
      /\ \A k \in 1 .. Len(ts) : k + 1 \in 1 .. Len(rs) /\ ts[k] = rs[k + 1]
      /\ \A k \in 1 .. Len(rs) : k # 1 => k - 1 \in 1 .. Len(ts) /\ ts[k - 1] = rs[k]
  BY <1>1, TailElements
<1>3. InLine(ts)
  <2>1. ASSUME NEW k \in 1 .. Len(ts), NEW l \in 1 .. Len(ts), k < l, ts[l].kind # "close"
        PROVE  ts[k].job < ts[l].job
    <3>1. k + 1 < l + 1
      BY <2>1
    <3> QED
      BY <1>2, <2>1, <3>1 DEF InLine
  <2> QED
    BY <2>1 DEF InLine
<1>4. ASSUME NEW n PROVE Ahead(rs, n) <=> (rs[1].kind # "close" /\ rs[1].job = n) \/ Ahead(ts, n)
  <2>1. ASSUME Ahead(rs, n) PROVE (rs[1].kind # "close" /\ rs[1].job = n) \/ Ahead(ts, n)
    <3>1. PICK k \in 1 .. Len(rs) : rs[k].kind # "close" /\ rs[k].job = n
      BY <2>1 DEF Ahead
    <3>2. CASE k # 1
      <4>1. k - 1 \in 1 .. Len(ts) /\ ts[k - 1] = rs[k]
        BY <1>2, <3>2
      <4> QED
        BY <3>1, <4>1 DEF Ahead
    <3> QED
      BY <3>1, <3>2
  <2>2. ASSUME Ahead(ts, n) PROVE Ahead(rs, n)
    <3>1. PICK k \in 1 .. Len(ts) : ts[k].kind # "close" /\ ts[k].job = n
      BY <2>2 DEF Ahead
    <3>2. k + 1 \in 1 .. Len(rs) /\ ts[k] = rs[k + 1]
      BY <1>2
    <3> QED
      BY <3>1, <3>2 DEF Ahead
  <2> QED
    BY <1>2, <2>1, <2>2 DEF Ahead
<1>5. ASSUME NEW n PROVE ToClose(rs, n) <=> (rs[1].kind = "close" /\ rs[1].job = n) \/ ToClose(ts, n)
  <2>1. ASSUME ToClose(rs, n) PROVE (rs[1].kind = "close" /\ rs[1].job = n) \/ ToClose(ts, n)
    <3>1. PICK k \in 1 .. Len(rs) : rs[k].kind = "close" /\ rs[k].job = n
      BY <2>1 DEF ToClose
    <3>2. CASE k # 1
      <4>1. k - 1 \in 1 .. Len(ts) /\ ts[k - 1] = rs[k]
        BY <1>2, <3>2
      <4> QED
        BY <3>1, <4>1 DEF ToClose
    <3> QED
      BY <3>1, <3>2
  <2>2. ASSUME ToClose(ts, n) PROVE ToClose(rs, n)
    <3>1. PICK k \in 1 .. Len(ts) : ts[k].kind = "close" /\ ts[k].job = n
      BY <2>2 DEF ToClose
    <3>2. k + 1 \in 1 .. Len(rs) /\ ts[k] = rs[k + 1]
      BY <1>2
    <3> QED
      BY <3>1, <3>2 DEF ToClose
  <2> QED
    BY <1>2, <2>1, <2>2 DEF ToClose
<1>6. ASSUME NEW n, Ahead(ts, n) PROVE rs[1].job < n
  <2>1. PICK k \in 1 .. Len(ts) : ts[k].kind # "close" /\ ts[k].job = n
    BY <1>6 DEF Ahead
  <2>2. 1 < k + 1
    OBVIOUS
  <2> QED
    BY <1>2, <2>1, <2>2 DEF InLine
<1> QED
  BY <1>1, <1>3, <1>4, <1>5, <1>6

LEMMA JobsOfElements ==
    ASSUME NEW S, NEW cs \in Seq(S), NEW kind, NEW n
    PROVE  n \in JobsOf(cs, kind) <=> \E k \in 1 .. Len(cs) : cs[k].kind = kind /\ cs[k].job = n
<1>1. DOMAIN cs = 1 .. Len(cs)
  OBVIOUS
<1>2. \A c : c \in Range(cs) <=> \E k \in 1 .. Len(cs) : c = cs[k]
  BY <1>1 DEF Range
<1>3. n \in JobsOf(cs, kind) <=> \E c \in Range(cs) : c.kind = kind /\ c.job = n
  BY DEF JobsOf
<1> QED
  BY <1>2, <1>3

\* A subscription that is closed is in no stream any more; it is not in front of the node, and
\* when it waits for a path it is a stray.
LEMMA HandleCloseInv == ASSUME RunInv, HandleClose PROVE RunInv'
<1> USE DEF RunInv
<1>1. /\ UNCHANGED <<jobs, searching, awaiting, owned, inbox, table>>
      /\ requests # <<>> /\ requests' = Tail(requests) /\ Head(requests).kind = "close"
      /\ streams' = Unsubscribed(Head(requests).job)
      /\ strays' = IF \E i \in Paths : Head(requests).job \in JobsOf(searching[i], "subscribe")
                   THEN strays \cup {Head(requests).job} ELSE strays
  BY DEF HandleClose
<1>2. /\ requests \in Seq(AnyCommands) /\ searching \in [Paths -> Seq(Commands)]
      /\ jobs \in Seq(JobTypes) /\ InLine(requests)
  BY DEF RunTypeOK, RequestsInLine
<1>3. PICK n \in {Head(requests).job} : TRUE
  OBVIOUS
<1>4. requests[1].kind = "close" /\ requests[1].job = n /\ requests' \in Seq(AnyCommands)
  BY <1>1, <1>2, <1>3, TailElements
<1>5. /\ streams' \in [Paths -> StreamTypes \cup {NoStream}]
      /\ \A k \in Paths : /\ streams'[k] = NoStream <=> streams[k] = NoStream
                          /\ streams[k] # NoStream =>
                                /\ streams'[k].topics = streams[k].topics
                                /\ streams'[k].subs = streams[k].subs \ {n}
                                /\ streams'[k].io = streams[k].io
      /\ ~Subscribed(n)' /\ \A k \in Paths : Up(k)' <=> Up(k)
  BY <1>1, <1>3, UnsubscribedFacts
<1>6. /\ InLine(requests')
      /\ \A m : Ahead(requests, m) <=> Ahead(requests', m)
      /\ \A m : ToClose(requests, m) <=> n = m \/ ToClose(requests', m)
      /\ \A m : Ahead(requests', m) => n < m
  BY <1>1, <1>2, <1>4, TailRequests
<1>7. \A m : (Waiting(m)' <=> Waiting(m)) /\ (IsSub(m)' <=> IsSub(m)) /\ (Subscribed(m)' => Subscribed(m))
  <2>1. ASSUME NEW m PROVE Waiting(m)' <=> Waiting(m)
    BY <1>1, <1>6 DEF Waiting
  <2>2. ASSUME NEW m, Subscribed(m)' PROVE Subscribed(m)
    BY <1>5, <2>2 DEF Subscribed
  <2> QED
    BY <1>1, <2>1, <2>2 DEF IsSub
<1>8. RunTypeOK'
  BY <1>1, <1>4, <1>5 DEF RunTypeOK
<1>9. \A k \in 1 .. Len(requests') : \E l \in 1 .. Len(requests) : requests'[k] = requests[l]
  BY <1>1, <1>2, TailElements
<1>10. AllKnown'
  <2>1. ASSUME NEW k \in 1 .. Len(requests') PROVE Known(requests[k])'
    <3>1. PICK l \in 1 .. Len(requests) : requests'[k] = requests[l]
      BY <1>9
    <3>2. Known(requests[l])
      BY DEF AllKnown
    <3> QED
      BY <1>1, <3>1, <3>2 DEF Known
  <2> QED
    BY <1>1, <2>1 DEF AllKnown, Known
<1>11. RequestsInLine'
  <2>1. ASSUME NEW i \in Paths, NEW k \in 1 .. Len(searching[i]), NEW l \in 1 .. Len(requests'),
               requests'[l].kind # "close"
        PROVE  searching[i][k].job < requests'[l].job
    BY <1>9, <2>1 DEF RequestsInLine
  <2> QED
    BY <1>1, <1>6, <2>1 DEF RequestsInLine
<1>12. Searches'
  <2>1. ASSUME NEW i \in Paths, NEW t \in Topics, awaiting[i] # NoStream, SearchedFor(i, t)
        PROVE  SearchedFor(i, t)'
    <3>1. streams'[i] = NoStream
      BY <1>5, <2>1 DEF SearchedFor
    <3>2. \A j \in Paths : ~Serves(j, t)'
      BY <1>5, <2>1 DEF SearchedFor, Serves
    <3> QED
      BY <1>1, <2>1, <3>1, <3>2 DEF SearchedFor, TopicOf
  <2> QED
    BY <1>1, <2>1 DEF Searches
<1>13. Order'
  BY <1>1, <1>7 DEF Order
<1>14. Written'
  <2>1. ASSUME NEW i \in Paths, streams'[i] # NoStream, NEW m \in streams'[i].subs
        PROVE  IsSub(m)' /\ ~Waiting(m)'
    BY <1>5, <1>7, <2>1 DEF Written
  <2>2. ASSUME NEW i \in Paths, NEW k \in 1 .. Len(inbox[i]) PROVE ~Waiting(inbox[i][k].job)'
    <3>1. PICK m \in {inbox[i][k].job} : TRUE
      OBVIOUS
    <3>2. ~Waiting(m)'
      BY <1>7, <3>1 DEF Written
    <3> QED
      BY <1>1, <3>1, <3>2 DEF Waiting
  <2>3. ASSUME NEW i \in Paths, ~Up(i)' PROVE inbox'[i] = <<>>
    BY <1>1, <1>5, <2>3 DEF Written
  <2> QED
    BY <1>1, <2>1, <2>2, <2>3 DEF Written
<1>15. StreamsInLine'
  BY <1>1 DEF StreamsInLine, InboxInLine, TopicOf
<1>16. Heard'
  <2> SUFFICES ASSUME NEW i \in Paths, Up(i)', NEW m \in owned' \cap streams'[i].subs
               PROVE  HeardOn(i, m)'
    BY DEF Heard
  <2>1. Up(i) /\ m \in owned \cap streams[i].subs
    BY <1>1, <1>5 DEF Up
  <2>2. HeardOn(i, m)
    BY <2>1 DEF Heard
  <2> QED
    BY <1>1, <2>2 DEF HeardOn, TopicOf
<1>17. Owners'
  BY <1>1 DEF Owners, IsSub, Account
<1>18. Closed'
  <2> SUFFICES ASSUME NEW m \in 1 .. Len(jobs'), IsSub(m)', m \notin owned'
               PROVE  m \in strays' \/ Closing(m)' \/ (~Subscribed(m)' /\ ~Waiting(m)')
    BY DEF Closed
  <2>1. m \in 1 .. Len(jobs) /\ IsSub(m) /\ m \notin owned /\ m \in Nat
    BY <1>1, <1>2, <1>7
  <2>2. m \in strays \/ Closing(m) \/ (~Subscribed(m) /\ ~Waiting(m))
    BY <2>1 DEF Closed
  <2>3. CASE m \in strays
    BY <1>1, <2>3
  <2>4. CASE ~Subscribed(m) /\ ~Waiting(m)
    BY <1>7, <2>4
  <2>5. CASE Closing(m) /\ m # n
    BY <1>6, <2>5 DEF Closing
  <2>6. CASE m = n
    <3>1. CASE \E i \in Paths : n \in JobsOf(searching[i], "subscribe")
      BY <1>1, <1>3, <2>6, <3>1
    <3>2. CASE ~\E i \in Paths : n \in JobsOf(searching[i], "subscribe")
      <4>1. ~Ahead(requests, n)
        BY <1>6, <2>1, <2>6
      <4>2. ASSUME NEW i \in Paths, Among(searching[i], n) PROVE FALSE
        <5>1. PICK k \in 1 .. Len(searching[i]) : searching[i][k].job = n
          BY <4>2 DEF Among
        <5>2. Known(searching[i][k]) /\ searching[i][k] \in Commands
          BY <1>2 DEF AllKnown
        <5>3. searching[i][k].kind = "subscribe"
          BY <2>1, <2>6, <5>1, <5>2 DEF Known, IsSub, Commands
        <5>4. n \in JobsOf(searching[i], "subscribe")
          BY <1>2, <5>1, <5>3, JobsOfElements
        <5> QED
          BY <3>2, <5>4
      <4>3. ~Waiting(n)
        BY <4>1, <4>2 DEF Waiting
      <4> QED
        BY <1>5, <1>7, <2>6, <4>3
    <3> QED
      BY <3>1, <3>2
  <2> QED
    BY <2>2, <2>3, <2>4, <2>5, <2>6
<1> QED
  BY <1>8, <1>10, <1>11, <1>12, <1>13, <1>14, <1>15, <1>16, <1>17, <1>18

\* One more element, and more behind it.
Appended(q, rs, c, cl) ==
    /\ Len(rs) \in Nat /\ Len(rs) + 1 \in 1 .. Len(q) /\ q[Len(rs) + 1] = c
    /\ \A k \in 1 .. Len(rs) : k \in 1 .. Len(q) /\ q[k] = rs[k]
    /\ \A k \in 1 .. Len(cl) : \E l \in 1 .. Len(q) : q[l] = cl[k]
    /\ \A k \in 1 .. Len(q) : \/ k \in 1 .. Len(rs)
                              \/ k = Len(rs) + 1
                              \/ k > Len(rs) + 1 /\ \E l \in 1 .. Len(cl) : q[k] = cl[l]

LEMMA AppendedElements ==
    ASSUME NEW S, NEW rs \in Seq(S), NEW c \in S, NEW cl \in Seq(S)
    PROVE  Append(rs, c) \o cl \in Seq(S) /\ Appended(Append(rs, c) \o cl, rs, c, cl)
<1>1. PICK a \in Seq(S) : a = Append(rs, c)
  BY AppendProperties
<1>2. /\ Len(a) = Len(rs) + 1 /\ a[Len(rs) + 1] = c /\ Len(rs) \in Nat /\ Len(cl) \in Nat
      /\ \A k \in 1 .. Len(rs) : a[k] = rs[k]
  BY <1>1, AppendProperties
<1>3. PICK q \in Seq(S) : q = a \o cl
  BY ConcatProperties
<1>4. /\ Len(q) = Len(rs) + 1 + Len(cl)
      /\ \A k \in 1 .. Len(q) : q[k] = IF k <= Len(rs) + 1 THEN a[k] ELSE cl[k - (Len(rs) + 1)]
  <2>1. Len(q) = Len(a) + Len(cl)
        /\ \A k \in 1 .. Len(a) + Len(cl) : q[k] = IF k <= Len(a) THEN a[k] ELSE cl[k - Len(a)]
    BY <1>3, ConcatProperties
  <2> QED
    BY <1>2, <2>1
<1>5. Len(rs) + 1 \in 1 .. Len(q) /\ q[Len(rs) + 1] = c
  BY <1>2, <1>4
<1>6. \A k \in 1 .. Len(rs) : k \in 1 .. Len(q) /\ q[k] = rs[k]
  BY <1>2, <1>4
<1>7. ASSUME NEW k \in 1 .. Len(cl) PROVE \E l \in 1 .. Len(q) : q[l] = cl[k]
  <2>1. Len(rs) + 1 + k \in 1 .. Len(q) /\ ~(Len(rs) + 1 + k <= Len(rs) + 1)
        /\ (Len(rs) + 1 + k) - (Len(rs) + 1) = k
    BY <1>2, <1>4
  <2>2. q[Len(rs) + 1 + k] = cl[k]
    BY <1>4, <2>1
  <2> QED
    BY <2>1, <2>2
<1>8. ASSUME NEW k \in 1 .. Len(q), k > Len(rs) + 1 PROVE \E l \in 1 .. Len(cl) : q[k] = cl[l]
  <2>1. k - (Len(rs) + 1) \in 1 .. Len(cl) /\ ~(k <= Len(rs) + 1)
    BY <1>2, <1>4, <1>8
  <2>2. q[k] = cl[k - (Len(rs) + 1)]
    BY <1>4, <2>1
  <2> QED
    BY <2>1, <2>2
<1>9. \A k \in 1 .. Len(q) : k \in 1 .. Len(rs) \/ k = Len(rs) + 1 \/ k > Len(rs) + 1
  BY <1>2, <1>4
<1>10. Appended(q, rs, c, cl)
  BY <1>2, <1>5, <1>6, <1>7, <1>8, <1>9 DEF Appended
<1> QED
  BY <1>1, <1>3, <1>10

\* A job is handed to the node, and behind it the subscriptions that it replaces are closed.
LEMMA HandedInv ==
    ASSUME RunInv, NEW kind \in {"request", "subscribe"}, NEW t \in Topics,
           NEW cl \in Seq(AnyCommands),
           \A k \in 1 .. Len(cl) : cl[k].kind = "close" /\ cl[k].job \in 1 .. Len(jobs),
           jobs' = Append(jobs, [kind |-> kind, topic |-> t]),
           requests' = Append(requests, Command(kind, Len(jobs) + 1)) \o cl,
           UNCHANGED <<searching, awaiting, inbox, table, streams, strays>>,
           owned' \subseteq owned \cup {Len(jobs) + 1},
           kind = "subscribe" => Len(jobs) + 1 \in owned',
           \A n \in owned : n \in owned' \/ ToClose(cl, n),
           Owners'
    PROVE  RunInv'
<1> USE DEF RunInv
<1>1. jobs \in Seq(JobTypes) /\ requests \in Seq(AnyCommands) /\ Len(jobs) \in Nat
  BY DEF RunTypeOK
<1>2. PICK new \in Nat : new = Len(jobs) + 1
  BY <1>1
<1>3. /\ jobs' \in Seq(JobTypes) /\ Len(jobs') = new
      /\ jobs'[new] = [kind |-> kind, topic |-> t]
      /\ \A n \in 1 .. Len(jobs) : jobs'[n] = jobs[n]
  <2>1. [kind |-> kind, topic |-> t] \in JobTypes
    BY DEF JobTypes
  <2> QED
    BY <1>1, <1>2, <2>1, AppendProperties
<1>4. PICK c \in AnyCommands : c = Command(kind, new) /\ c.kind = kind /\ c.job = new
  <2>1. /\ Command(kind, new) \in AnyCommands /\ Command(kind, new).kind = kind
        /\ Command(kind, new).job = new
    BY DEF AnyCommands, Command
  <2> QED
    BY <2>1
<1>5. /\ requests' \in Seq(AnyCommands)
      /\ Len(requests) \in Nat /\ Len(requests) + 1 \in 1 .. Len(requests')
      /\ requests'[Len(requests) + 1] = c
      /\ \A k \in 1 .. Len(requests) : k \in 1 .. Len(requests') /\ requests'[k] = requests[k]
      /\ \A k \in 1 .. Len(cl) : \E l \in 1 .. Len(requests') : requests'[l] = cl[k]
      /\ \A k \in 1 .. Len(requests') :
            \/ k \in 1 .. Len(requests)
            \/ k = Len(requests) + 1
            \/ k > Len(requests) + 1 /\ \E l \in 1 .. Len(cl) : requests'[k] = cl[l]
  <2>1. requests' = Append(requests, c) \o cl
    BY <1>2, <1>4
  <2>2. requests' \in Seq(AnyCommands) /\ Appended(requests', requests, c, cl)
    BY <1>1, <2>1, AppendedElements
  <2> QED
    BY <2>2 DEF Appended
<1>6. \A n : n \in 1 .. Len(jobs) => n \in 1 .. Len(jobs') /\ n < new /\ n # new
  BY <1>1, <1>2, <1>3
<1>7. \A n : Ahead(requests', n) <=> Ahead(requests, n) \/ n = new
  <2>1. ASSUME NEW n, Ahead(requests', n) PROVE Ahead(requests, n) \/ n = new
    <3>1. PICK k \in 1 .. Len(requests') : requests'[k].kind # "close" /\ requests'[k].job = n
      BY <2>1 DEF Ahead
    <3>2. k \in 1 .. Len(requests) \/ k = Len(requests) + 1
      BY <1>5, <3>1
    <3> QED
      BY <1>4, <1>5, <3>1, <3>2 DEF Ahead
  <2>2. ASSUME NEW n, Ahead(requests, n) PROVE Ahead(requests', n)
    <3>1. PICK k \in 1 .. Len(requests) : requests[k].kind # "close" /\ requests[k].job = n
      BY <2>2 DEF Ahead
    <3>2. k \in 1 .. Len(requests') /\ requests'[k] = requests[k]
      BY <1>5
    <3> QED
      BY <3>1, <3>2 DEF Ahead
  <2>3. Ahead(requests', new)
    BY <1>4, <1>5 DEF Ahead
  <2> QED
    BY <2>1, <2>2, <2>3
<1>8. \A n : ToClose(requests, n) \/ ToClose(cl, n) => ToClose(requests', n)
  <2>1. ASSUME NEW n, ToClose(requests, n) PROVE ToClose(requests', n)
    <3>1. PICK k \in 1 .. Len(requests) : requests[k].kind = "close" /\ requests[k].job = n
      BY <2>1 DEF ToClose
    <3>2. k \in 1 .. Len(requests') /\ requests'[k] = requests[k]
      BY <1>5
    <3> QED
      BY <3>1, <3>2 DEF ToClose
  <2>2. ASSUME NEW n, ToClose(cl, n) PROVE ToClose(requests', n)
    <3>1. PICK k \in 1 .. Len(cl) : cl[k].kind = "close" /\ cl[k].job = n
      BY <2>2 DEF ToClose
    <3>2. PICK l \in 1 .. Len(requests') : requests'[l] = cl[k]
      BY <1>5
    <3> QED
      BY <3>1, <3>2 DEF ToClose
  <2> QED
    BY <2>1, <2>2
<1>9. \A n : Waiting(n)' <=> Waiting(n) \/ n = new
  BY <1>7 DEF Waiting
<1>10. \A n \in 1 .. Len(jobs) : IsSub(n)' <=> IsSub(n)
  BY <1>3, <1>6 DEF IsSub
<1>11. \A n : Closing(n) => Closing(n)'
  BY <1>8 DEF Closing
<1>12. \A d : Known(d) => /\ d.job \in 1 .. Len(jobs) /\ d.job < new
                          /\ jobs'[d.job] = jobs[d.job] /\ Known(d)'
  BY <1>3, <1>6 DEF Known
<1>13. RunTypeOK'
  BY <1>3, <1>5 DEF RunTypeOK
<1>14. AllKnown'
  <2>1. ASSUME NEW k \in 1 .. Len(requests') PROVE Known(requests[k])'
    <3>1. CASE k \in 1 .. Len(requests)
      <4>1. PICK d \in {requests[k]} : Known(d)
        BY <3>1 DEF AllKnown
      <4>2. Known(d)'
        BY <1>12, <4>1
      <4> QED
        BY <1>5, <3>1, <4>1, <4>2 DEF Known
    <3>2. CASE k = Len(requests) + 1
      BY <1>2, <1>3, <1>4, <1>5, <3>2 DEF Known
    <3>3. CASE \E l \in 1 .. Len(cl) : requests'[k] = cl[l]
      BY <1>6, <3>3 DEF Known
    <3> QED
      BY <1>5, <3>1, <3>2, <3>3
  <2>2. ASSUME NEW i \in Paths, NEW k \in 1 .. Len(searching[i]) PROVE Known(searching[i][k])'
    <3>1. PICK d \in {searching[i][k]} : Known(d)
      BY DEF AllKnown
    <3>2. Known(d)'
      BY <1>12, <3>1
    <3> QED
      BY <3>1, <3>2 DEF Known
  <2>3. ASSUME NEW i \in Paths, NEW k \in 1 .. Len(inbox[i]) PROVE Known(inbox[i][k])'
    <3>1. PICK d \in {inbox[i][k]} : Known(d)
      BY DEF AllKnown
    <3>2. Known(d)'
      BY <1>12, <3>1
    <3> QED
      BY <3>1, <3>2 DEF Known
  <2> QED
    BY <2>1, <2>2, <2>3 DEF AllKnown
<1>15. RequestsInLine'
  <2>1. ASSUME NEW k \in 1 .. Len(requests'), NEW l \in 1 .. Len(requests'), k < l,
               requests'[l].kind # "close"
        PROVE  requests'[k].job < requests'[l].job
    <3>1. l \in 1 .. Len(requests) \/ l = Len(requests) + 1
      BY <1>5, <2>1
    <3>2. k \in 1 .. Len(requests)
      BY <1>5, <2>1, <3>1
    <3>3. requests'[k] = requests[k] /\ Known(requests[k])
      BY <1>5, <3>2 DEF AllKnown
    <3>4. CASE l \in 1 .. Len(requests)
      BY <1>5, <2>1, <3>2, <3>4 DEF RequestsInLine, InLine
    <3>5. CASE l = Len(requests) + 1
      BY <1>4, <1>5, <1>12, <3>3, <3>5
    <3> QED
      BY <3>1, <3>4, <3>5
  <2>2. ASSUME NEW i \in Paths, NEW k \in 1 .. Len(searching[i]), NEW l \in 1 .. Len(requests'),
               requests'[l].kind # "close"
        PROVE  searching[i][k].job < requests'[l].job
    <3>1. l \in 1 .. Len(requests) \/ l = Len(requests) + 1
      BY <1>5, <2>2
    <3>2. Known(searching[i][k])
      BY DEF AllKnown
    <3>3. CASE l \in 1 .. Len(requests)
      BY <1>5, <2>2, <3>3 DEF RequestsInLine
    <3>4. CASE l = Len(requests) + 1
      BY <1>4, <1>5, <1>12, <3>2, <3>4
    <3> QED
      BY <3>1, <3>3, <3>4
  <2>3. InLine(requests')
    BY <2>1 DEF InLine
  <2> QED
    BY <2>2, <2>3 DEF RequestsInLine
<1>16. Searches'
  <2>1. ASSUME NEW i \in Paths, NEW u \in Topics, awaiting[i] # NoStream, SearchedFor(i, u)
        PROVE  SearchedFor(i, u)'
    <3>1. ASSUME NEW k \in 1 .. Len(searching[i]) PROVE TopicOf(searching[i][k])' = u
      BY <1>12, <2>1 DEF AllKnown, SearchedFor, TopicOf
    <3>2. \A j \in Paths : ~Serves(j, u)'
      BY <2>1 DEF SearchedFor, Serves
    <3> QED
      BY <2>1, <3>1, <3>2 DEF SearchedFor
  <2> QED
    BY <2>1 DEF Searches
<1>17. Order'
  <2> SUFFICES ASSUME NEW m \in 1 .. Len(jobs'), NEW n \in 1 .. Len(jobs'), m < n,
                      jobs'[m].topic = jobs'[n].topic, Waiting(m)'
               PROVE  Waiting(n)'
    BY DEF Order
  <2>1. m \in 1 .. Len(jobs) /\ (n \in 1 .. Len(jobs) \/ n = new)
    BY <1>1, <1>2, <1>3
  <2>2. Waiting(m)
    BY <1>6, <1>9, <2>1
  <2>3. CASE n \in 1 .. Len(jobs)
    BY <1>3, <1>9, <2>1, <2>2, <2>3 DEF Order
  <2> QED
    BY <1>9, <2>1, <2>3
<1>18. Written'
  <2>1. ASSUME NEW i \in Paths, streams'[i] # NoStream, NEW n \in streams'[i].subs
        PROVE  IsSub(n)' /\ ~Waiting(n)'
    <3>1. IsSub(n) /\ ~Waiting(n) /\ n \in 1 .. Len(jobs)
      BY <2>1 DEF Written, IsSub
    <3> QED
      BY <1>6, <1>9, <1>10, <3>1
  <2>2. ASSUME NEW i \in Paths, NEW k \in 1 .. Len(inbox[i]) PROVE ~Waiting(inbox[i][k].job)'
    <3>1. PICK n \in {inbox[i][k].job} : ~Waiting(n) /\ n \in 1 .. Len(jobs)
      BY DEF Written, AllKnown, Known
    <3>2. ~Waiting(n)'
      BY <1>6, <1>9, <3>1
    <3> QED
      BY <3>1, <3>2 DEF Waiting
  <2>3. ASSUME NEW i \in Paths, ~Up(i)' PROVE inbox'[i] = <<>>
    BY <2>3 DEF Written, Up
  <2> QED
    BY <2>1, <2>2, <2>3 DEF Written
<1>19. \A i \in Paths : \A k \in 1 .. Len(inbox[i]) :
          jobs'[inbox[i][k].job].topic = jobs[inbox[i][k].job].topic
  BY <1>12 DEF AllKnown
<1>20. StreamsInLine'
  <2>1. ASSUME NEW i \in Paths, NEW k \in 1 .. Len(inbox[i]), NEW l \in 1 .. Len(inbox[i]), k < l,
               jobs'[inbox[i][k].job].topic = jobs'[inbox[i][l].job].topic
        PROVE  inbox[i][k].job < inbox[i][l].job
    <3>1. InboxInLine(inbox[i])
      BY DEF StreamsInLine
    <3>2. jobs[inbox[i][k].job].topic = jobs[inbox[i][l].job].topic
      BY <1>19, <2>1
    <3> QED
      BY <2>1, <3>1, <3>2 DEF InboxInLine, TopicOf
  <2> QED
    BY <2>1 DEF StreamsInLine, InboxInLine, TopicOf
<1>21. Heard'
  <2> SUFFICES ASSUME NEW i \in Paths, Up(i)', NEW n \in owned' \cap streams'[i].subs
               PROVE  HeardOn(i, n)'
    BY DEF Heard
  <2>1. Up(i) /\ n \in streams[i].subs
    BY DEF Up
  <2>2. IsSub(n) /\ n \in 1 .. Len(jobs)
    BY <2>1 DEF Written, IsSub, Up
  <2>3. n \in owned
    BY <1>2, <1>6, <2>2
  <2>4. HeardOn(i, n)
    BY <2>1, <2>3 DEF Heard
  <2>5. jobs'[n] = jobs[n]
    BY <1>3, <2>2
  <2> QED
    BY <1>19, <2>4, <2>5 DEF HeardOn, TopicOf
<1>22. Closed'
  <2> SUFFICES ASSUME NEW n \in 1 .. Len(jobs'), IsSub(n)', n \notin owned'
               PROVE  n \in strays' \/ Closing(n)' \/ (~Subscribed(n)' /\ ~Waiting(n)')
    BY DEF Closed
  <2>1. n # new
    BY <1>2, <1>3 DEF IsSub
  <2>2. n \in 1 .. Len(jobs) /\ IsSub(n)
    <3>1. n \in 1 .. Len(jobs)
      BY <1>1, <1>2, <1>3, <2>1
    <3> QED
      BY <1>10, <3>1
  <2>3. CASE n \in owned
    BY <1>8, <2>3 DEF Closing
  <2>4. CASE n \notin owned
    <3>1. n \in strays \/ Closing(n) \/ (~Subscribed(n) /\ ~Waiting(n))
      BY <2>2, <2>4 DEF Closed
    <3>2. Subscribed(n)' <=> Subscribed(n)
      BY DEF Subscribed
    <3> QED
      BY <1>9, <1>11, <2>1, <3>1, <3>2
  <2> QED
    BY <2>3, <2>4
<1> QED
  BY <1>13, <1>14, <1>15, <1>16, <1>17, <1>18, <1>20, <1>21, <1>22

LEMMA DispatchInv == ASSUME RunInv, Running, NEW t \in Asked, Dispatch(t) PROVE RunInv'
<1>1. jobs \in Seq(JobTypes) /\ requests \in Seq(AnyCommands) /\ Len(jobs) \in Nat
  BY DEF RunInv, RunTypeOK
<1>2. /\ UNCHANGED <<searching, awaiting, inbox, table, streams, strays, owned>>
      /\ jobs' = Append(jobs, [kind |-> "request", topic |-> t])
      /\ requests' = Append(requests, Command("request", Len(jobs) + 1))
  BY DEF Dispatch, bootVars
<1>3. t \in Topics
  BY ClientAssumption, StartsAssumption
<1>4. requests' = Append(requests, Command("request", Len(jobs) + 1)) \o <<>>
  <2>1. Command("request", Len(jobs) + 1) \in AnyCommands
    BY <1>1 DEF Command, AnyCommands
  <2>2. requests' \in Seq(AnyCommands)
    BY <1>1, <1>2, <2>1, AppendProperties
  <2> QED
    BY <1>2, <2>2, ConcatEmptySeq
<1>5. Owners'
  <2>1. /\ Len(jobs') = Len(jobs) + 1 /\ jobs'[Len(jobs) + 1] = [kind |-> "request", topic |-> t]
        /\ \A n \in 1 .. Len(jobs) : jobs'[n] = jobs[n]
    <3>1. [kind |-> "request", topic |-> t] \in JobTypes
      BY <1>3 DEF JobTypes
    <3> QED
      BY <1>1, <1>2, <3>1, AppendProperties
  <2>2. jobs'[Len(jobs) + 1].kind = "request"
    BY <2>1
  <2>3. \A n : IsSub(n)' <=> IsSub(n)
    BY <1>1, <2>1, <2>2 DEF IsSub
  <2>4. \A n \in 1 .. Len(jobs') : IsSub(n)' => n \in 1 .. Len(jobs) /\ jobs'[n] = jobs[n]
    BY <2>1, <2>3 DEF IsSub
  <2>5. Owners
    BY DEF RunInv
  <2>6. IsSub(Account) /\ jobs'[Account] = jobs[Account]
    BY <2>1, <2>5 DEF Owners, IsSub
  <2> QED
    BY <1>2, <2>3, <2>4, <2>5, <2>6 DEF Owners, Account
<1>6. <<>> \in Seq(AnyCommands) /\ Len(<<>>) = 0
  OBVIOUS
<1>7. PICK cl \in Seq(AnyCommands) : cl = <<>>
  BY <1>6
<1>8. \A k \in 1 .. Len(cl) : cl[k].kind = "close" /\ cl[k].job \in 1 .. Len(jobs)
  BY <1>6, <1>7
<1> QED
  BY <1>2, <1>3, <1>4, <1>5, <1>7, <1>8, HandedInv

LEMMA SelectChatInv == ASSUME RunInv, NEW t \in Asked, SelectChat(t) PROVE RunInv'
<1>1. jobs \in Seq(JobTypes) /\ requests \in Seq(AnyCommands) /\ Len(jobs) \in Nat /\ Owners
  BY DEF RunInv, RunTypeOK
<1>2. PICK old \in {owned \ {Account}} : TRUE
  OBVIOUS
<1>3. PICK cl \in {[k \in 1 .. Cardinality(old) |-> Command("close", CHOOSE n \in old : TRUE)]} : TRUE
  OBVIOUS
<1>4. /\ UNCHANGED <<searching, awaiting, inbox, table, streams, strays>>
      /\ jobs' = Append(jobs, [kind |-> "subscribe", topic |-> t])
      /\ requests' = Append(requests, Command("subscribe", Len(jobs) + 1)) \o cl
      /\ owned' = {Account, Len(jobs) + 1}
  BY <1>2, <1>3 DEF SelectChat, bootVars
<1>5. t \in Topics /\ t # Me
  BY ClientAssumption, StartsAssumption
<1>6. \A n \in old : n \in owned /\ IsSub(n) /\ n \in Nat /\ n \in 1 .. Len(jobs)
  BY <1>1, <1>2 DEF Owners, IsSub
<1>7. \A m, n \in old : m = n
  <2>1. \A m, n \in old : m <= n
    BY <1>1, <1>2, <1>6 DEF Owners
  <2> QED
    BY <1>6, <2>1
<1>8. /\ cl \in Seq(AnyCommands)
      /\ \A k \in 1 .. Len(cl) : cl[k].kind = "close" /\ cl[k].job \in 1 .. Len(jobs)
      /\ \A n \in old : ToClose(cl, n)
  <2>1. CASE old = {}
    <3>1. Cardinality(old) = 0
      BY <2>1, FS_EmptySet
    <3>2. cl = <<>>
      BY <1>3, <3>1
    <3> QED
      BY <2>1, <3>2
  <2>2. CASE old # {}
    <3>1. PICK n \in old : TRUE
      BY <2>2
    <3>2. old = {n}
      BY <1>7, <3>1
    <3>3. Cardinality(old) = 1
      BY <3>2, FS_Singleton
    <3>4. (CHOOSE m \in old : TRUE) = n
      BY <3>2
    <3>5. PICK c \in AnyCommands : c = Command("close", n) /\ c.kind = "close" /\ c.job = n
      <4>1. /\ Command("close", n) \in AnyCommands /\ Command("close", n).kind = "close"
            /\ Command("close", n).job = n
        BY <1>6 DEF Command, AnyCommands
      <4> QED
        BY <4>1
    <3>6. cl = [k \in 1 .. 1 |-> c]
      BY <1>3, <3>3, <3>4, <3>5
    <3>7. cl \in Seq(AnyCommands) /\ Len(cl) = 1 /\ cl[1] = c
      BY <3>6
    <3>8. ToClose(cl, n)
      BY <3>5, <3>7 DEF ToClose
    <3>9. \A k \in 1 .. Len(cl) : cl[k].kind = "close" /\ cl[k].job \in 1 .. Len(jobs)
      BY <1>6, <3>5, <3>7
    <3> QED
      BY <3>2, <3>7, <3>8, <3>9
  <2> QED
    BY <2>1, <2>2
<1>9. Owners'
  <2>1. PICK new \in Nat : new = Len(jobs) + 1
    BY <1>1
  <2>2. /\ Len(jobs') = new
        /\ jobs'[new] = [kind |-> "subscribe", topic |-> t]
        /\ \A n \in 1 .. Len(jobs) : jobs'[n] = jobs[n]
    <3>1. [kind |-> "subscribe", topic |-> t] \in JobTypes
      BY <1>5 DEF JobTypes
    <3> QED
      BY <1>1, <1>4, <2>1, <3>1, AppendProperties
  <2>3. jobs'[new].kind = "subscribe" /\ jobs'[new].topic = t
    BY <2>2
  <2>4. \A n : n \in 1 .. Len(jobs') <=> n \in 1 .. Len(jobs) \/ n = new
    BY <1>1, <2>1, <2>2
  <2>5. \A n \in 1 .. Len(jobs) : IsSub(n)' <=> IsSub(n)
    BY <2>2, <2>4 DEF IsSub
  <2>6. IsSub(new)'
    BY <2>3, <2>4 DEF IsSub
  <2>7. IsSub(Account) /\ Account \in 1 .. Len(jobs) /\ jobs[Account].topic = Me
    BY <1>1 DEF Owners, IsSub
  <2>8. IsSub(Account)' /\ jobs'[Account].topic = Me /\ Account \in owned'
    BY <1>4, <2>2, <2>5, <2>7
  <2>9. \A n \in 1 .. Len(jobs') : IsSub(n)' /\ n # Account => jobs'[n].topic # Me
    BY <1>1, <1>5, <2>2, <2>3, <2>4, <2>5 DEF Owners
  <2>10. \A n \in owned' : IsSub(n)'
    BY <1>4, <2>1, <2>6, <2>8
  <2>11. \A m \in 1 .. Len(jobs') : m <= new
    BY <2>1, <2>2
  <2>12. \A n \in owned' : n # Account => \A m \in 1 .. Len(jobs') : IsSub(m)' => m <= n
    BY <1>4, <2>1, <2>11
  <2> QED
    BY <2>8, <2>9, <2>10, <2>12 DEF Owners, Account
<1>10. owned' \subseteq owned \cup {Len(jobs) + 1} /\ \A n \in owned : n \in owned' \/ ToClose(cl, n)
  BY <1>1, <1>2, <1>4, <1>8 DEF Owners
<1> QED
  BY <1>4, <1>5, <1>8, <1>9, <1>10, HandedInv

\* A sequence, or the sequence with more on top of it.
OnTop(r, s, cs, io) ==
    /\ \A a \in 1 .. Len(s) : a \in 1 .. Len(r) /\ r[a] = s[a]
    /\ \A a \in 1 .. Len(r) :
          \/ a \in 1 .. Len(s)
          \/ a > Len(s) /\ a - Len(s) \in 1 .. Len(cs) /\ r[a] = cs[a - Len(s)]
    /\ io = "open" => \A l \in 1 .. Len(cs) : \E a \in 1 .. Len(r) : r[a] = cs[l]

LEMMA OnTopElements ==
    ASSUME NEW S, NEW s \in Seq(S), NEW cs \in Seq(S), NEW more, NEW r,
           r = IF more = "open" THEN s \o cs ELSE s
    PROVE  OnTop(r, s, cs, more)
<1>1. CASE more # "open"
  BY <1>1 DEF OnTop
<1>2. CASE more = "open"
  <2>1. r = s \o cs /\ Len(s) \in Nat /\ Len(cs) \in Nat
    BY <1>2
  <2>2. Len(r) = Len(s) + Len(cs)
        /\ \A a \in 1 .. Len(s) + Len(cs) : r[a] = IF a <= Len(s) THEN s[a] ELSE cs[a - Len(s)]
    BY <2>1, ConcatProperties
  <2>3. \A a \in 1 .. Len(s) : a \in 1 .. Len(r) /\ r[a] = s[a]
    BY <2>1, <2>2
  <2>4. ASSUME NEW a \in 1 .. Len(r), ~(a \in 1 .. Len(s))
        PROVE  a > Len(s) /\ a - Len(s) \in 1 .. Len(cs) /\ r[a] = cs[a - Len(s)]
    BY <2>1, <2>2, <2>4
  <2>5. ASSUME NEW l \in 1 .. Len(cs) PROVE \E a \in 1 .. Len(r) : r[a] = cs[l]
    <3>1. Len(s) + l \in 1 .. Len(r) /\ ~(Len(s) + l <= Len(s)) /\ (Len(s) + l) - Len(s) = l
      BY <2>1, <2>2
    <3>2. r[Len(s) + l] = cs[l]
      BY <2>2, <3>1
    <3> QED
      BY <3>1, <3>2
  <2> QED
    BY <2>3, <2>4, <2>5 DEF OnTop
<1> QED
  BY <1>1, <1>2

\* Jobs of topic t that wait, the oldest ones, are written to a stream.
LEMMA WriteInv ==
    ASSUME RunInv, NEW i \in Paths, NEW t \in Topics, NEW cs \in Seq(Commands),
           NEW now \in [Paths -> StreamTypes \cup {NoStream}], now[i] # NoStream,
           \A k \in Paths : k # i => now[k] = streams[k],
           \/ streams[i] # NoStream /\ now[i].subs = streams[i].subs /\ now[i].io = streams[i].io
           \/ streams[i] = NoStream /\ now[i].subs = {} /\ now[i].io = "open",
           Write(now, i, cs), Sorted(cs),
           \A k \in 1 .. Len(cs) : Known(cs[k]) /\ TopicOf(cs[k]) = t /\ Waiting(cs[k].job),
           \A n : Waiting(n)' <=> Waiting(n) /\ ~Among(cs, n),
           \A n \in 1 .. Len(jobs) : jobs[n].topic = t /\ Waiting(n) =>
              Among(cs, n) \/ \A k \in 1 .. Len(cs) : cs[k].job < n,
           \A n : Closing(n)' <=> Closing(n),
           UNCHANGED <<jobs, table, owned, strays>>
    PROVE  /\ streams' \in [Paths -> StreamTypes \cup {NoStream}]
           /\ inbox' \in [Paths -> Seq(Commands)]
           /\ \A k \in Paths : \A l \in 1 .. Len(inbox'[k]) : Known(inbox[k][l])'
           /\ \A k \in Paths : /\ streams'[k] = NoStream <=> now[k] = NoStream
                               /\ now[k] # NoStream => streams'[k].topics = now[k].topics
           /\ Order' /\ Written' /\ StreamsInLine' /\ Heard' /\ Owners' /\ Closed'
<1> USE DEF RunInv
<1>1. /\ jobs \in Seq(JobTypes) /\ inbox \in [Paths -> Seq(Commands)] /\ Len(jobs) \in Nat
      /\ streams \in [Paths -> StreamTypes \cup {NoStream}]
  BY DEF RunTypeOK
<1>2. PICK new \in SUBSET Nat : new = JobsOf(cs, "subscribe")
  <2>1. JobsOf(cs, "subscribe") \subseteq Nat
    <3>1. ASSUME NEW n \in JobsOf(cs, "subscribe") PROVE n \in Nat
      <4>1. PICK k \in 1 .. Len(cs) : cs[k].kind = "subscribe" /\ cs[k].job = n
        BY JobsOfElements
      <4>2. cs[k] \in Commands
        OBVIOUS
      <4> QED
        BY <4>1, <4>2 DEF Commands
    <3> QED
      BY <3>1
  <2> QED
    BY <2>1
<1>3. \A n : n \in new <=> \E k \in 1 .. Len(cs) : cs[k].kind = "subscribe" /\ cs[k].job = n
  BY <1>2, JobsOfElements
<1>4. now[i] \in StreamTypes
  OBVIOUS
<1> DEFINE s == [now[i] EXCEPT !.subs = @ \cup new]
<1>5. /\ s \in StreamTypes /\ s.topics = now[i].topics /\ s.io = now[i].io
      /\ s.subs = now[i].subs \cup new
  BY <1>4 DEF StreamTypes
<1>6. streams' = [now EXCEPT ![i] = s]
  BY <1>2 DEF Write
<1> HIDE DEF s
<1>7. /\ streams' \in [Paths -> StreamTypes \cup {NoStream}]
      /\ streams'[i] = s /\ \A k \in Paths : k # i => streams'[k] = streams[k]
  BY <1>5, <1>6
<1>8. s # NoStream
  BY <1>5, ClientAssumption
<1>9. \A k \in Paths : /\ streams'[k] = NoStream <=> now[k] = NoStream
                       /\ now[k] # NoStream => streams'[k].topics = now[k].topics
  BY <1>5, <1>7, <1>8
\* What has been written, and what is still on its way to the server.
<1>10. /\ inbox' \in [Paths -> Seq(Commands)]
       /\ inbox'[i] = IF now[i].io = "open" THEN inbox[i] \o cs ELSE inbox[i]
       /\ \A k \in Paths : k # i => inbox'[k] = inbox[k]
  <2>1. inbox[i] \o cs \in Seq(Commands)
    BY <1>1, ConcatProperties
  <2> QED
    BY <1>1, <2>1 DEF Write
<1>11. /\ \A a \in 1 .. Len(inbox[i]) : a \in 1 .. Len(inbox'[i]) /\ inbox'[i][a] = inbox[i][a]
       /\ \A a \in 1 .. Len(inbox'[i]) :
             \/ a \in 1 .. Len(inbox[i])
             \/ /\ a > Len(inbox[i]) /\ a - Len(inbox[i]) \in 1 .. Len(cs)
                /\ inbox'[i][a] = cs[a - Len(inbox[i])]
       /\ now[i].io = "open" => \A l \in 1 .. Len(cs) : \E a \in 1 .. Len(inbox'[i]) :
             inbox'[i][a] = cs[l]
  <2>1. OnTop(inbox'[i], inbox[i], cs, now[i].io)
    BY <1>1, <1>10, OnTopElements
  <2> QED
    BY <2>1 DEF OnTop
<1>12. \A k \in 1 .. Len(cs) : /\ cs[k] \in Commands /\ cs[k].job \in 1 .. Len(jobs) /\ cs[k].job \in Nat
                               /\ jobs[cs[k].job].kind = cs[k].kind
                               /\ jobs[cs[k].job].topic = t /\ Waiting(cs[k].job)
                               /\ Among(cs, cs[k].job)
  <2>1. ASSUME NEW k \in 1 .. Len(cs)
        PROVE  /\ cs[k] \in Commands /\ cs[k].job \in 1 .. Len(jobs) /\ cs[k].job \in Nat
               /\ jobs[cs[k].job].kind = cs[k].kind
               /\ jobs[cs[k].job].topic = t /\ Waiting(cs[k].job)
               /\ Among(cs, cs[k].job)
    <3>0. cs[k] \in Commands
      OBVIOUS
    <3>1. cs[k] \in Commands /\ cs[k].kind # "close" /\ cs[k].job \in Nat
      BY <3>0 DEF Commands
    <3>2. Known(cs[k]) /\ TopicOf(cs[k]) = t /\ Waiting(cs[k].job)
      OBVIOUS
    <3> QED
      BY <3>1, <3>2 DEF Known, TopicOf, Among
  <2> QED
    BY <2>1
<1>13. \A n \in new : IsSub(n) /\ Waiting(n) /\ ~Waiting(n)'
  BY <1>3, <1>12 DEF IsSub
<1>14. \A n : IsSub(n)' <=> IsSub(n)
  BY DEF IsSub
<1>15. \A k \in Paths : \A l \in 1 .. Len(inbox[k]) :
          inbox[k][l].job \in 1 .. Len(jobs) /\ Known(inbox[k][l]) /\ ~Waiting(inbox[k][l].job)
  BY DEF AllKnown, Known, Written
<1>16. \A k \in Paths : \A l \in 1 .. Len(inbox'[k]) : Known(inbox[k][l])'
  <2>1. ASSUME NEW l \in 1 .. Len(inbox'[i]) PROVE Known(inbox[i][l])'
    <3>1. CASE l \in 1 .. Len(inbox[i])
      BY <1>11, <1>15, <3>1 DEF Known
    <3>2. CASE ~(l \in 1 .. Len(inbox[i]))
      <4>1. PICK m \in 1 .. Len(cs) : inbox'[i][l] = cs[m]
        BY <1>11, <3>2
      <4>2. Known(cs[m])
        OBVIOUS
      <4> QED
        BY <4>1, <4>2 DEF Known
    <3> QED
      BY <3>1, <3>2
  <2>2. ASSUME NEW k \in Paths, k # i, NEW l \in 1 .. Len(inbox'[k]) PROVE Known(inbox[k][l])'
    BY <1>10, <1>15, <2>2 DEF Known
  <2> QED
    BY <2>1, <2>2
\* A job that has been written is older than those of its topic that still wait.
<1>17. ASSUME NEW m \in 1 .. Len(jobs), NEW n \in 1 .. Len(jobs), jobs[m].topic = jobs[n].topic,
              ~Waiting(m), Waiting(n)
       PROVE  m < n
  <2>1. ~(n < m)
    BY <1>17 DEF Order
  <2>2. n # m
    BY <1>17
  <2> QED
    BY <1>1, <2>1, <2>2
<1>18. Order'
  <2> SUFFICES ASSUME NEW m \in 1 .. Len(jobs), NEW n \in 1 .. Len(jobs), m < n,
                      jobs[m].topic = jobs[n].topic, Waiting(m)'
               PROVE  Waiting(n)'
    BY DEF Order
  <2>1. Waiting(m) /\ ~Among(cs, m)
    OBVIOUS
  <2>2. Waiting(n)
    BY <2>1 DEF Order
  <2>3. ASSUME Among(cs, n) PROVE FALSE
    <3>1. PICK k \in 1 .. Len(cs) : cs[k].job = n
      BY <2>3 DEF Among
    <3>2. jobs[m].topic = t
      BY <1>12, <3>1
    <3>3. n < m
      BY <2>1, <3>1, <3>2
    <3> QED
      BY <3>3
  <2> QED
    BY <2>2, <2>3
<1>19. Written'
  <2>1. ASSUME NEW k \in Paths, streams'[k] # NoStream, NEW n \in streams'[k].subs
        PROVE  IsSub(n)' /\ ~Waiting(n)'
    <3>1. CASE n \in new
      BY <1>13, <1>14, <3>1
    <3>2. CASE n \notin new
      <4>1. streams[k] # NoStream /\ n \in streams[k].subs
        BY <1>5, <1>7, <2>1, <3>2
      <4> QED
        BY <1>14, <4>1 DEF Written
    <3> QED
      BY <3>1, <3>2
  <2>2. ASSUME NEW k \in Paths, NEW l \in 1 .. Len(inbox'[k]) PROVE ~Waiting(inbox[k][l].job)'
    <3>1. CASE \E m \in 1 .. Len(inbox[k]) : inbox'[k][l] = inbox[k][m]
      <4>1. PICK m \in 1 .. Len(inbox[k]) : inbox'[k][l] = inbox[k][m]
        BY <3>1
      <4>2. PICK n \in {inbox[k][m].job} : ~Waiting(n)
        BY <1>15
      <4>3. ~Waiting(n)'
        BY <4>2
      <4> QED
        BY <4>1, <4>2, <4>3 DEF Waiting
    <3>2. CASE \E m \in 1 .. Len(cs) : inbox'[k][l] = cs[m]
      <4>1. PICK m \in 1 .. Len(cs) : inbox'[k][l] = cs[m]
        BY <3>2
      <4>2. PICK n \in {cs[m].job} : Among(cs, n)
        BY <1>12
      <4>3. ~Waiting(n)'
        BY <4>2
      <4> QED
        BY <4>1, <4>2, <4>3 DEF Waiting
    <3>3. \/ \E m \in 1 .. Len(inbox[k]) : inbox'[k][l] = inbox[k][m]
          \/ \E m \in 1 .. Len(cs) : inbox'[k][l] = cs[m]
      <4>1. CASE k = i
        BY <1>11, <4>1
      <4>2. CASE k # i
        BY <1>10, <4>2
      <4> QED
        BY <4>1, <4>2
    <3> QED
      BY <3>1, <3>2, <3>3
  <2>3. ASSUME NEW k \in Paths, ~Up(k)' PROVE inbox'[k] = <<>>
    <3>1. CASE k # i
      BY <1>7, <1>10, <2>3, <3>1 DEF Written, Up
    <3>2. CASE k = i
      <4>1. now[i].io # "open"
        BY <1>5, <1>7, <1>8, <2>3, <3>2 DEF Up
      <4>2. ~Up(i)
        BY <4>1 DEF Up
      <4> QED
        BY <1>10, <3>2, <4>1, <4>2 DEF Written
    <3> QED
      BY <3>1, <3>2
  <2> QED
    BY <2>1, <2>2, <2>3 DEF Written
<1>20. StreamsInLine'
  <2>1. ASSUME NEW a \in 1 .. Len(inbox'[i]), NEW b \in 1 .. Len(inbox'[i]), a < b,
               jobs[inbox'[i][a].job].topic = jobs[inbox'[i][b].job].topic
        PROVE  inbox'[i][a].job < inbox'[i][b].job
    <3>1. CASE b \in 1 .. Len(inbox[i])
      <4>1. a \in 1 .. Len(inbox[i])
        BY <2>1, <3>1
      <4> QED
        BY <1>11, <2>1, <3>1, <4>1 DEF StreamsInLine, InboxInLine, TopicOf
    <3>2. CASE a \in 1 .. Len(inbox[i]) /\ ~(b \in 1 .. Len(inbox[i]))
      <4>1. PICK m \in 1 .. Len(cs) : inbox'[i][b] = cs[m]
        BY <1>11, <3>2
      <4>2. inbox'[i][a] = inbox[i][a]
        BY <1>11, <3>2
      <4>3. PICK p \in 1 .. Len(jobs) : p = inbox[i][a].job /\ ~Waiting(p)
        BY <1>15, <3>2
      <4>4. PICK q \in 1 .. Len(jobs) : q = cs[m].job /\ Waiting(q)
        BY <1>12
      <4>5. jobs[p].topic = jobs[q].topic
        BY <2>1, <4>1, <4>2, <4>3, <4>4
      <4>6. p < q
        BY <1>17, <4>3, <4>4, <4>5
      <4> QED
        BY <4>1, <4>2, <4>3, <4>4, <4>6
    <3>3. CASE ~(a \in 1 .. Len(inbox[i])) /\ ~(b \in 1 .. Len(inbox[i]))
      <4>0. Len(inbox[i]) \in Nat
        BY <1>1
      <4>1. PICK L \in Nat : L = Len(inbox[i])
        BY <4>0
      <4>2. /\ a - L \in 1 .. Len(cs) /\ inbox'[i][a] = cs[a - L]
            /\ b - L \in 1 .. Len(cs) /\ inbox'[i][b] = cs[b - L]
        BY <1>11, <3>3, <4>1
      <4>3. a - L < b - L
        BY <2>1, <4>1
      <4> QED
        BY <4>2, <4>3 DEF Sorted
    <3> QED
      BY <3>1, <3>2, <3>3
  <2>2. ASSUME NEW k \in Paths PROVE InboxInLine(inbox[k])'
    <3>1. CASE k = i
      BY <2>1, <3>1 DEF InboxInLine, TopicOf
    <3>2. CASE k # i
      BY <1>10, <3>2 DEF StreamsInLine, InboxInLine, TopicOf
    <3> QED
      BY <3>1, <3>2
  <2> QED
    BY <2>2 DEF StreamsInLine
<1>21. Heard'
  <2> SUFFICES ASSUME NEW k \in Paths, Up(k)', NEW n \in owned' \cap streams'[k].subs
               PROVE  HeardOn(k, n)'
    BY DEF Heard
  <2>1. CASE k # i
    <3>1. Up(k) /\ n \in owned \cap streams[k].subs
      BY <1>7, <2>1 DEF Up
    <3>2. HeardOn(k, n)
      BY <3>1 DEF Heard
    <3> QED
      BY <1>10, <2>1, <3>2 DEF HeardOn, TopicOf
  <2>2. CASE k = i /\ n \in new
    <3>1. now[i].io = "open"
      BY <1>5, <1>7, <2>2 DEF Up
    <3>2. PICK l \in 1 .. Len(cs) : cs[l].kind = "subscribe" /\ cs[l].job = n
      BY <1>3, <2>2
    <3>3. cs[l] = Command("subscribe", n)
      <4>1. cs[l] \in Commands
        OBVIOUS
      <4> QED
        BY <3>2, <4>1 DEF Command, Commands
    <3>4. PICK a \in 1 .. Len(inbox'[i]) : inbox'[i][a] = cs[l]
      BY <1>11, <3>1
    <3> QED
      BY <2>2, <3>3, <3>4 DEF HeardOn, Command
  <2>3. CASE k = i /\ n \notin new
    <3>1. /\ n \in owned /\ streams[i] # NoStream /\ n \in streams[i].subs /\ Up(i)
      BY <1>5, <1>7, <2>3 DEF Up
    <3>2. HeardOn(i, n)
      BY <3>1 DEF Heard
    <3>3. ~Waiting(n) /\ IsSub(n) /\ n \in 1 .. Len(jobs)
      BY <3>1 DEF Written, IsSub
    <3>4. CASE \E l \in 1 .. Len(inbox[i]) : inbox[i][l] = Command("subscribe", n)
      <4>1. \E l \in 1 .. Len(inbox'[i]) : inbox'[i][l] = Command("subscribe", n)
        BY <1>11, <3>4
      <4> QED
        BY <2>3, <4>1 DEF HeardOn, Command
    <3>5. CASE /\ table[i][jobs[n].topic] = n
               /\ \A l \in 1 .. Len(inbox[i]) : IsSubscribe(inbox[i][l]) =>
                     TopicOf(inbox[i][l]) # jobs[n].topic
      <4>1. ASSUME NEW l \in 1 .. Len(inbox'[i]), IsSubscribe(inbox'[i][l]),
                   TopicOf(inbox'[i][l]) = jobs[n].topic
            PROVE  FALSE
        <5>1. CASE l \in 1 .. Len(inbox[i])
          BY <1>11, <3>5, <4>1, <5>1
        <5>2. CASE ~(l \in 1 .. Len(inbox[i]))
          <6>1. PICK m \in 1 .. Len(cs) : inbox'[i][l] = cs[m]
            BY <1>11, <5>2
          <6>2. PICK q \in Nat : q = cs[m].job
            BY <1>12
          <6>3. q \in 1 .. Len(jobs) /\ IsSub(q) /\ Waiting(q) /\ jobs[q].topic = jobs[n].topic
            BY <1>12, <4>1, <6>1, <6>2 DEF IsSub, IsSubscribe, TopicOf
          <6>4. q <= n
            BY <3>1, <6>3, LastOfTopic
          <6>5. n < q
            BY <1>17, <3>3, <6>3
          <6> QED
            BY <1>1, <3>3, <6>4, <6>5
        <5> QED
          BY <5>1, <5>2
      <4> QED
        BY <2>3, <3>5, <4>1 DEF HeardOn, IsSubscribe, TopicOf
    <3> QED
      BY <3>2, <3>4, <3>5 DEF HeardOn
  <2> QED
    BY <2>1, <2>2, <2>3
<1>22. Owners'
  BY DEF Owners, IsSub, Account
<1>23. Closed'
  <2> SUFFICES ASSUME NEW n \in 1 .. Len(jobs), IsSub(n), n \notin owned
               PROVE  n \in strays \/ Closing(n)' \/ (~Subscribed(n)' /\ ~Waiting(n)')
    BY <1>14 DEF Closed
  <2>1. n \in strays \/ Closing(n) \/ (~Subscribed(n) /\ ~Waiting(n))
    BY DEF Closed
  <2>2. CASE ~Subscribed(n) /\ ~Waiting(n)
    <3>1. ~Waiting(n)'
      BY <2>2
    <3>2. n \notin new
      BY <1>13, <2>2
    <3>3. ASSUME NEW k \in Paths, streams'[k] # NoStream, n \in streams'[k].subs PROVE FALSE
      <4>1. streams[k] # NoStream /\ n \in streams[k].subs
        BY <1>5, <1>7, <3>2, <3>3
      <4> QED
        BY <2>2, <4>1 DEF Subscribed
    <3> QED
      BY <3>1, <3>3 DEF Subscribed
  <2> QED
    BY <2>1, <2>2
<1> QED
  BY <1>7, <1>9, <1>10, <1>16, <1>18, <1>19, <1>20, <1>21, <1>22, <1>23

\* The node has taken the first command, c, which is not to close a subscription: it is the
\* youngest but those behind it.
Taken(c) ==
    /\ c \in Commands /\ Known(c) /\ TopicOf(c) \in Topics /\ Waiting(c.job)
    /\ requests' \in Seq(AnyCommands) /\ InLine(requests')
    /\ \A k \in 1 .. Len(requests') : \E l \in 1 .. Len(requests) : requests'[k] = requests[l]
    /\ \A n : Ahead(requests, n) <=> c.job = n \/ Ahead(requests', n)
    /\ \A n : Ahead(requests', n) => c.job < n
    /\ \A n : ToClose(requests, n) <=> ToClose(requests', n)
    /\ \A k \in Paths : \A l \in 1 .. Len(searching[k]) : searching[k][l].job < c.job

LEMMA TakenFacts ==
    ASSUME RunInv, requests # <<>>, requests' = Tail(requests), NEW c, c = Head(requests),
           c.kind # "close"
    PROVE  Taken(c)
<1> USE DEF RunInv
<1>1. requests \in Seq(AnyCommands) /\ InLine(requests) /\ jobs \in Seq(JobTypes)
  BY DEF RunTypeOK, RequestsInLine
<1>2. c = requests[1] /\ c \in AnyCommands /\ 1 \in 1 .. Len(requests)
  BY <1>1, TailElements
<1>3. c \in Commands
  BY <1>2 DEF Commands, AnyCommands
<1>4. Known(c) /\ c.job \in 1 .. Len(jobs)
  BY <1>2 DEF AllKnown, Known
<1>5. TopicOf(c) \in Topics
  BY <1>1, <1>4, JobsTyped DEF TopicOf
<1>6. Waiting(c.job)
  BY <1>2 DEF Waiting, Ahead
<1>7. /\ InLine(requests') /\ requests' \in Seq(AnyCommands)
      /\ \A n : Ahead(requests, n) <=> c.job = n \/ Ahead(requests', n)
      /\ \A n : ToClose(requests, n) <=> ToClose(requests', n)
      /\ \A n : Ahead(requests', n) => c.job < n
  BY <1>1, <1>2, TailRequests, TailElements
<1>8. \A k \in 1 .. Len(requests') : \E l \in 1 .. Len(requests) : requests'[k] = requests[l]
  BY <1>1, TailElements
<1>9. \A k \in Paths : \A l \in 1 .. Len(searching[k]) : searching[k][l].job < c.job
  BY <1>2 DEF RequestsInLine
<1> QED
  BY <1>3, <1>4, <1>5, <1>6, <1>7, <1>8, <1>9 DEF Taken

\* What is left in front of the node stays in line.
LEMMA TakenRest ==
    ASSUME RunInv, NEW c, Taken(c), jobs' = jobs
    PROVE  /\ \A k \in 1 .. Len(requests') : Known(requests[k])'
           /\ \A l \in 1 .. Len(requests') : requests'[l].kind # "close" =>
                 /\ c.job < requests'[l].job
                 /\ \A i \in Paths : \A k \in 1 .. Len(searching[i]) :
                       searching[i][k].job < requests'[l].job
           /\ \A n : Closing(n)' <=> Closing(n)
<1> USE DEF RunInv
<1>1. ASSUME NEW k \in 1 .. Len(requests') PROVE Known(requests[k])'
  <2>1. PICK l \in 1 .. Len(requests) : requests'[k] = requests[l]
    BY DEF Taken
  <2>2. Known(requests[l])
    BY DEF AllKnown
  <2> QED
    BY <2>1, <2>2 DEF Known
<1>2. ASSUME NEW l \in 1 .. Len(requests'), requests'[l].kind # "close"
      PROVE  /\ c.job < requests'[l].job
             /\ \A i \in Paths : \A k \in 1 .. Len(searching[i]) :
                   searching[i][k].job < requests'[l].job
  <2>1. Ahead(requests', requests'[l].job)
    BY <1>2 DEF Ahead
  <2>2. c.job < requests'[l].job
    BY <2>1 DEF Taken
  <2>3. PICK m \in 1 .. Len(requests) : requests'[l] = requests[m]
    BY DEF Taken
  <2> QED
    BY <1>2, <2>2, <2>3 DEF RequestsInLine
<1>3. \A n : Closing(n)' <=> Closing(n)
  BY DEF Taken, Closing
<1> QED
  BY <1>1, <1>2, <1>3

\* A command that waits for a path is of the topic that is searched for.
LEMMA SearchTopic ==
    ASSUME RunInv, NEW i \in Paths, NEW k \in 1 .. Len(searching[i])
    PROVE  /\ awaiting[i] # NoStream /\ TopicOf(searching[i][k]) \in Topics
           /\ SearchedFor(i, TopicOf(searching[i][k]))
<1>1. Searches /\ searching \in [Paths -> Seq(Commands)]
  BY DEF RunInv, RunTypeOK
<1>2. awaiting[i] # NoStream
  BY <1>1 DEF Searches
<1>3. PICK t \in Topics : SearchedFor(i, t)
  BY <1>1, <1>2 DEF Searches
<1>4. TopicOf(searching[i][k]) = t
  BY <1>3 DEF SearchedFor
<1> QED
  BY <1>2, <1>3, <1>4

\* The command waits for a path.
LEMMA ParkInv ==
    ASSUME RunInv, NEW c, Taken(c), NEW i \in Paths,
           searching' = [searching EXCEPT ![i] = Append(@, c)],
           awaiting' \in [Paths -> PathTypes \cup {NoStream}], Searches',
           UNCHANGED <<jobs, streams, inbox, table, owned, strays>>
    PROVE  RunInv'
<1> USE DEF RunInv
<1>1. searching \in [Paths -> Seq(Commands)] /\ c \in Commands /\ requests' \in Seq(AnyCommands)
      /\ jobs \in Seq(JobTypes)
  BY DEF RunTypeOK, Taken
<1>2. PICK s \in Seq(Commands) : s = searching[i]
  BY <1>1
<1>3. PICK r \in Seq(Commands) : r = Append(s, c)
  BY <1>1, AppendProperties
<1>4. /\ Len(s) \in Nat /\ Len(r) = Len(s) + 1 /\ r[Len(s) + 1] = c
      /\ \A k \in 1 .. Len(s) : r[k] = s[k]
  BY <1>1, <1>3, AppendProperties
<1>5. /\ searching' \in [Paths -> Seq(Commands)] /\ searching'[i] = r
      /\ \A k \in Paths : k # i => searching'[k] = searching[k]
  BY <1>1, <1>2, <1>3
<1>6. \A k \in 1 .. Len(r) : k \in 1 .. Len(s) \/ k = Len(s) + 1
  BY <1>4
<1>7. \A n : Among(r, n) <=> Among(s, n) \/ c.job = n
  <2>1. ASSUME NEW n, Among(r, n) PROVE Among(s, n) \/ c.job = n
    BY <1>4, <1>6, <2>1 DEF Among
  <2>2. ASSUME NEW n, Among(s, n) PROVE Among(r, n)
    <3>1. PICK k \in 1 .. Len(s) : s[k].job = n
      BY <2>2 DEF Among
    <3>2. k \in 1 .. Len(r) /\ r[k].job = n
      BY <1>4, <3>1
    <3> QED
      BY <3>2 DEF Among
  <2>3. Among(r, c.job)
    <3>1. Len(s) + 1 \in 1 .. Len(r)
      BY <1>4
    <3> QED
      BY <1>4, <3>1 DEF Among
  <2> QED
    BY <2>1, <2>2, <2>3
<1>8. \A n : Waiting(n)' <=> Waiting(n)
  <2>1. ASSUME NEW n, Waiting(n) PROVE Waiting(n)'
    <3>1. CASE c.job = n
      BY <1>5, <1>7, <3>1 DEF Waiting
    <3>2. CASE c.job # n /\ Ahead(requests, n)
      BY <3>2 DEF Waiting, Taken
    <3>3. CASE \E k \in Paths : Among(searching[k], n)
      BY <1>2, <1>5, <1>7, <3>3 DEF Waiting
    <3> QED
      BY <2>1, <3>1, <3>2, <3>3 DEF Waiting
  <2>2. ASSUME NEW n, Waiting(n)' PROVE Waiting(n)
    <3>1. CASE c.job = n
      BY <3>1 DEF Taken
    <3>2. CASE Ahead(requests', n)
      BY <3>2 DEF Waiting, Taken
    <3>3. CASE c.job # n /\ \E k \in Paths : Among(searching'[k], n)
      BY <1>2, <1>5, <1>7, <3>3 DEF Waiting
    <3> QED
      BY <2>2, <3>1, <3>2, <3>3 DEF Waiting
  <2> QED
    BY <2>1, <2>2
<1>9. \A n : (IsSub(n)' <=> IsSub(n)) /\ (Closing(n)' <=> Closing(n)) /\ (Subscribed(n)' <=> Subscribed(n))
  BY TakenRest DEF IsSub, Subscribed
<1>10. RunTypeOK'
  BY <1>1, <1>5 DEF RunTypeOK
<1>11. AllKnown'
  <2>1. ASSUME NEW j \in Paths, NEW k \in 1 .. Len(searching'[j]) PROVE Known(searching[j][k])'
    <3>1. CASE j # i
      BY <1>5, <3>1 DEF AllKnown, Known
    <3>2. CASE j = i /\ k \in 1 .. Len(s)
      BY <1>2, <1>4, <1>5, <3>2 DEF AllKnown, Known
    <3>3. CASE j = i /\ k = Len(s) + 1
      BY <1>4, <1>5, <3>3 DEF Taken, Known
    <3> QED
      BY <1>5, <1>6, <3>1, <3>2, <3>3
  <2>2. ASSUME NEW j \in Paths, NEW k \in 1 .. Len(inbox[j]) PROVE Known(inbox[j][k])'
    BY DEF AllKnown, Known
  <2> QED
    BY <2>1, <2>2, TakenRest DEF AllKnown
<1>12. RequestsInLine'
  <2>1. ASSUME NEW j \in Paths, NEW k \in 1 .. Len(searching'[j]), NEW l \in 1 .. Len(requests'),
               requests'[l].kind # "close"
        PROVE  searching'[j][k].job < requests'[l].job
    <3>1. CASE j # i
      BY <1>5, <2>1, <3>1, TakenRest
    <3>2. CASE j = i /\ k \in 1 .. Len(s)
      BY <1>2, <1>4, <1>5, <2>1, <3>2, TakenRest
    <3>3. CASE j = i /\ k = Len(s) + 1
      BY <1>4, <1>5, <2>1, <3>3, TakenRest
    <3> QED
      BY <1>5, <1>6, <3>1, <3>2, <3>3
  <2>2. ASSUME NEW j \in Paths PROVE Sorted(searching'[j])
    <3>1. CASE j # i
      BY <1>5, <3>1 DEF RequestsInLine
    <3>2. ASSUME NEW k \in 1 .. Len(r), NEW l \in 1 .. Len(r), k < l PROVE r[k].job < r[l].job
      <4>1. k \in 1 .. Len(s)
        BY <1>4, <3>2
      <4>2. CASE l \in 1 .. Len(s)
        BY <1>2, <1>4, <3>2, <4>1, <4>2 DEF RequestsInLine, Sorted
      <4>3. CASE l = Len(s) + 1
        BY <1>2, <1>4, <4>1, <4>3 DEF Taken
      <4> QED
        BY <1>6, <4>2, <4>3
    <3>3. CASE j = i
      BY <1>5, <3>2, <3>3 DEF Sorted
    <3> QED
      BY <3>1, <3>3
  <2>3. InLine(requests')
    BY DEF Taken
  <2> QED
    BY <2>1, <2>2, <2>3 DEF RequestsInLine
<1>13. Order' /\ Owners' /\ Closed'
  <2>1. Order'
    BY <1>8 DEF Order
  <2>2. Owners'
    BY DEF Owners, IsSub, Account
  <2>3. Closed'
    BY <1>8, <1>9 DEF Closed
  <2> QED
    BY <2>1, <2>2, <2>3
<1>14. Written'
  <2>1. ASSUME NEW j \in Paths, streams'[j] # NoStream, NEW n \in streams'[j].subs
        PROVE  IsSub(n)' /\ ~Waiting(n)'
    BY <1>8, <1>9, <2>1 DEF Written
  <2>2. ASSUME NEW j \in Paths, NEW k \in 1 .. Len(inbox[j]) PROVE ~Waiting(inbox[j][k].job)'
    <3>1. PICK n \in {inbox[j][k].job} : ~Waiting(n)
      BY DEF Written
    <3>2. ~Waiting(n)'
      BY <1>8, <3>1
    <3> QED
      BY <3>1, <3>2 DEF Waiting
  <2>3. ASSUME NEW j \in Paths, ~Up(j)' PROVE inbox'[j] = <<>>
    BY <2>3 DEF Written, Up
  <2> QED
    BY <2>1, <2>2, <2>3 DEF Written
<1>15. StreamsInLine'
  BY DEF StreamsInLine, InboxInLine, TopicOf
<1>16. Heard'
  BY DEF Heard, HeardOn, Up, TopicOf
<1> QED
  BY <1>10, <1>11, <1>12, <1>13, <1>14, <1>15, <1>16

\* The command is written to a stream at once: none of its topic waits for a path.
LEMMA WriteNowInv ==
    ASSUME RunInv, NEW c, Taken(c), NEW i \in Paths,
           NEW now \in [Paths -> StreamTypes \cup {NoStream}], now[i] # NoStream,
           \A k \in Paths : k # i => now[k] = streams[k],
           streams[i] # NoStream /\ now[i].subs = streams[i].subs /\ now[i].io = streams[i].io,
           now[i].topics = streams[i].topics \cup {TopicOf(c)},
           Write(now, i, <<c>>),
           \A k \in Paths : \A l \in 1 .. Len(searching[k]) : TopicOf(searching[k][l]) # TopicOf(c),
           UNCHANGED <<jobs, searching, awaiting, table, owned, strays>>
    PROVE  RunInv'
<1> USE DEF RunInv
<1>1. /\ c \in Commands /\ Known(c) /\ TopicOf(c) \in Topics /\ Waiting(c.job)
      /\ requests' \in Seq(AnyCommands) /\ c.job \in Nat
  BY DEF Taken, Commands
<1>2. PICK t \in Topics : t = TopicOf(c)
  BY <1>1
<1>3. PICK cs \in Seq(Commands) : cs = <<c>> /\ Len(cs) = 1 /\ cs[1] = c
  <2>1. <<c>> \in Seq(Commands) /\ Len(<<c>>) = 1 /\ <<c>>[1] = c
    BY <1>1
  <2> QED
    BY <2>1
<1>4. \A n : Among(cs, n) <=> n = c.job
  BY <1>3 DEF Among
<1>5. \A k \in Paths : \A n : Among(searching[k], n) => n # c.job
  <2>1. ASSUME NEW k \in Paths, Among(searching[k], c.job) PROVE FALSE
    <3>1. PICK l \in 1 .. Len(searching[k]) : searching[k][l].job = c.job
      BY <2>1 DEF Among
    <3>2. searching[k][l].job < c.job
      BY DEF Taken
    <3> QED
      BY <1>1, <3>1, <3>2
  <2> QED
    BY <2>1
<1>6. \A n : Ahead(requests', n) => n # c.job
  <2>1. ASSUME Ahead(requests', c.job) PROVE FALSE
    <3>1. c.job < c.job
      BY <2>1 DEF Taken
    <3> QED
      BY <1>1, <3>1
  <2> QED
    BY <2>1
<1>7. \A n : Waiting(n)' <=> Waiting(n) /\ ~Among(cs, n)
  <2>1. ASSUME NEW n, Waiting(n)' PROVE Waiting(n) /\ n # c.job
    BY <1>5, <1>6, <2>1 DEF Waiting, Taken
  <2>2. ASSUME NEW n, Waiting(n), n # c.job PROVE Waiting(n)'
    BY <2>2 DEF Waiting, Taken
  <2> QED
    BY <1>4, <2>1, <2>2
<1>8. ASSUME NEW n \in 1 .. Len(jobs), jobs[n].topic = t, Waiting(n)
      PROVE  Among(cs, n) \/ \A k \in 1 .. Len(cs) : cs[k].job < n
  <2>1. CASE \E k \in Paths : Among(searching[k], n)
    BY <1>2, <1>8, <2>1 DEF Among, TopicOf
  <2>2. CASE c.job = n
    BY <1>4, <2>2
  <2>3. CASE Ahead(requests', n)
    <3>1. c.job < n
      BY <2>3 DEF Taken
    <3> QED
      BY <1>3, <3>1
  <2> QED
    BY <1>8, <2>1, <2>2, <2>3 DEF Waiting, Taken
<1>9. \A k \in 1 .. Len(cs) : Known(cs[k]) /\ TopicOf(cs[k]) = t /\ Waiting(cs[k].job)
  BY <1>1, <1>2, <1>3
<1>10. Sorted(cs)
  BY <1>3 DEF Sorted
<1>11. \A n : Closing(n)' <=> Closing(n)
  BY TakenRest
<1>12. Write(now, i, cs)
  BY <1>3
<1>13. /\ streams' \in [Paths -> StreamTypes \cup {NoStream}]
       /\ inbox' \in [Paths -> Seq(Commands)]
       /\ \A k \in Paths : \A l \in 1 .. Len(inbox'[k]) : Known(inbox[k][l])'
       /\ \A k \in Paths : /\ streams'[k] = NoStream <=> now[k] = NoStream
                           /\ now[k] # NoStream => streams'[k].topics = now[k].topics
       /\ Order' /\ Written' /\ StreamsInLine' /\ Heard' /\ Owners' /\ Closed'
  BY <1>7, <1>8, <1>9, <1>10, <1>11, <1>12, WriteInv
<1>14. RunTypeOK'
  BY <1>1, <1>13 DEF RunTypeOK
<1>15. AllKnown'
  <2>1. ASSUME NEW k \in Paths, NEW l \in 1 .. Len(searching[k]) PROVE Known(searching[k][l])'
    BY DEF AllKnown, Known
  <2> QED
    BY <1>13, <2>1, TakenRest DEF AllKnown
<1>16. RequestsInLine'
  <2>1. InLine(requests')
    BY DEF Taken
  <2> QED
    BY <2>1, TakenRest DEF RequestsInLine
<1>17. Searches'
  <2>1. ASSUME NEW k \in Paths, NEW u \in Topics, awaiting[k] # NoStream, SearchedFor(k, u)
        PROVE  SearchedFor(k, u)'
    <3>1. streams[k] = NoStream /\ searching[k] # <<>>
      BY <2>1 DEF SearchedFor
    <3>2. k # i
      BY <3>1
    <3>3. streams'[k] = NoStream
      BY <1>13, <3>1, <3>2
    <3>4. 1 \in 1 .. Len(searching[k])
      <4>1. searching[k] \in Seq(Commands)
        BY DEF RunTypeOK
      <4> QED
        BY <3>1, <4>1
    <3>5. u # t
      BY <1>2, <2>1, <3>4 DEF SearchedFor
    <3>6. \A j \in Paths : ~Serves(j, u)'
      <4>1. ASSUME NEW j \in Paths, streams'[j] # NoStream, u \in streams'[j].topics PROVE FALSE
        <5>0. now[j] # NoStream /\ u \in now[j].topics
          BY <1>13, <4>1
        <5>1. streams[j] # NoStream /\ u \in streams[j].topics
          <6>1. CASE j = i
            BY <1>2, <3>5, <5>0, <6>1
          <6>2. CASE j # i
            BY <5>0, <6>2
          <6> QED
            BY <6>1, <6>2
        <5> QED
          BY <2>1, <5>1 DEF SearchedFor, Serves
      <4> QED
        BY <4>1 DEF Serves
    <3> QED
      BY <2>1, <3>3, <3>6 DEF SearchedFor, TopicOf
  <2> QED
    BY <2>1 DEF Searches
<1> QED
  BY <1>13, <1>14, <1>15, <1>16, <1>17

\* The command joins the others that wait for the path of their topic.
LEMMA JoinInv ==
    ASSUME RunInv, NEW c, Taken(c), NEW i \in Paths,
           \E k \in 1 .. Len(searching[i]) : TopicOf(searching[i][k]) = TopicOf(c),
           searching' = [searching EXCEPT ![i] = Append(@, c)],
           UNCHANGED <<jobs, streams, inbox, table, awaiting, owned, strays>>
    PROVE  RunInv'
<1>1. /\ searching \in [Paths -> Seq(Commands)] /\ c \in Commands /\ Searches
      /\ awaiting \in [Paths -> PathTypes \cup {NoStream}]
  BY DEF RunInv, RunTypeOK, Taken
<1>2. PICK t \in Topics : t = TopicOf(c)
  BY DEF Taken
<1>3. awaiting[i] # NoStream /\ SearchedFor(i, t)
  BY <1>2, SearchTopic
<1>4. PICK s \in Seq(Commands) : s = searching[i]
  BY <1>1
<1>5. PICK r \in Seq(Commands) : r = Append(s, c)
  BY <1>1, AppendProperties
<1>6. /\ Len(s) \in Nat /\ Len(r) = Len(s) + 1 /\ r[Len(s) + 1] = c
      /\ \A k \in 1 .. Len(s) : r[k] = s[k]
  BY <1>1, <1>5, AppendProperties
<1>7. searching'[i] = r /\ \A k \in Paths : k # i => searching'[k] = searching[k]
  BY <1>1, <1>4, <1>5
<1>8. \A k \in 1 .. Len(r) : k \in 1 .. Len(s) \/ k = Len(s) + 1
  BY <1>6
<1>9. r # <<>> /\ \A k \in 1 .. Len(r) : TopicOf(r[k]) = t
  <2>1. r # <<>>
    BY <1>6
  <2>2. \A k \in 1 .. Len(s) : TopicOf(s[k]) = t
    BY <1>3, <1>4 DEF SearchedFor
  <2> QED
    BY <1>2, <1>6, <1>8, <2>1, <2>2
<1>10. SearchedFor(i, t)'
  BY <1>3, <1>7, <1>9 DEF SearchedFor, TopicOf, Serves
<1>11. ASSUME NEW k \in Paths, k # i, NEW u \in Topics, SearchedFor(k, u) PROVE SearchedFor(k, u)'
  BY <1>7, <1>11 DEF SearchedFor, TopicOf, Serves
<1>12. Searches'
  BY <1>1, <1>3, <1>7, <1>10, <1>11 DEF Searches
<1> QED
  BY <1>1, <1>12, ParkInv

\* A path is opened for the topic of the command: it is the only one, and no stream has it.
LEMMA NewPathInv ==
    ASSUME RunInv, NEW c, Taken(c), NEW i \in Paths, Fresh(i), NEW pick \in Group[TopicOf(c)],
           \A k \in Paths : \A l \in 1 .. Len(searching[k]) : TopicOf(searching[k][l]) # TopicOf(c),
           \A k \in Paths : ~Serves(k, TopicOf(c)),
           awaiting' = [awaiting EXCEPT ![i] = [peer |-> pick, topics |-> {TopicOf(c)}]],
           searching' = [searching EXCEPT ![i] = <<c>>],
           UNCHANGED <<jobs, streams, inbox, table, owned, strays>>
    PROVE  RunInv'
<1>1. /\ searching \in [Paths -> Seq(Commands)] /\ c \in Commands /\ Searches
      /\ awaiting \in [Paths -> PathTypes \cup {NoStream}]
  BY DEF RunInv, RunTypeOK, Taken
<1>2. PICK t \in Topics : t = TopicOf(c)
  BY DEF Taken
<1>3. PICK a \in PathTypes : a = [peer |-> pick, topics |-> {t}] /\ a.topics = {t}
  <2>1. pick \in Peers
    BY <1>2, ClientAssumption
  <2>2. [peer |-> pick, topics |-> {t}] \in PathTypes /\ [peer |-> pick, topics |-> {t}].topics = {t}
    BY <2>1 DEF PathTypes
  <2> QED
    BY <2>2
<1>4. /\ awaiting' \in [Paths -> PathTypes \cup {NoStream}] /\ awaiting'[i] = a
      /\ \A k \in Paths : k # i => awaiting'[k] = awaiting[k]
  BY <1>1, <1>2, <1>3
<1>5. a # NoStream
  BY NotNoStream
<1>6. searching[i] = <<>>
  BY <1>1 DEF Searches, Fresh
<1>7. <<c>> = Append(searching[i], c)
  BY <1>6
<1>8. searching' = [searching EXCEPT ![i] = Append(@, c)]
  BY <1>7
<1>9. /\ searching'[i] = <<c>> /\ Len(<<c>>) = 1 /\ <<c>>[1] = c
      /\ \A k \in Paths : k # i => searching'[k] = searching[k]
  BY <1>1
<1>10. ASSUME NEW k \in Paths, awaiting[k] # NoStream, NEW u \in Topics, SearchedFor(k, u)
       PROVE  u # t /\ awaiting[k].topics = {u} /\ k # i
  <2>1. searching[k] # <<>> /\ searching[k] \in Seq(Commands)
    BY <1>1, <1>10 DEF SearchedFor
  <2>2. 1 \in 1 .. Len(searching[k])
    BY <2>1
  <2>3. TopicOf(searching[k][1]) = u
    BY <1>10, <2>2 DEF SearchedFor
  <2>4. u # t
    BY <1>2, <2>2, <2>3
  <2> QED
    BY <1>10, <2>4 DEF SearchedFor, Fresh
<1>11. ASSUME NEW k \in Paths, awaiting[k] # NoStream, awaiting[k].topics = {t} PROVE FALSE
  <2>1. PICK u \in Topics : SearchedFor(k, u)
    BY <1>1, <1>11 DEF Searches
  <2>2. u # t /\ awaiting[k].topics = {u}
    BY <1>10, <1>11, <2>1
  <2> QED
    BY <1>11, <2>2
<1>12. SearchedFor(i, t)'
  <2>1. streams'[i] = NoStream
    BY DEF Fresh
  <2>2. \A k \in 1 .. Len(searching'[i]) : TopicOf(searching[i][k])' = t
    BY <1>2, <1>9 DEF TopicOf
  <2>3. \A k \in Paths : ~Serves(k, t)'
    BY <1>2 DEF Serves
  <2>4. \A k \in Paths : awaiting'[k] # NoStream /\ awaiting'[k].topics = {t} => k = i
    BY <1>4, <1>11
  <2>5. searching'[i] # <<>>
    BY <1>9
  <2> QED
    BY <1>3, <1>4, <2>1, <2>2, <2>3, <2>4, <2>5 DEF SearchedFor
<1>13. ASSUME NEW k \in Paths, awaiting[k] # NoStream, NEW u \in Topics, SearchedFor(k, u)
       PROVE  SearchedFor(k, u)' /\ k # i
  <2>1. u # t /\ k # i
    BY <1>10, <1>13
  <2>2. awaiting'[i].topics # {u}
    BY <1>3, <1>4, <2>1
  <2>3. \A j \in Paths : awaiting'[j] # NoStream /\ awaiting'[j].topics = {u} => j = k
    BY <1>4, <1>13, <2>2 DEF SearchedFor
  <2>4. \A j \in Paths : ~Serves(j, u)'
    BY <1>13 DEF SearchedFor, Serves
  <2> QED
    BY <1>4, <1>9, <1>13, <2>1, <2>3, <2>4 DEF SearchedFor, TopicOf
<1>14. Searches'
  BY <1>1, <1>4, <1>5, <1>9, <1>12, <1>13 DEF Searches
<1> QED
  BY <1>4, <1>8, <1>14, ParkInv

LEMMA HandleJobInv == ASSUME RunInv, HandleJob PROVE RunInv'
<1>1. /\ UNCHANGED <<jobs, table, owned, strays>>
      /\ requests # <<>> /\ Head(requests).kind # "close" /\ requests' = Tail(requests)
  BY DEF HandleJob
<1>2. PICK c \in {Head(requests)} : TRUE
  OBVIOUS
<1>3. Taken(c)
  BY <1>1, <1>2, TakenFacts
<1>4. PICK t \in Topics : t = TopicOf(c)
  BY <1>3 DEF Taken
<1>5. PICK found \in {{i \in Paths : Serves(i, t)}} : TRUE
  OBVIOUS
<1>6. \/ \E i \in found : Write(streams, i, <<c>>) /\ UNCHANGED <<searching, awaiting>>
      \/ found = {} /\ Search(c)
  BY <1>2, <1>4, <1>5 DEF HandleJob
<1>7. /\ streams \in [Paths -> StreamTypes \cup {NoStream}] /\ NoStream \notin StreamTypes
      /\ searching \in [Paths -> Seq(Commands)] /\ Searches
  BY ClientAssumption DEF RunInv, RunTypeOK
<1>8. CASE \E i \in found : Write(streams, i, <<c>>) /\ UNCHANGED <<searching, awaiting>>
  <2>1. PICK i \in Paths : Serves(i, t) /\ Write(streams, i, <<c>>) /\ UNCHANGED <<searching, awaiting>>
    BY <1>5, <1>8
  <2>2. streams[i] # NoStream /\ streams[i].topics = streams[i].topics \cup {t}
    BY <2>1 DEF Serves
  <2>3. ASSUME NEW k \in Paths, NEW l \in 1 .. Len(searching[k]), TopicOf(searching[k][l]) = t
        PROVE  FALSE
    <3>1. SearchedFor(k, t)
      BY <2>3, SearchTopic
    <3> QED
      BY <2>1, <3>1 DEF SearchedFor
  <2>4. PICK now \in [Paths -> StreamTypes \cup {NoStream}] : now = streams
    BY <1>7
  <2>5. Write(now, i, <<c>>)
    BY <2>1, <2>4 DEF Write
  <2> QED
    BY <1>1, <1>3, <1>4, <2>1, <2>2, <2>3, <2>4, <2>5, WriteNowInv
<1>9. CASE found = {} /\ Search(c)
  <2>1. PICK under \in {{i \in Paths : \E d \in Range(searching[i]) : TopicOf(d) = t}} : TRUE
    OBVIOUS
  <2>2. PICK near \in {{i \in Paths : streams[i] # NoStream /\ streams[i].peer \in Group[t]}} : TRUE
    OBVIOUS
  <2>3. \A i \in Paths : i \in under <=> \E k \in 1 .. Len(searching[i]) : TopicOf(searching[i][k]) = t
    <3>1. ASSUME NEW i \in Paths
          PROVE  i \in under <=> \E k \in 1 .. Len(searching[i]) : TopicOf(searching[i][k]) = t
      <4>1. DOMAIN searching[i] = 1 .. Len(searching[i])
        BY <1>7
      <4> QED
        BY <2>1, <4>1 DEF Range
    <3> QED
      BY <3>1
  <2>4. \A k \in Paths : ~Serves(k, t)
    BY <1>5, <1>9
  <2>5. CASE /\ under # {}
             /\ \E i \in under : searching' = [searching EXCEPT ![i] = Append(@, c)]
             /\ UNCHANGED <<streams, pending, inbox, awaiting>>
    <3>1. PICK i \in Paths : i \in under /\ searching' = [searching EXCEPT ![i] = Append(@, c)]
      BY <2>1, <2>5
    <3>2. \E k \in 1 .. Len(searching[i]) : TopicOf(searching[i][k]) = TopicOf(c)
      BY <1>4, <2>3, <3>1
    <3> QED
      BY <1>1, <1>3, <2>5, <3>1, <3>2, JoinInv
  <2>6. CASE /\ under = {} /\ near # {}
             /\ \E i \in near : Write([streams EXCEPT ![i].topics = @ \cup {t}], i, <<c>>)
             /\ UNCHANGED <<searching, awaiting>>
    <3>1. PICK i \in Paths : /\ streams[i] # NoStream
                             /\ Write([streams EXCEPT ![i].topics = @ \cup {t}], i, <<c>>)
      BY <2>2, <2>6
    <3> DEFINE s == [streams[i] EXCEPT !.topics = @ \cup {t}]
    <3>2. /\ s \in StreamTypes /\ s.topics = streams[i].topics \cup {t}
          /\ s.subs = streams[i].subs /\ s.io = streams[i].io
      BY <1>7, <3>1 DEF StreamTypes
    <3>3. [streams EXCEPT ![i].topics = @ \cup {t}] = [streams EXCEPT ![i] = s]
      OBVIOUS
    <3> HIDE DEF s
    <3>4. [streams EXCEPT ![i] = s] \in [Paths -> StreamTypes \cup {NoStream}]
      BY <1>7, <3>2
    <3>5. PICK now \in [Paths -> StreamTypes \cup {NoStream}] : now = [streams EXCEPT ![i] = s]
      BY <3>4
    <3>6. now[i] = s /\ s # NoStream /\ \A k \in Paths : k # i => now[k] = streams[k]
      BY <1>7, <3>2, <3>5
    <3>7. Write(now, i, <<c>>)
      BY <3>1, <3>3, <3>5 DEF Write
    <3>8. \A k \in Paths : \A l \in 1 .. Len(searching[k]) : TopicOf(searching[k][l]) # TopicOf(c)
      BY <1>4, <2>3, <2>6
    <3> QED
      BY <1>1, <1>3, <1>4, <2>6, <3>1, <3>2, <3>6, <3>7, <3>8, WriteNowInv
  <2>7. CASE /\ under = {} /\ near = {}
             /\ \E i \in Paths, pick \in Group[t] :
                   /\ Fresh(i) /\ \A j \in 1 .. i - 1 : ~Fresh(j)
                   /\ awaiting' = [awaiting EXCEPT ![i] = [peer |-> pick, topics |-> {t}]]
                   /\ searching' = [searching EXCEPT ![i] = <<c>>]
             /\ UNCHANGED <<streams, pending, inbox>>
    <3>1. PICK i \in Paths, pick \in Group[t] :
                   /\ Fresh(i)
                   /\ awaiting' = [awaiting EXCEPT ![i] = [peer |-> pick, topics |-> {t}]]
                   /\ searching' = [searching EXCEPT ![i] = <<c>>]
      BY <2>7
    <3>2. \A k \in Paths : \A l \in 1 .. Len(searching[k]) : TopicOf(searching[k][l]) # TopicOf(c)
      BY <1>4, <2>3, <2>7
    <3> QED
      BY <1>1, <1>3, <1>4, <2>4, <2>7, <3>1, <3>2, NewPathInv
  <2> QED
    BY <1>4, <1>9, <2>1, <2>2, <2>5, <2>6, <2>7 DEF Search
<1> QED
  BY <1>6, <1>8, <1>9

LEMMA PathOpenedInv == ASSUME RunInv, NEW i \in Paths, PathOpened(i) PROVE RunInv'
<1> USE DEF RunInv
<1>1. /\ UNCHANGED <<jobs, requests, table, owned, strays>> /\ awaiting[i] # NoStream
      /\ awaiting' = [awaiting EXCEPT ![i] = NoStream]
      /\ searching' = [searching EXCEPT ![i] = <<>>]
  BY DEF PathOpened
<1>2. /\ streams \in [Paths -> StreamTypes \cup {NoStream}] /\ searching \in [Paths -> Seq(Commands)]
      /\ awaiting \in [Paths -> PathTypes \cup {NoStream}]
  BY DEF RunTypeOK
<1>3. PICK t \in Topics : SearchedFor(i, t)
  BY <1>1 DEF Searches
<1>4. awaiting[i] \in PathTypes /\ awaiting[i].topics = {t} /\ streams[i] = NoStream
  BY <1>1, <1>2, <1>3 DEF SearchedFor
<1>5. PICK s \in StreamTypes : /\ s = Stream(awaiting[i].peer, awaiting[i].topics)
                               /\ s # NoStream /\ s.topics = {t} /\ s.subs = {} /\ s.io = "open"
  <2>1. PICK p \in PathTypes : p = awaiting[i]
    BY <1>4
  <2>2. /\ Stream(p.peer, p.topics) \in StreamTypes /\ Stream(p.peer, p.topics) # NoStream
        /\ Stream(p.peer, p.topics).topics = p.topics
        /\ Stream(p.peer, p.topics).subs = {}
        /\ Stream(p.peer, p.topics).io = "open"
    BY NotNoStream
  <2> QED
    BY <1>4, <2>1, <2>2
<1>6. [streams EXCEPT ![i] = s] \in [Paths -> StreamTypes \cup {NoStream}]
  BY <1>2
<1>7. PICK now \in [Paths -> StreamTypes \cup {NoStream}] : now = [streams EXCEPT ![i] = s]
  BY <1>6
<1>8. now[i] = s /\ \A k \in Paths : k # i => now[k] = streams[k]
  BY <1>2, <1>7
<1>9. PICK cs \in Seq(Commands) : cs = searching[i]
  BY <1>2
<1>10. Write(now, i, cs)
  <2>1. PICK j \in Paths : /\ now[j] # NoStream /\ awaiting[i].topics \subseteq now[j].topics
                           /\ Write(now, j, cs)
    <3>1. \E j \in {k \in Paths : now[k] # NoStream /\ awaiting[i].topics \subseteq now[k].topics} :
             Write(now, j, cs)
      BY <1>5, <1>7, <1>9 DEF PathOpened, Write
    <3> QED
      BY <3>1
  <2>2. j = i
    BY <1>3, <1>4, <1>8, <2>1 DEF SearchedFor, Serves
  <2> QED
    BY <2>1, <2>2
<1>11. /\ searching' \in [Paths -> Seq(Commands)] /\ searching'[i] = <<>> /\ Len(<<>>) = 0
       /\ awaiting' \in [Paths -> PathTypes \cup {NoStream}] /\ awaiting'[i] = NoStream
       /\ \A k \in Paths : k # i => searching'[k] = searching[k] /\ awaiting'[k] = awaiting[k]
  BY <1>1, <1>2
<1>12. \A k \in 1 .. Len(cs) : /\ cs[k] \in Commands /\ Known(cs[k]) /\ TopicOf(cs[k]) = t
                               /\ Waiting(cs[k].job)
  <2>1. ASSUME NEW k \in 1 .. Len(cs)
        PROVE  cs[k] \in Commands /\ Known(cs[k]) /\ TopicOf(cs[k]) = t /\ Waiting(cs[k].job)
    <3>1. cs[k] \in Commands
      OBVIOUS
    <3>2. Known(cs[k]) /\ TopicOf(cs[k]) = t
      BY <1>3, <1>9 DEF AllKnown, SearchedFor
    <3>3. Among(searching[i], cs[k].job)
      BY <1>9 DEF Among
    <3> QED
      BY <3>1, <3>2, <3>3 DEF Waiting
  <2> QED
    BY <2>1
\* Nothing else of the topic waits for a path.
<1>13. ASSUME NEW k \in Paths, k # i, NEW l \in 1 .. Len(searching[k]) PROVE TopicOf(searching[k][l]) # t
  <2>1. ASSUME TopicOf(searching[k][l]) = t PROVE FALSE
    <3>1. SearchedFor(k, t) /\ awaiting[k] # NoStream
      BY <2>1, SearchTopic
    <3> QED
      BY <1>3, <1>13, <3>1 DEF SearchedFor
  <2> QED
    BY <2>1
<1>14. ASSUME NEW n, Ahead(requests, n) PROVE \A k \in 1 .. Len(cs) : cs[k].job < n
  BY <1>9, <1>14 DEF RequestsInLine, Ahead
<1>15. \A n : Waiting(n)' <=> Waiting(n) /\ ~Among(cs, n)
  <2>1. ASSUME NEW n, Waiting(n)' PROVE Waiting(n) /\ ~Among(cs, n)
    <3>1. CASE Ahead(requests, n)
      <4>1. ASSUME Among(cs, n) PROVE FALSE
        <5>1. PICK k \in 1 .. Len(cs) : cs[k].job = n
          BY <4>1 DEF Among
        <5>2. n < n /\ n \in Nat
          BY <1>12, <1>14, <3>1, <5>1 DEF Commands
        <5> QED
          BY <5>2
      <4> QED
        BY <3>1, <4>1 DEF Waiting
    <3>2. CASE \E k \in Paths : Among(searching'[k], n)
      <4>1. PICK k \in Paths : Among(searching'[k], n)
        BY <3>2
      <4>2. k # i
        BY <1>11, <4>1 DEF Among
      <4>3. Among(searching[k], n)
        BY <1>11, <4>1, <4>2
      <4>4. ASSUME Among(cs, n) PROVE FALSE
        <5>1. jobs[n].topic = t
          BY <1>12, <4>4 DEF Among, TopicOf
        <5> QED
          BY <1>13, <4>2, <4>3, <5>1 DEF Among, TopicOf
      <4> QED
        BY <4>3, <4>4 DEF Waiting
    <3> QED
      BY <1>1, <2>1, <3>1, <3>2 DEF Waiting
  <2>2. ASSUME NEW n, Waiting(n), ~Among(cs, n) PROVE Waiting(n)'
    <3>1. CASE Ahead(requests, n)
      BY <1>1, <3>1 DEF Waiting
    <3>2. CASE \E k \in Paths : Among(searching[k], n)
      <4>1. PICK k \in Paths : k # i /\ Among(searching[k], n)
        BY <1>9, <2>2, <3>2
      <4>2. Among(searching'[k], n)
        BY <1>11, <4>1
      <4> QED
        BY <4>2 DEF Waiting
    <3> QED
      BY <2>2, <3>1, <3>2 DEF Waiting
  <2> QED
    BY <2>1, <2>2
<1>16. ASSUME NEW n \in 1 .. Len(jobs), jobs[n].topic = t, Waiting(n)
       PROVE  Among(cs, n) \/ \A k \in 1 .. Len(cs) : cs[k].job < n
  <2>1. CASE Ahead(requests, n)
    BY <1>14, <2>1
  <2>2. CASE \E k \in Paths : Among(searching[k], n)
    BY <1>9, <1>13, <1>16, <2>2 DEF Among, TopicOf
  <2> QED
    BY <1>16, <2>1, <2>2 DEF Waiting
<1>17. Sorted(cs)
  BY <1>9 DEF RequestsInLine
<1>18. \A n : Closing(n)' <=> Closing(n)
  BY <1>1 DEF Closing
<1>19. /\ streams' \in [Paths -> StreamTypes \cup {NoStream}]
       /\ inbox' \in [Paths -> Seq(Commands)]
       /\ \A k \in Paths : \A l \in 1 .. Len(inbox'[k]) : Known(inbox[k][l])'
       /\ \A k \in Paths : /\ streams'[k] = NoStream <=> now[k] = NoStream
                           /\ now[k] # NoStream => streams'[k].topics = now[k].topics
       /\ Order' /\ Written' /\ StreamsInLine' /\ Heard' /\ Owners' /\ Closed'
  <2>1. streams[i] = NoStream /\ now[i].subs = {} /\ now[i].io = "open" /\ now[i] # NoStream
    BY <1>4, <1>5, <1>8
  <2>2. \A k \in 1 .. Len(cs) : Known(cs[k]) /\ TopicOf(cs[k]) = t /\ Waiting(cs[k].job)
    BY <1>12
  <2> QED
    BY <1>1, <1>8, <1>10, <1>15, <1>16, <1>17, <1>18, <2>1, <2>2, WriteInv
<1>20. RunTypeOK'
  BY <1>1, <1>11, <1>19 DEF RunTypeOK
<1>21. \A k \in Paths : \A l \in 1 .. Len(searching'[k]) : k # i /\ searching'[k] = searching[k]
  BY <1>11
<1>22. AllKnown'
  <2>1. ASSUME NEW k \in Paths, NEW l \in 1 .. Len(searching'[k]) PROVE Known(searching[k][l])'
    <3>1. searching'[k] = searching[k]
      BY <1>21
    <3>2. PICK d \in {searching[k][l]} : Known(d)
      BY <3>1 DEF AllKnown
    <3>3. Known(d)'
      BY <1>1, <3>2 DEF Known
    <3> QED
      BY <3>1, <3>2, <3>3 DEF Known
  <2>2. ASSUME NEW k \in 1 .. Len(requests) PROVE Known(requests[k])'
    <3>1. Known(requests[k])
      BY DEF AllKnown
    <3> QED
      BY <1>1, <3>1 DEF Known
  <2>3. \A k \in Paths : \A l \in 1 .. Len(inbox'[k]) : Known(inbox[k][l])'
    BY <1>19
  <2>4. \A k \in 1 .. Len(requests') : Known(requests[k])'
    BY <1>1, <2>2
  <2> QED
    BY <2>1, <2>3, <2>4 DEF AllKnown
<1>23. RequestsInLine'
  <2>1. ASSUME NEW k \in Paths PROVE Sorted(searching'[k])
    <3>1. CASE Len(searching'[k]) = 0
      BY <3>1 DEF Sorted
    <3>2. CASE Len(searching'[k]) # 0
      <4>1. searching'[k] = searching[k]
        BY <1>11, <3>2
      <4>2. Sorted(searching[k])
        BY DEF RequestsInLine
      <4> QED
        BY <4>1, <4>2
    <3> QED
      BY <3>1, <3>2
  <2>2. ASSUME NEW j \in Paths, NEW k \in 1 .. Len(searching'[j]), NEW l \in 1 .. Len(requests),
               requests[l].kind # "close"
        PROVE  searching'[j][k].job < requests[l].job
    BY <1>21, <2>2 DEF RequestsInLine
  <2> QED
    BY <1>1, <2>1, <2>2 DEF RequestsInLine
<1>24. Searches'
  <2>1. ASSUME NEW k \in Paths, k # i, awaiting[k] # NoStream, NEW u \in Topics, SearchedFor(k, u)
        PROVE  SearchedFor(k, u)'
    <3>1. u # t
      BY <1>3, <2>1 DEF SearchedFor
    <3>2. streams'[k] = NoStream
      BY <1>8, <1>19, <2>1 DEF SearchedFor
    <3>3. \A j \in Paths : ~Serves(j, u)'
      <4>1. ASSUME NEW j \in Paths, streams'[j] # NoStream, u \in streams'[j].topics PROVE FALSE
        <5>1. CASE j = i
          BY <1>5, <1>8, <1>19, <3>1, <4>1, <5>1
        <5>2. CASE j # i
          BY <1>8, <1>19, <2>1, <4>1, <5>2 DEF SearchedFor, Serves
        <5> QED
          BY <5>1, <5>2
      <4> QED
        BY <4>1 DEF Serves
    <3>4. \A j \in Paths : awaiting'[j] # NoStream /\ awaiting'[j].topics = {u} => j = k
      BY <1>11, <2>1 DEF SearchedFor
    <3>5. /\ awaiting'[k].topics = {u} /\ searching'[k] # <<>>
          /\ \A l \in 1 .. Len(searching'[k]) : TopicOf(searching[k][l])' = u
      BY <1>1, <1>11, <2>1 DEF SearchedFor, TopicOf
    <3> QED
      BY <3>2, <3>3, <3>4, <3>5 DEF SearchedFor
  <2> QED
    BY <1>11, <2>1 DEF Searches
<1> QED
  BY <1>19, <1>20, <1>22, <1>23, <1>24

\* What the task that made the node hands to it first.
LEMMA StartInv == ASSUME Quiet, Booting, Start PROVE RunInv'
<1>1. /\ phase = "starting" /\ UNCHANGED <<awaiting, streams, searching, inbox, table, strays>>
      /\ jobs' = <<[kind |-> "subscribe", topic |-> Me], [kind |-> "request", topic |-> Me]>>
      /\ requests' = <<Command("subscribe", 1), Command("request", 2)>>
      /\ owned' = {Account}
  BY DEF Start
<1>2. NoPaths /\ Placed
  BY <1>1 DEF Booting
<1>3. Me \in Topics
  BY ClientAssumption
<1>4. /\ jobs' \in Seq(JobTypes) /\ Len(jobs') = 2
      /\ jobs'[1].kind = "subscribe" /\ jobs'[1].topic = Me
      /\ jobs'[2].kind = "request" /\ jobs'[2].topic = Me
  <2>1. [kind |-> "subscribe", topic |-> Me] \in JobTypes /\ [kind |-> "request", topic |-> Me] \in JobTypes
    BY <1>3 DEF JobTypes
  <2> QED
    BY <1>1, <2>1
<1>5. /\ requests' \in Seq(AnyCommands) /\ Len(requests') = 2
      /\ requests'[1].kind = "subscribe" /\ requests'[1].job = 1
      /\ requests'[2].kind = "request" /\ requests'[2].job = 2
  <2>1. Command("subscribe", 1) \in AnyCommands /\ Command("request", 2) \in AnyCommands
    BY DEF AnyCommands, Command
  <2>2. requests' \in Seq(AnyCommands) /\ Len(requests') = 2
    BY <1>1, <2>1
  <2> QED
    BY <1>1, <2>2 DEF Command
<1>6. \A i \in Paths : searching'[i] = <<>> /\ inbox'[i] = <<>> /\ awaiting'[i] = NoStream
  BY <1>1, <1>2 DEF Quiet, NoPaths
<1>7. \A i \in Paths : Len(searching'[i]) = 0 /\ Len(inbox'[i]) = 0
  BY <1>6
<1>8. \A i \in Paths : streams'[i] # NoStream => streams'[i].subs = {}
  BY <1>1, <1>2 DEF Placed
<1>9. \A n : n \in 1 .. 2 <=> n = 1 \/ n = 2
  OBVIOUS
<1>10. RunTypeOK'
  <2>1. searching' \in [Paths -> Seq(Commands)] /\ inbox' \in [Paths -> Seq(Commands)]
    BY <1>1 DEF Quiet
  <2>2. table' \in [Paths -> [Topics -> Nat]]
    BY <1>1 DEF Quiet
  <2> QED
    BY <1>1, <1>4, <1>5, <2>1, <2>2 DEF RunTypeOK, Booting
<1>11. AllKnown'
  <2>1. Known(requests[1])' /\ Known(requests[2])'
    BY <1>4, <1>5, <1>9 DEF Known
  <2>2. \A k \in 1 .. Len(requests') : Known(requests[k])'
    BY <1>5, <1>9, <2>1
  <2> QED
    BY <1>7, <2>2 DEF AllKnown
<1>12. RequestsInLine'
  <2>1. InLine(requests')
    BY <1>5, <1>9 DEF InLine
  <2>2. \A i \in Paths : Sorted(searching'[i])
    BY <1>7 DEF Sorted
  <2> QED
    BY <1>7, <2>1, <2>2 DEF RequestsInLine
<1>13. Searches'
  BY <1>6 DEF Searches
<1>14. Order'
  <2>1. \A n \in 1 .. Len(jobs') : Waiting(n)'
    BY <1>4, <1>5, <1>9 DEF Waiting, Ahead
  <2> QED
    BY <2>1 DEF Order
<1>15. Written'
  BY <1>6, <1>7, <1>8 DEF Written
<1>16. StreamsInLine'
  BY <1>7 DEF StreamsInLine, InboxInLine
<1>17. Heard'
  BY <1>8 DEF Heard, Up
<1>18. \A n : IsSub(n)' <=> n = 1
  BY <1>4, <1>9 DEF IsSub
<1>19. Owners'
  BY <1>1, <1>4, <1>18 DEF Owners, Account
<1>20. Closed'
  BY <1>1, <1>18 DEF Closed, Account
<1> QED
  BY <1>10, <1>11, <1>12, <1>13, <1>14, <1>15, <1>16, <1>17, <1>19, <1>20 DEF RunInv

LEMMA NodeStepInv == ASSUME NodeInv, BootInv, Next PROVE NodeInv'
<1>1. CASE Boot
  <2>1. phase \in BootPhases /\ phase' # "running" /\ UNCHANGED nodeVars
    <3>1. UNCHANGED nodeVars /\ BootNext
      BY <1>1 DEF Boot
    <3>2. ASSUME NEW v \in SUBSET Chats, OpenChats(v) PROVE phase' # "running"
      <4>1. \E o \in Orders(v) : \E set \in {Picked(o, v)} :
               phase' = IF UNION Range(set) # v THEN "panicked"
                        ELSE IF {i \in DOMAIN o : set[i] # {}} = {} THEN "starting" ELSE "chats"
        BY <3>2 DEF OpenChats
      <4> QED
        BY <4>1
    <3>3. CASE VaultFetched \/ ProfileCreated
      <4>1. \/ phase' = "create" \/ \E v \in Vaults : OpenChats(v)
            \/ OpenChats({})
        BY <3>3 DEF VaultFetched, ProfileCreated
      <4>2. phase \in BootPhases
        BY <3>3 DEF VaultFetched, ProfileCreated, BootPhases
      <4>3. {} \in SUBSET Chats /\ \A v \in Vaults : v \in SUBSET Chats
        BY ClientAssumption
      <4> QED
        BY <3>1, <3>2, <4>1, <4>2, <4>3
    <3>4. CASE \E p \in Peers : GotKey(p)
      <4>1. phase = "keys" /\ phase' \in {"keys", "failed", "profile"}
        BY <3>4 DEF GotKey
      <4> QED
        BY <3>1, <4>1 DEF BootPhases
    <3>5. CASE \E i \in Paths : ChatPathOpened(i)
      <4>1. phase = "chats" /\ phase' \in {"starting", "chats"}
        BY <3>5 DEF ChatPathOpened
      <4> QED
        BY <3>1, <4>1 DEF BootPhases
    <3>6. CASE ProfilePathOpened \/ BootFails
      <4>1. phase \in {"profile", "create", "chats"} /\ phase' \in {"vault", "failed"}
        BY <3>6 DEF ProfilePathOpened, BootFails
      <4> QED
        BY <3>1, <4>1 DEF BootPhases
    <3> QED
      BY <3>1, <3>3, <3>4, <3>5, <3>6 DEF BootNext
  <2> QED
    BY <2>1 DEF NodeInv, Quiet, nodeVars, Running
<1>2. CASE Start
  <2>1. phase = "starting" /\ phase' = "running"
    BY <1>2 DEF Start
  <2>2. Quiet /\ Booting
    BY <2>1 DEF NodeInv, BootInv, BootPhases
  <2> QED
    BY <1>2, <2>1, <2>2, StartInv DEF NodeInv, BootPhases
<1>3. CASE phase' # "running" /\ phase' \notin BootPhases
  BY <1>3 DEF NodeInv, Running
<1>5. CASE \E t \in Asked : Dispatch(t) \/ SelectChat(t)
  <2>1. PICK t \in Asked : Dispatch(t) \/ SelectChat(t)
    BY <1>5
  <2>2. phase' = phase /\ (phase = "running" \/ phase = "stopped")
    BY <2>1 DEF Dispatch, SelectChat, bootVars, Running
  <2>3. CASE phase = "stopped"
    BY <1>3, <2>2, <2>3 DEF BootPhases
  <2>4. CASE Running
    BY <2>1, <2>2, <2>4, DispatchInv, SelectChatInv DEF NodeInv, Running, BootPhases
  <2> QED
    BY <2>2, <2>3, <2>4 DEF Running
<1>6. CASE HandleJob \/ HandleClose \/ NodePanics \/ Listen
  <2>1. Running /\ RunInv
    BY <1>6 DEF HandleJob, HandleClose, NodePanics, Listen, NodeReady, NodeInv
  <2>2. CASE NodePanics
    BY <1>3, <2>2 DEF NodePanics, BootPhases
  <2>3. CASE HandleJob \/ HandleClose \/ Listen
    <3>1. phase' = phase
      BY <2>3 DEF HandleJob, HandleClose, Listen, bootVars
    <3>2. RunInv'
      <4>1. CASE Listen
        BY <2>1, <4>1, KeepInv DEF Listen, bootVars
      <4> QED
        BY <2>1, <2>3, <4>1, HandleJobInv, HandleCloseInv
    <3> QED
      BY <2>1, <3>1, <3>2 DEF NodeInv, Running, BootPhases
  <2> QED
    BY <1>6, <2>2, <2>3
<1>7. CASE \E i \in Paths : \/ PathOpened(i) \/ Handles(i) \/ Serve(i) \/ StreamBreaks(i)
                            \/ \E t \in Topics : ServerPushes(i, t)
  <2>1. PICK i \in Paths : \/ PathOpened(i) \/ Handles(i) \/ Serve(i) \/ StreamBreaks(i)
                           \/ \E t \in Topics : ServerPushes(i, t)
    BY <1>7
  <2>2. CASE StreamEnds(i)
    <3>1. Running /\ RunInv
      BY <2>2 DEF StreamEnds, NodeReady, NodeInv
    <3>2. phase' = phase \/ phase' = "stopped"
      BY <2>2 DEF StreamEnds
    <3>3. RunInv'
      BY <2>2, <3>1, StreamEndsInv
    <3> QED
      BY <3>1, <3>2, <3>3 DEF NodeInv, Running, BootPhases
  <2>3. CASE PathOpened(i) \/ Respond(i) \/ StreamErrs(i) \/ StreamBreaks(i)
    <3>1. Running /\ RunInv /\ phase' = phase
      BY <2>3 DEF PathOpened, Respond, StreamErrs, StreamBreaks, NodeReady, NodeInv
    <3>2. RunInv'
      BY <2>3, <3>1, PathOpenedInv, RespondInv, StreamErrsInv, StreamBreaksInv
    <3> QED
      BY <3>1, <3>2 DEF NodeInv, Running, BootPhases
  <2>4. CASE Serve(i)
    <3>1. PICK k \in Jobs : ServerHandles(i, k)
      BY <2>4 DEF Serve
    <3>2. phase' = phase
      BY <3>1 DEF ServerHandles, bootVars
    <3>3. phase \notin BootPhases
      <4>1. ASSUME Quiet PROVE FALSE
        <5>1. inbox[i] = <<>>
          BY <4>1 DEF Quiet
        <5> QED
          BY <3>1, <5>1 DEF ServerHandles
      <4> QED
        BY <4>1 DEF NodeInv
    <3>4. Running => RunInv'
      BY <3>1, ServerHandlesInv DEF NodeInv
    <3> QED
      BY <3>2, <3>3, <3>4 DEF NodeInv, Running
  <2>5. CASE \E t \in Topics : ServerPushes(i, t)
    <3>1. /\ phase' = phase
          /\ UNCHANGED <<jobs, requests, searching, inbox, table, awaiting, owned, strays, streams>>
      BY <2>5 DEF ServerPushes, bootVars
    <3>2. Running => RunInv'
      BY <3>1, KeepInv DEF NodeInv
    <3>3. Quiet => Quiet'
      BY <3>1 DEF Quiet
    <3> QED
      BY <3>1, <3>2, <3>3 DEF NodeInv, Running
  <2> QED
    BY <2>1, <2>2, <2>3, <2>4, <2>5 DEF Handles
<1> QED
  BY <1>1, <1>2, <1>5, <1>6, <1>7 DEF Next

LEMMA NodeInvHolds == Spec => []NodeInv
<1>1. Init => NodeInv
  BY DEF Init, BootInit, NodeInv, Quiet, Running
<1>2. NodeInv /\ BootInv /\ [Next]_clientVars => NodeInv'
  <2> SUFFICES ASSUME NodeInv, BootInv, [Next]_clientVars PROVE NodeInv'
    OBVIOUS
  <2>1. CASE UNCHANGED clientVars
    <3>1. phase' = phase /\ UNCHANGED <<jobs, requests, searching, inbox, table, awaiting, owned,
                                        strays, streams>>
      BY <2>1 DEF clientVars, bootVars, nodeVars
    <3>2. Running => RunInv'
      BY <3>1, KeepInv DEF NodeInv
    <3>3. Quiet => Quiet'
      BY <3>1 DEF Quiet
    <3> QED
      BY <3>1, <3>2, <3>3 DEF NodeInv, Running
  <2> QED
    BY <2>1, NodeStepInv
<1> QED
  BY <1>1, <1>2, BootInvHolds, PTL DEF Spec

LEMMA WaitsWaiting == ASSUME RunInv, NEW n PROVE Waits(n) <=> Waiting(n)
<1>1. requests \in Seq(AnyCommands) /\ searching \in [Paths -> Seq(Commands)]
  BY DEF RunInv, RunTypeOK
<1>2. n \in JobsOf(requests, "request") \cup JobsOf(requests, "subscribe") <=> Ahead(requests, n)
  <2>1. \A k \in 1 .. Len(requests) :
           requests[k].kind # "close" <=> requests[k].kind = "request" \/ requests[k].kind = "subscribe"
    <3>1. ASSUME NEW k \in 1 .. Len(requests) PROVE requests[k] \in AnyCommands
      BY <1>1
    <3> QED
      BY <3>1 DEF AnyCommands
  <2>2. n \in JobsOf(requests, "request") <=>
           \E k \in 1 .. Len(requests) : requests[k].kind = "request" /\ requests[k].job = n
    BY <1>1, JobsOfElements
  <2>3. n \in JobsOf(requests, "subscribe") <=>
           \E k \in 1 .. Len(requests) : requests[k].kind = "subscribe" /\ requests[k].job = n
    BY <1>1, JobsOfElements
  <2> QED
    BY <2>1, <2>2, <2>3 DEF Ahead
<1>3. ASSUME NEW i \in Paths PROVE n \in {c.job : c \in Range(searching[i])} <=> Among(searching[i], n)
  <2>1. DOMAIN searching[i] = 1 .. Len(searching[i])
    BY <1>1
  <2>2. \A c : c \in Range(searching[i]) <=> \E k \in 1 .. Len(searching[i]) : c = searching[i][k]
    BY <2>1 DEF Range
  <2> QED
    BY <2>2 DEF Among
<1> QED
  BY <1>2, <1>3 DEF Waits, Waiting

\* Jobs of a topic reach the servers in the order in which tasks handed them to the node,
\* whatever handle_request, handle_subscription_request and handle_topic_search find when they
\* come, and whatever paths open (handle_swarm_event) and streams break in between: while an
\* older job waits for its path no younger one of its topic has been written.
THEOREM NoOvertakingHolds == Spec => []NoOvertaking
<1>1. NodeInv => NoOvertaking
  <2> SUFFICES ASSUME NodeInv, Running, NEW m \in DOMAIN jobs, NEW n \in DOMAIN jobs, m < n,
                      jobs[m].topic = jobs[n].topic, Waits(m)
               PROVE  Waits(n)
    BY DEF NoOvertaking
  <2>1. RunInv
    BY DEF NodeInv
  <2>2. DOMAIN jobs = 1 .. Len(jobs)
    BY <2>1 DEF RunInv, RunTypeOK
  <2>3. Waiting(m)
    BY <2>1, WaitsWaiting
  <2>4. Waiting(n)
    BY <2>1, <2>2, <2>3 DEF RunInv, Order
  <2> QED
    BY <2>1, <2>4, WaitsWaiting
<1> QED
  BY <1>1, NodeInvHolds, PTL

\* The selected chat is heard, and what was closed is not: on a stream that is up the server has
\* the subscription of an owner under its topic, or will get it, since none that was written
\* after it takes its place (one subscription per stream and topic); and a subscription whose
\* owner is gone is in no stream once the node has handled CloseSubscription, unless it was
\* closed while it waited in pending_topic_search.
THEOREM SelectedIsHeardHolds == Spec => []SelectedIsHeard
<1>1. NodeInv => SelectedIsHeard
  <2> SUFFICES ASSUME NodeInv, Running
               PROVE  /\ \A i \in Paths : Up(i) => \A n \in owned \cap streams[i].subs :
                            \/ Command("subscribe", n) \in Range(inbox[i])
                            \/ table[i][jobs[n].topic] = n
                      /\ \A n \in Subscriptions \ owned :
                            Subscribed(n) => n \in strays \/ n \in JobsOf(requests, "close")
    BY DEF SelectedIsHeard
  <2>1. RunInv
    BY DEF NodeInv
  <2>2. /\ DOMAIN jobs = 1 .. Len(jobs) /\ requests \in Seq(AnyCommands)
        /\ inbox \in [Paths -> Seq(Commands)]
    BY <2>1 DEF RunInv, RunTypeOK
  <2>3. ASSUME NEW i \in Paths, Up(i), NEW n \in owned \cap streams[i].subs
        PROVE  Command("subscribe", n) \in Range(inbox[i]) \/ table[i][jobs[n].topic] = n
    <3>1. HeardOn(i, n)
      BY <2>1, <2>3 DEF RunInv, Heard
    <3>2. DOMAIN inbox[i] = 1 .. Len(inbox[i])
      BY <2>2
    <3> QED
      BY <3>1, <3>2 DEF HeardOn, Range
  <2>4. ASSUME NEW n \in Subscriptions \ owned, Subscribed(n)
        PROVE  n \in strays \/ n \in JobsOf(requests, "close")
    <3>1. n \in 1 .. Len(jobs) /\ IsSub(n) /\ n \notin owned
      BY <2>2, <2>4 DEF Subscriptions, IsSub
    <3>2. n \in strays \/ Closing(n)
      BY <2>1, <2>4, <3>1 DEF RunInv, Closed
    <3>3. Closing(n) => n \in JobsOf(requests, "close")
      BY <2>2, JobsOfElements DEF Closing, ToClose
    <3> QED
      BY <3>2, <3>3
  <2> QED
    BY <2>3, <2>4
<1> QED
  BY <1>1, NodeInvHolds, PTL
=============================================================================
