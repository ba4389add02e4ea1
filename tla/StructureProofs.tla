-------------------------- MODULE StructureProofs --------------------------
(***************************************************************************)
(* Proofs about the parts that keep a structure of their own: a relay's    *)
(* channel (Relaying), the buffer of a stream (PacketWriter), what a       *)
(* client signs (ClientState), the pages of a chat (Reading), and the      *)
(* register of names (UserManager).  Each has a specification of its own:  *)
(* the runs put them side by side, where they share no state.              *)
(***************************************************************************)
EXTENDS Relaying, PacketWriter, ClientState, Reading, UserManager, SequenceTheorems, TLAPS

-----------------------------------------------------------------------------
(* A relay's channel.                                                       *)

RelayingSpec == RelayingInit /\ [][RelayingNext]_relayingVars

\* What the cache holds are the last bytes that were read, and the other stream has all bytes
\* before what is still to be written of it.
BytesInLine ==
    /\ written \in Nat /\ taken \in Nat
    /\ poll_cache \in Seq(Nat) /\ forwarded \in Seq(Nat)
    /\ \A i \in 1 .. Len(poll_cache) : poll_cache[i] = taken - Len(poll_cache) + i
    /\ \A i \in 1 .. Len(forwarded) : forwarded[i] = i
    /\ \/ Len(poll_cache) = 0 /\ Len(forwarded) = taken
       \/ /\ written <= Len(poll_cache)
          /\ Len(forwarded) = taken - Len(poll_cache) + written

RelayingInv == ~ended /\ ~skipped => BytesInLine

\* What is still to be written of the cache, byte by byte.
LEMMA CachedBytes ==
    ASSUME BytesInLine
    PROVE  /\ Cached \in Seq(Nat)
           /\ Len(Cached) = IF written <= Len(poll_cache) THEN Len(poll_cache) - written ELSE 0
           /\ \A i \in 1 .. Len(Cached) : Cached[i] = poll_cache[written + i]
<1>1. poll_cache \in Seq(Nat) /\ written \in Nat /\ Len(poll_cache) \in Nat
  BY DEF BytesInLine
<1>2. \A i \in written + 1 .. Len(poll_cache) : poll_cache[i] \in Nat
  BY <1>1
<1>3. Cached = [i \in 1 .. (IF written + 1 <= Len(poll_cache) THEN Len(poll_cache) - written ELSE 0)
                    |-> poll_cache[written + i]]
  BY <1>1 DEF Cached
<1> QED
  BY <1>1, <1>2, <1>3

LEMMA RelayingInitInv == RelayingInit => RelayingInv
BY DEF RelayingInit, RelayingInv, BytesInLine

LEMMA WriteCachedInv ==
    ASSUME RelayingInv, NEW w \in 1 .. Chunk, WriteCached(w)
    PROVE  RelayingInv'
<1>1. BytesInLine /\ w \in 1 .. Len(Cached)
  BY DEF RelayingInv, WriteCached
<1> DEFINE c == Cached
<1>2. /\ c \in Seq(Nat) /\ Len(c) = Len(poll_cache) - written /\ written + w <= Len(poll_cache)
      /\ \A i \in 1 .. Len(c) : c[i] = poll_cache[written + i]
      /\ w \in 1 .. Len(c) /\ w \in Nat
  BY <1>1, CachedBytes, RelayingAssumption DEF BytesInLine
<1>3. forwarded' = forwarded \o SubSeq(c, 1, w)
  BY DEF WriteCached
<1> HIDE DEF c
<1>4. SubSeq(c, 1, w) \in Seq(Nat) /\ Len(SubSeq(c, 1, w)) = w
      /\ \A i \in 1 .. w : SubSeq(c, 1, w)[i] = c[i]
  BY <1>2
<1>5. /\ forwarded' \in Seq(Nat) /\ Len(forwarded') = Len(forwarded) + w
      /\ \A i \in 1 .. Len(forwarded) : forwarded'[i] = forwarded[i]
      /\ \A i \in Len(forwarded) + 1 .. Len(forwarded) + w : forwarded'[i] = c[i - Len(forwarded)]
  <2>1. forwarded \in Seq(Nat)
    BY <1>1 DEF BytesInLine
  <2> QED
    BY <1>2, <1>3, <1>4, <2>1, ConcatProperties
<1>6. /\ written' = written + w /\ poll_cache' = poll_cache /\ taken' = taken
  BY DEF WriteCached
<1>7. Len(forwarded) = taken - Len(poll_cache) + written
  BY <1>1, <1>2 DEF BytesInLine
<1>8. ASSUME NEW i \in 1 .. Len(forwarded') PROVE forwarded'[i] = i
  <2>1. Len(forwarded) \in Nat /\ taken \in Nat /\ Len(poll_cache) \in Nat /\ i \in Nat
    BY <1>1, <1>5 DEF BytesInLine
  <2>2. CASE i \in 1 .. Len(forwarded)
    BY <1>1, <1>5, <2>2 DEF BytesInLine
  <2>3. CASE i \notin 1 .. Len(forwarded)
    <3> DEFINE j == i - Len(forwarded)
    <3>1. i \in Len(forwarded) + 1 .. Len(forwarded) + w /\ j \in 1 .. w /\ j \in 1 .. Len(c)
      BY <1>2, <1>5, <2>1, <2>3
    <3>2. forwarded'[i] = c[j] /\ c[j] = poll_cache[written + j]
      BY <1>2, <1>5, <3>1
    <3>3. written + j \in 1 .. Len(poll_cache)
      BY <1>1, <1>2, <2>1, <3>1 DEF BytesInLine
    <3>4. poll_cache[written + j] = taken - Len(poll_cache) + (written + j)
      BY <1>1, <3>3 DEF BytesInLine
    <3> QED
      BY <1>1, <1>7, <2>1, <3>2, <3>4 DEF BytesInLine
  <2> QED
    BY <2>2, <2>3
<1> QED
  BY <1>1, <1>2, <1>5, <1>6, <1>7, <1>8 DEF RelayingInv, BytesInLine

LEMMA ForwardReadInv ==
    ASSUME RelayingInv, NEW n \in 1 .. Chunk, NEW w \in 0 .. n, ForwardRead(n, w)
    PROVE  RelayingInv'
<1> SUFFICES ASSUME ~ended', ~skipped' PROVE BytesInLine'
  BY DEF RelayingInv
<1>a. BytesInLine /\ w # 0
  BY Zenon DEF RelayingInv, ForwardRead
<1>1. BytesInLine /\ n \in Nat /\ w \in Nat /\ w > 0 /\ w <= n
  BY <1>a, RelayingAssumption
<1>2. Len(forwarded) = taken
  BY <1>1, CachedBytes DEF ForwardRead, BytesInLine
<1>3. taken' = taken + n /\ written' = written
  BY DEF ForwardRead
<1> DEFINE new == [i \in 1 .. w |-> taken + i]
<1>4. new \in Seq(Nat) /\ Len(new) = w /\ \A i \in 1 .. w : new[i] = taken + i
  BY <1>1 DEF BytesInLine
<1>5. /\ forwarded' \in Seq(Nat) /\ Len(forwarded') = taken + w
      /\ \A i \in 1 .. Len(forwarded') : forwarded'[i] = i
  <2>1. forwarded' = forwarded \o new
    BY DEF ForwardRead
  <2>2. forwarded \in Seq(Nat) /\ \A i \in 1 .. Len(forwarded) : forwarded[i] = i
    BY <1>1 DEF BytesInLine
  <2> HIDE DEF new
  <2>3. /\ forwarded' \in Seq(Nat) /\ Len(forwarded') = Len(forwarded) + w
        /\ \A i \in 1 .. Len(forwarded) + w :
              forwarded'[i] = IF i <= Len(forwarded) THEN forwarded[i] ELSE new[i - Len(forwarded)]
    BY <1>4, <2>1, <2>2, ConcatProperties
  <2>4. ASSUME NEW i \in 1 .. Len(forwarded) + w PROVE forwarded'[i] = i
    <3>1. CASE i <= Len(forwarded)
      BY <2>2, <2>3, <3>1
    <3>2. CASE ~ (i <= Len(forwarded))
      <4>1. i - Len(forwarded) \in 1 .. w
        BY <1>1, <2>2, <3>2
      <4> QED
        BY <1>1, <1>2, <1>4, <2>2, <2>3, <3>2, <4>1
    <3> QED
      BY <3>1, <3>2
  <2> QED
    BY <1>2, <2>3, <2>4
<1>6. CASE w = n
  <2>1. poll_cache' = <<>>
    BY <1>6 DEF ForwardRead
  <2> QED
    BY <1>1, <1>3, <1>5, <1>6, <2>1 DEF BytesInLine
<1>7. CASE w # n
  <2>a. w \notin {0, n}
    BY <1>1, <1>7
  <2>b. poll_cache' = Rest(n, w) /\ ~ (written > 0)
    BY <2>a, Zenon DEF ForwardRead
  <2>1. poll_cache' = Rest(n, w) /\ written = 0
    BY <1>1, <2>b DEF BytesInLine
  <2>2. /\ Rest(n, w) \in Seq(Nat) /\ Len(Rest(n, w)) = n - w
        /\ \A i \in 1 .. n - w : Rest(n, w)[i] = taken + w + i
    BY <1>1, <1>7 DEF Rest, BytesInLine
  <2> QED
    BY <1>1, <1>3, <1>5, <2>1, <2>2 DEF BytesInLine
<1> QED
  BY <1>6, <1>7

LEMMA RelayingInvHolds == RelayingSpec => []RelayingInv
<1>1. RelayingInv /\ [RelayingNext]_relayingVars => RelayingInv'
  <2> SUFFICES ASSUME RelayingInv, [RelayingNext]_relayingVars PROVE RelayingInv'
    OBVIOUS
  <2>1. CASE \E w \in 1 .. Chunk : WriteCached(w)
    BY <2>1, WriteCachedInv
  <2>2. CASE \E n \in 1 .. Chunk : \E w \in 0 .. n : ForwardRead(n, w)
    BY <2>2, ForwardReadInv
  <2>3. CASE UNCHANGED relayingVars
    BY <2>3 DEF relayingVars, RelayingInv, BytesInLine
  <2> QED
    BY <2>1, <2>2, <2>3 DEF RelayingNext
<1> QED
  BY <1>1, RelayingInitInv, PTL DEF RelayingSpec

\* A channel forwards the bytes in the order in which they were read, whatever part of them the
\* other stream takes at a time (Stream::forward_from), until it ends or caches for the second
\* time.
THEOREM ForwardsInOrderHolds == RelayingSpec => []ForwardsInOrder
<1>1. RelayingInv => ForwardsInOrder
  <2> SUFFICES ASSUME BytesInLine PROVE forwarded \o Cached = [i \in 1 .. taken |-> i]
    BY DEF RelayingInv, ForwardsInOrder
  <2> DEFINE c == Cached
  <2>1. /\ c \in Seq(Nat) /\ Len(forwarded) + Len(c) = taken
        /\ \A i \in 1 .. Len(c) : c[i] = Len(forwarded) + i
    <3> DEFINE p == poll_cache
    <3>1. /\ c \in Seq(Nat)
          /\ Len(c) = IF written <= Len(p) THEN Len(p) - written ELSE 0
          /\ \A i \in 1 .. Len(c) : c[i] = p[written + i]
      BY CachedBytes
    <3>2. /\ written \in Nat /\ taken \in Nat /\ Len(p) \in Nat
          /\ \A i \in 1 .. Len(p) : p[i] = taken - Len(p) + i
      BY DEF BytesInLine
    <3>3. Len(forwarded) + Len(c) = taken
      BY <3>1, <3>2 DEF BytesInLine
    <3>4. ASSUME NEW i \in 1 .. Len(c) PROVE c[i] = Len(forwarded) + i
      <4>1. written + i \in 1 .. Len(p) /\ Len(c) = Len(p) - written
        BY <3>1, <3>2
      <4>2. p[written + i] = taken - Len(p) + (written + i)
        BY <3>2, <4>1
      <4>3. c[i] = p[written + i]
        BY <3>1
      <4>4. Len(forwarded) \in Nat /\ i \in Nat
        BY DEF BytesInLine
      <4>5. taken - Len(p) + (written + i) = Len(forwarded) + i
        BY <3>2, <3>3, <4>1, <4>4
      <4> QED
        BY <4>2, <4>3, <4>5
    <3> QED
      BY <3>1, <3>3, <3>4
  <2>2. forwarded \in Seq(Nat) /\ taken \in Nat /\ \A i \in 1 .. Len(forwarded) : forwarded[i] = i
    BY DEF BytesInLine
  <2> HIDE DEF c
  <2>3. forwarded \o c \in Seq(Nat) /\ Len(forwarded \o c) = taken
        /\ \A i \in 1 .. taken : (forwarded \o c)[i] = i
    BY <2>1, <2>2, ConcatProperties
  <2> DEFINE f == forwarded \o c
  <2>4. f = [i \in 1 .. taken |-> i]
    <3>1. f \in Seq(Nat) /\ Len(f) = taken /\ \A i \in 1 .. taken : f[i] = i
      BY <2>3
    <3> HIDE DEF f
    <3> QED
      BY <3>1
  <2> QED
    BY <2>4 DEF c
<1> QED
  BY <1>1, RelayingInvHolds, PTL

-----------------------------------------------------------------------------
(* The buffer of a stream.                                                  *)

WriterSpec == WriterInit /\ [][WriterNext]_writerVars

WriterTypeOK ==
    /\ start \in Nat /\ end \in Nat /\ accepted \in Nat /\ sent \in Nat
    /\ buffer \in Seq(Nat) /\ Len(buffer) <= Capacity

\* All that waits is between start and end.
Straight ==
    /\ start <= end /\ end <= Len(buffer)
    /\ accepted - sent = end - start
    /\ \A i \in start + 1 .. end : buffer[i] = sent + i - start

\* What waits goes on to the end of the vector and from its beginning to end.
Around ==
    /\ start > end /\ start <= Len(buffer)
    /\ accepted - sent = Len(buffer) - start + end
    /\ \A i \in start + 1 .. Len(buffer) : buffer[i] = sent + i - start
    /\ \A i \in 1 .. end : buffer[i] = sent + (Len(buffer) - start) + i

WriterInv == ~broken => WriterTypeOK /\ (Straight \/ Around)

LEMMA WriterInitInv == WriterInit => WriterInv
BY WriterAssumption DEF WriterInit, WriterInv, WriterTypeOK, Straight

\* The bytes of a packet are numbered on from the ones accepted before.
LEMMA BytesOfPacket ==
    ASSUME WriterTypeOK, NEW z \in Nat
    PROVE  /\ Bytes(z) \in Seq(Nat) /\ Len(Bytes(z)) = z
           /\ \A i \in 1 .. z : Bytes(z)[i] = accepted + i
BY DEF WriterTypeOK, Bytes

\* A packet behind the first at bytes of the vector.
LEMMA AddedBehind ==
    ASSUME WriterTypeOK, NEW z \in Nat, NEW at \in 0 .. Len(buffer)
    PROVE  LET b == SubSeq(buffer, 1, at) \o Bytes(z)
           IN  /\ b \in Seq(Nat) /\ Len(b) = at + z
               /\ \A i \in 1 .. at : b[i] = buffer[i]
               /\ \A i \in at + 1 .. at + z : b[i] = accepted + (i - at)
<1> DEFINE front == SubSeq(buffer, 1, at)
           bytes == Bytes(z)
           b == front \o bytes
<1>1. buffer \in Seq(Nat) /\ Len(buffer) \in Nat /\ at \in Nat /\ at <= Len(buffer)
  BY DEF WriterTypeOK
<1>2. front \in Seq(Nat) /\ Len(front) = at /\ \A i \in 1 .. at : front[i] = buffer[i]
  BY <1>1
<1>3. bytes \in Seq(Nat) /\ Len(bytes) = z /\ \A i \in 1 .. z : bytes[i] = accepted + i
  BY BytesOfPacket
<1> HIDE DEF front, bytes
<1>4. b \in Seq(Nat) /\ Len(b) = at + z
      /\ \A i \in 1 .. at + z : b[i] = IF i <= at THEN front[i] ELSE bytes[i - at]
  BY <1>2, <1>3, ConcatProperties
<1> HIDE DEF b
<1>5. \A i \in 1 .. at : b[i] = buffer[i]
  BY <1>1, <1>2, <1>4
<1>6. ASSUME NEW i \in at + 1 .. at + z PROVE b[i] = accepted + (i - at)
  <2>1. i - at \in 1 .. z /\ i \in 1 .. at + z /\ ~ (i <= at)
    BY <1>1
  <2> QED
    BY <1>3, <1>4, <2>1
<1> QED
  BY <1>4, <1>5, <1>6 DEF b, front, bytes

\* A packet over the bytes from from + 1 on.
LEMMA AddedOver ==
    ASSUME WriterTypeOK, NEW z \in Nat, NEW from \in Nat, from + z <= Len(buffer)
    PROVE  LET b == SubSeq(buffer, 1, from) \o Bytes(z) \o SubSeq(buffer, from + z + 1, Len(buffer))
           IN  /\ b \in Seq(Nat) /\ Len(b) = Len(buffer)
               /\ \A i \in 1 .. from : b[i] = buffer[i]
               /\ \A i \in from + 1 .. from + z : b[i] = accepted + (i - from)
               /\ \A i \in from + z + 1 .. Len(buffer) : b[i] = buffer[i]
<1> DEFINE a == SubSeq(buffer, 1, from) \o Bytes(z)
           rest == SubSeq(buffer, from + z + 1, Len(buffer))
           b == a \o rest
           n == from + z
<1>1. buffer \in Seq(Nat) /\ Len(buffer) \in Nat /\ from \in 0 .. Len(buffer) /\ n \in Nat
      /\ n <= Len(buffer) /\ n = from + z
  BY DEF WriterTypeOK
<1>2. /\ a \in Seq(Nat) /\ Len(a) = n
      /\ \A i \in 1 .. from : a[i] = buffer[i]
      /\ \A i \in from + 1 .. from + z : a[i] = accepted + (i - from)
  BY <1>1, AddedBehind
<1>3. \A i \in n + 1 .. Len(buffer) : buffer[i] \in Nat
  BY <1>1
<1>4. rest \in Seq(Nat) /\ Len(rest) = Len(buffer) - n
      /\ \A i \in 1 .. Len(buffer) - n : rest[i] = buffer[n + i]
  <2>1. rest = SubSeq(buffer, n + 1, Len(buffer))
    OBVIOUS
  <2> HIDE DEF rest, n
  <2>2. n + 1 \in Int /\ Len(buffer) \in Int
    BY <1>1
  <2>3. /\ rest \in Seq(Nat)
        /\ Len(rest) = IF n + 1 <= Len(buffer) THEN Len(buffer) - (n + 1) + 1 ELSE 0
        /\ \A i \in 1 .. Len(buffer) - (n + 1) + 1 : rest[i] = buffer[(n + 1) + i - 1]
    BY <1>3, <2>1, <2>2, SubSeqProperties
  <2>4. Len(rest) = Len(buffer) - n
    BY <1>1, <2>3
  <2>5. ASSUME NEW i \in 1 .. Len(buffer) - n PROVE rest[i] = buffer[n + i]
    <3>1. i \in 1 .. Len(buffer) - (n + 1) + 1 /\ (n + 1) + i - 1 = n + i
      BY <1>1
    <3> QED
      BY <2>3, <3>1
  <2> QED
    BY <2>3, <2>4, <2>5
<1> HIDE DEF a, rest, n
<1>5. b \in Seq(Nat) /\ Len(b) = Len(buffer)
      /\ \A i \in 1 .. Len(buffer) : b[i] = IF i <= n THEN a[i] ELSE rest[i - n]
  <2>1. /\ b \in Seq(Nat) /\ Len(b) = Len(a) + Len(rest)
        /\ \A i \in 1 .. Len(a) + Len(rest) : b[i] = IF i <= Len(a) THEN a[i] ELSE rest[i - Len(a)]
    <3>1. a \in Seq(Nat) /\ rest \in Seq(Nat)
      BY <1>2, <1>4
    <3> QED
      BY <3>1, ConcatProperties
  <2>2. Len(a) + Len(rest) = Len(buffer)
    BY <1>1, <1>2, <1>4
  <2> QED
    BY <1>2, <2>1, <2>2
<1> HIDE DEF b
<1>6. \A i \in 1 .. from : b[i] = buffer[i]
  BY <1>1, <1>2, <1>5
<1>7. \A i \in from + 1 .. from + z : b[i] = accepted + (i - from)
  <2> SUFFICES ASSUME NEW i \in from + 1 .. from + z PROVE b[i] = accepted + (i - from)
    OBVIOUS
  <2>1. i \in 1 .. Len(buffer) /\ i <= n
    BY <1>1
  <2>2. b[i] = a[i]
    BY <1>5, <2>1
  <2> QED
    BY <1>2, <2>2
<1>8. ASSUME NEW i \in n + 1 .. Len(buffer) PROVE b[i] = buffer[i]
  <2>1. i - n \in 1 .. Len(buffer) - n /\ i \in 1 .. Len(buffer) /\ ~ (i <= n) /\ n + (i - n) = i
    BY <1>1
  <2> QED
    BY <1>4, <1>5, <2>1
<1> QED
  BY <1>5, <1>6, <1>7, <1>8 DEF b, a, rest, n

LEMMA ReplaceInv ==
    ASSUME WriterTypeOK, Straight \/ Around, NEW z \in PacketSizes, Replace(z)
    PROVE  WriterInv'
<1> SUFFICES ASSUME ~broken' PROVE WriterTypeOK' /\ (Straight \/ Around)'
  BY DEF WriterInv
<1> DEFINE from == IF end = Len(buffer) THEN 0 ELSE end
           fits == z <= Space0
<1>1. /\ z \in Nat /\ z > 0
      /\ start \in Nat /\ end \in Nat /\ accepted \in Nat /\ sent \in Nat /\ Len(buffer) \in Nat
      /\ buffer \in Seq(Nat) /\ Len(buffer) <= Capacity /\ Capacity \in Nat
  BY WriterAssumption DEF WriterTypeOK
<1>2. start' = start /\ sent' = sent
  BY DEF Replace
<1>3. Space0 > 0 /\ SpaceBegin < start /\ Space0 = start - SpaceBegin
  BY <1>1 DEF Replace, FreeCap, Space0, SpaceBegin
<1>4. CASE ~ fits
  <2>1. end' = from /\ buffer' = buffer /\ accepted' = accepted
    BY <1>4 DEF Replace
  <2>2. WriterTypeOK'
    BY <1>1, <1>2, <2>1 DEF WriterTypeOK
  <2>3. CASE Straight /\ end = Len(buffer)
    <3>1. /\ start' = start /\ end' = 0 /\ buffer' = buffer /\ accepted' = accepted /\ sent' = sent
          /\ start > 0 /\ start <= Len(buffer)
      BY <1>1, <1>2, <1>3, <2>1, <2>3 DEF Straight, SpaceBegin
    <3>2. /\ accepted - sent = Len(buffer) - start + 0
          /\ \A i \in start + 1 .. Len(buffer) : buffer[i] = sent + i - start
          /\ \A i \in 1 .. 0 : buffer[i] = sent + (Len(buffer) - start) + i
      BY <1>1, <2>3 DEF Straight
    <3>3. Around'
      BY <3>1, <3>2 DEF Around
    <3> QED
      BY <2>2, <3>3
  <2>4. CASE ~ (Straight /\ end = Len(buffer))
    <3>1. end # Len(buffer)
      BY <1>1, <2>4 DEF Straight, Around
    <3> QED
      BY <1>1, <1>2, <2>1, <2>2, <3>1 DEF Straight, Around
  <2> QED
    BY <2>2, <2>3, <2>4
<1>5. CASE fits
  <2>1. z # Space0 /\ ~Stale
    BY <1>5, Zenon DEF Replace
  <2>2. end' = from + z /\ accepted' = accepted + z
    BY <1>5 DEF Replace
  <2>b. buffer' = SubSeq(buffer, 1, SpaceBegin) \o Bytes(z)
                 \o SubSeq(buffer, SpaceBegin + z + 1, Len(buffer))
    BY <1>5 DEF Replace
  <2>3. from = SpaceBegin /\ from \in Nat /\ start <= Len(buffer) /\ from + z < start
    BY <1>1, <1>3, <1>5, <2>1 DEF Straight, Around, Stale, SpaceBegin
  <2> HIDE DEF from
  <2>4. buffer' = SubSeq(buffer, 1, from) \o Bytes(z) \o SubSeq(buffer, from + z + 1, Len(buffer))
    BY <2>3, <2>b
  <2>5. from + z <= Len(buffer)
    BY <1>1, <2>3
  <2>6. /\ buffer' \in Seq(Nat) /\ Len(buffer') = Len(buffer)
        /\ \A i \in 1 .. from : buffer'[i] = buffer[i]
        /\ \A i \in from + 1 .. from + z : buffer'[i] = accepted + (i - from)
        /\ \A i \in from + z + 1 .. Len(buffer) : buffer'[i] = buffer[i]
    <3>1. z \in Nat /\ from \in Nat
      BY <1>1, <2>3
    <3> QED
      BY <2>4, <2>5, <3>1, AddedOver
  <2>7. WriterTypeOK'
    BY <1>1, <1>2, <2>2, <2>3, <2>6 DEF WriterTypeOK
  <2>8. /\ accepted - sent = Len(buffer) - start + from
        /\ \A i \in start + 1 .. Len(buffer) : buffer[i] = sent + i - start
        /\ \A i \in 1 .. from : buffer[i] = sent + (Len(buffer) - start) + i
    BY <1>1, <1>3, <2>1, <2>3 DEF from, Straight, Around, Stale, SpaceBegin
  <2>9. \A i \in start + 1 .. Len(buffer) : buffer'[i] = sent + i - start
    BY <1>1, <2>3, <2>6, <2>8
  <2>10. ASSUME NEW i \in 1 .. from + z PROVE buffer'[i] = sent + (Len(buffer) - start) + i
    <3>1. CASE i <= from
      BY <2>3, <2>6, <2>8, <3>1
    <3>2. CASE ~ (i <= from)
      <4>1. buffer'[i] = accepted + (i - from)
        BY <1>1, <2>3, <2>6, <3>2
      <4> QED
        <5>1. accepted = sent + (Len(buffer) - start) + from /\ i \in Nat
          BY <1>1, <2>3, <2>8
        <5> QED
          BY <1>1, <2>3, <4>1, <5>1
    <3> QED
      BY <3>1, <3>2
  <2>11. Around'
    <3>1. /\ start' = start /\ end' = from + z /\ Len(buffer') = Len(buffer) /\ sent' = sent
          /\ start > from + z /\ start <= Len(buffer)
      BY <1>1, <1>2, <2>2, <2>3, <2>6
    <3>2. accepted' - sent = Len(buffer) - start + (from + z)
      BY <1>1, <2>2, <2>3, <2>8
    <3> QED
      BY <2>9, <2>10, <3>1, <3>2 DEF Around
  <2> QED
    BY <2>7, <2>11
<1> QED
  BY <1>4, <1>5

LEMMA ExtendInv ==
    ASSUME WriterTypeOK, Straight \/ Around, NEW z \in PacketSizes, Extend(z)
    PROVE  WriterInv'
<1> SUFFICES ASSUME ~broken' PROVE WriterTypeOK' /\ (Straight \/ Around)'
  BY DEF WriterInv
<1> DEFINE at   == IF end >= start THEN end ELSE Len(buffer)
           fits == at + z <= Capacity
<1>1. /\ z \in Nat /\ z > 0
      /\ start \in Nat /\ end \in Nat /\ accepted \in Nat /\ sent \in Nat /\ Len(buffer) \in Nat
      /\ buffer \in Seq(Nat) /\ Len(buffer) <= Capacity /\ Capacity \in Nat
  BY WriterAssumption DEF WriterTypeOK
<1>2. start' = start /\ sent' = sent
  BY DEF Extend
<1>3. CASE ~ fits
  <2>1. buffer' = buffer /\ accepted' = accepted /\ ~Stale
    BY <1>3, Zenon DEF Extend
  <2>2. end' = IF end < start THEN end ELSE Len(buffer)
    BY <1>3 DEF Extend
  <2>3. end' = end
    BY <1>1, <2>1, <2>2 DEF Stale, Straight, Around
  <2> QED
    BY <1>1, <1>2, <2>1, <2>3 DEF WriterTypeOK, Straight, Around
<1>4. CASE fits
  <2>1. ~ Wrapped
    BY <1>4, Zenon DEF Extend
  <2>2. /\ end' = IF end < start THEN end ELSE at + z
        /\ accepted' = accepted + z
    BY <1>4 DEF Extend
  <2>b. buffer' = SubSeq(buffer, 1, at) \o Bytes(z)
    BY <1>4 DEF Extend
  <2>3. at \in 0 .. Len(buffer) /\ at \in Nat
    BY <1>1 DEF Straight, Around
  <2>4. CASE Straight
    <3>1. at = end /\ end' = end + z /\ end >= start /\ end \in 0 .. Len(buffer) /\ end + z <= Capacity
      BY <1>1, <1>4, <2>2, <2>4 DEF Straight
    <3>2. buffer' = SubSeq(buffer, 1, end) \o Bytes(z)
      BY <2>b, <3>1
    <3> HIDE DEF at, fits
    <3>3. /\ buffer' \in Seq(Nat) /\ Len(buffer') = end + z
          /\ \A i \in 1 .. end : buffer'[i] = buffer[i]
          /\ \A i \in end + 1 .. end + z : buffer'[i] = accepted + (i - end)
      BY <1>1, <3>1, <3>2, AddedBehind
    <3>4. accepted - sent = end - start /\ \A i \in start + 1 .. end : buffer[i] = sent + i - start
      BY <2>4 DEF Straight
    <3>5. ASSUME NEW i \in start + 1 .. end + z PROVE buffer'[i] = sent + i - start
      <4>1. CASE i <= end
        BY <1>1, <3>3, <3>4, <4>1
      <4>2. CASE ~ (i <= end)
        <5>1. buffer'[i] = accepted + (i - end)
          BY <1>1, <3>3, <4>2
        <5> QED
          BY <1>1, <3>4, <5>1
      <4> QED
        BY <4>1, <4>2
    <3> QED
      BY <1>1, <1>2, <2>2, <3>1, <3>3, <3>4, <3>5 DEF WriterTypeOK, Straight
  <2>5. CASE Around
    <3>1. /\ at = Len(buffer) /\ end' = end /\ end = 0 /\ start > 0 /\ start <= Len(buffer)
          /\ Len(buffer) + z <= Capacity
      BY <1>1, <1>4, <2>1, <2>2, <2>5 DEF Around, Wrapped
    <3>2. buffer' = SubSeq(buffer, 1, Len(buffer)) \o Bytes(z)
      BY <2>b, <3>1
    <3> HIDE DEF at, fits
    <3>3. Len(buffer) \in 0 .. Len(buffer)
      BY <1>1
    <3>4. /\ buffer' \in Seq(Nat) /\ Len(buffer') = Len(buffer) + z
          /\ \A i \in 1 .. Len(buffer) : buffer'[i] = buffer[i]
          /\ \A i \in Len(buffer) + 1 .. Len(buffer) + z : buffer'[i] = accepted + (i - Len(buffer))
      BY <1>1, <3>2, <3>3, AddedBehind
    <3>5. /\ accepted - sent = Len(buffer) - start
          /\ \A i \in start + 1 .. Len(buffer) : buffer[i] = sent + i - start
      BY <1>1, <2>5, <3>1 DEF Around
    <3>6. ASSUME NEW i \in start + 1 .. Len(buffer) + z PROVE buffer'[i] = sent + i - start
      <4>1. CASE i <= Len(buffer)
        BY <1>1, <3>4, <3>5, <4>1
      <4>2. CASE ~ (i <= Len(buffer))
        <5>1. buffer'[i] = accepted + (i - Len(buffer))
          BY <1>1, <3>4, <4>2
        <5> QED
          BY <1>1, <3>5, <5>1
      <4> QED
        BY <4>1, <4>2
    <3> QED
      <4>1. /\ start' = start /\ end' = 0 /\ Len(buffer') = Len(buffer) + z /\ sent' = sent
            /\ start > 0 /\ start <= Len(buffer) + z
        BY <1>1, <1>2, <3>1, <3>4
      <4>2. accepted' - sent = (Len(buffer) + z) - start + 0
        BY <1>1, <2>2, <3>5
      <4>3. \A i \in 1 .. 0 : buffer'[i] = sent + ((Len(buffer) + z) - start) + i
        OBVIOUS
      <4>4. Around'
        BY <3>6, <4>1, <4>2, <4>3 DEF Around
      <4>5. WriterTypeOK'
        BY <1>1, <1>2, <2>2, <3>1, <3>4 DEF WriterTypeOK
      <4> QED
        BY <4>4, <4>5
  <2> QED
    BY <2>4, <2>5
<1> QED
  BY <1>3, <1>4

\* A part of the vector, byte by byte.
LEMMA PartOfBuffer ==
    ASSUME WriterTypeOK, NEW a \in Nat, NEW b \in Nat, b <= Len(buffer)
    PROVE  /\ SubSeq(buffer, a + 1, b) \in Seq(Nat)
           /\ Len(SubSeq(buffer, a + 1, b)) = IF a <= b THEN b - a ELSE 0
           /\ a <= b => \A i \in 1 .. b - a : SubSeq(buffer, a + 1, b)[i] = buffer[a + i]
<1> DEFINE part == SubSeq(buffer, a + 1, b)
<1>1. \A i \in a + 1 .. b : buffer[i] \in Nat
  BY DEF WriterTypeOK
<1>2. a + 1 \in Int /\ b \in Int
  OBVIOUS
<1>3. /\ part \in Seq(Nat)
      /\ Len(part) = IF a + 1 <= b THEN b - (a + 1) + 1 ELSE 0
      /\ \A i \in 1 .. b - (a + 1) + 1 : part[i] = buffer[(a + 1) + i - 1]
  BY <1>1, <1>2, SubSeqProperties
<1> HIDE DEF part
<1>4. Len(part) = IF a <= b THEN b - a ELSE 0
  BY <1>3
<1>5. ASSUME a <= b, NEW i \in 1 .. b - a PROVE part[i] = buffer[a + i]
  <2>1. i \in 1 .. b - (a + 1) + 1 /\ (a + 1) + i - 1 = a + i
    BY <1>5
  <2> QED
    BY <1>3, <2>1
<1> QED
  BY <1>3, <1>4, <1>5 DEF part

LEMMA PollInv ==
    ASSUME WriterTypeOK, Straight \/ Around, Poll
    PROVE  WriterInv'
<1> DEFINE parts == WritableParts
           part  == IF parts[1] # <<>> THEN parts[1] ELSE parts[2]
<1>1. PICK n \in 1 .. Len(part) :
        /\ sent' = sent + n
        /\ IF Moved(n) = end
             THEN start' = 0 /\ end' = 0 /\ buffer' = <<>>
             ELSE start' = Moved(n) /\ UNCHANGED <<end, buffer>>
        /\ UNCHANGED <<accepted, broken>>
  BY DEF Poll
<1>2. /\ start \in Nat /\ end \in Nat /\ accepted \in Nat /\ sent \in Nat /\ Len(buffer) \in Nat
      /\ Len(buffer) <= Capacity /\ Capacity \in Nat
  BY WriterAssumption DEF WriterTypeOK
<1>3. CASE Straight
  <2>1. parts[1] = SubSeq(buffer, start + 1, end) /\ parts[2] = <<>>
    BY <1>2, <1>3 DEF Straight, WritableParts
  <2>2. Len(part) = end - start
    <3>1. Len(SubSeq(buffer, start + 1, end)) = end - start /\ SubSeq(buffer, start + 1, end) \in Seq(Nat)
      BY <1>2, <1>3, PartOfBuffer DEF Straight
    <3> DEFINE q == SubSeq(buffer, start + 1, end)
    <3>2. part = IF q # <<>> THEN q ELSE <<>>
      BY <2>1
    <3> HIDE DEF q, part
    <3>3. Len(q) = end - start /\ q \in Seq(Nat)
      BY <3>1 DEF q
    <3>4. part = q
      BY <3>2
    <3> QED
      BY <3>3, <3>4
  <2> HIDE DEF part, parts
  <2>3. n \in Nat /\ n > 0 /\ start + n <= end /\ end <= Len(buffer) /\ Moved(n) = start + n
    BY <1>2, <1>3, <2>2 DEF Straight, Moved
  <2>4. accepted - sent = end - start /\ \A i \in start + 1 .. end : buffer[i] = sent + i - start
    BY <1>3 DEF Straight
  <2>5. CASE start + n = end
    <3>1. /\ sent' = sent + n /\ start' = 0 /\ end' = 0 /\ buffer' = <<>> /\ accepted' = accepted
      BY <1>1, <2>3, <2>5
    <3>2. accepted' - sent' = 0
      BY <1>2, <2>3, <2>4, <2>5, <3>1
    <3> QED
      BY <1>2, <2>3, <3>1, <3>2 DEF WriterInv, WriterTypeOK, Straight
  <2>6. CASE start + n # end
    <3>1. /\ sent' = sent + n /\ start' = start + n /\ end' = end /\ buffer' = buffer
          /\ accepted' = accepted
      BY <1>1, <2>3, <2>6
    <3>2. accepted - (sent + n) = end - (start + n)
      BY <1>2, <2>3, <2>4
    <3>3. \A i \in (start + n) + 1 .. end : buffer[i] = (sent + n) + i - (start + n)
      BY <1>2, <2>3, <2>4
    <3>4. Straight'
      BY <2>3, <3>1, <3>2, <3>3 DEF Straight
    <3>5. WriterTypeOK'
      BY <1>2, <2>3, <3>1 DEF WriterTypeOK
    <3> QED
      BY <3>4, <3>5 DEF WriterInv
  <2> QED
    BY <2>5, <2>6
<1>4. CASE Around
  <2>1. parts[1] = SubSeq(buffer, start + 1, Len(buffer)) /\ parts[2] = SubSeq(buffer, 1, end)
    BY <1>2, <1>4 DEF Around, WritableParts
  <2>2. Len(part) = IF start < Len(buffer) THEN Len(buffer) - start ELSE end
    <3> DEFINE q == SubSeq(buffer, start + 1, Len(buffer))
               r == SubSeq(buffer, 0 + 1, end)
    <3>1. Len(q) = Len(buffer) - start /\ q \in Seq(Nat)
      BY <1>2, <1>4, PartOfBuffer DEF Around
    <3>2. Len(r) = end /\ r \in Seq(Nat)
      <4>1. end <= Len(buffer) /\ 0 \in Nat
        BY <1>2, <1>4 DEF Around
      <4>2. /\ SubSeq(buffer, 0 + 1, end) \in Seq(Nat)
            /\ Len(SubSeq(buffer, 0 + 1, end)) = IF 0 <= end THEN end - 0 ELSE 0
        BY <1>2, <4>1, PartOfBuffer
      <4> QED
        BY <1>2, <4>2
    <3>3. part = IF q # <<>> THEN q ELSE r
      BY <2>1
    <3>4. start <= Len(buffer)
      BY <1>4 DEF Around
    <3> HIDE DEF q, r, part
    <3>5. q # <<>> <=> start < Len(buffer)
      BY <1>2, <3>1, <3>4
    <3> QED
      BY <1>2, <3>1, <3>2, <3>3, <3>5
  <2> HIDE DEF part, parts
  <2>3. n \in Nat /\ n > 0 /\ start > end /\ start <= Len(buffer)
    BY <1>2, <1>4, <2>2 DEF Around
  <2>4. /\ accepted - sent = Len(buffer) - start + end
        /\ \A i \in start + 1 .. Len(buffer) : buffer[i] = sent + i - start
        /\ \A i \in 1 .. end : buffer[i] = sent + (Len(buffer) - start) + i
    BY <1>4 DEF Around
  <2>5. CASE start < Len(buffer)
    <3>1. start + n <= Len(buffer) /\ Moved(n) = start + n /\ start + n # end
      BY <1>2, <2>2, <2>3, <2>5 DEF Moved
    <3>2. /\ sent' = sent + n /\ start' = start + n /\ end' = end /\ buffer' = buffer
          /\ accepted' = accepted
      BY <1>1, <3>1
    <3>3. /\ accepted - (sent + n) = Len(buffer) - (start + n) + end
          /\ start + n > end
      BY <1>2, <2>3, <2>4
    <3>4. \A i \in (start + n) + 1 .. Len(buffer) : buffer[i] = (sent + n) + i - (start + n)
      BY <1>2, <2>3, <2>4
    <3>5. \A i \in 1 .. end : buffer[i] = (sent + n) + (Len(buffer) - (start + n)) + i
      BY <1>2, <2>3, <2>4
    <3>6. Around'
      BY <3>1, <3>2, <3>3, <3>4, <3>5 DEF Around
    <3>7. WriterTypeOK'
      BY <1>2, <2>3, <3>2 DEF WriterTypeOK
    <3> QED
      BY <3>6, <3>7 DEF WriterInv
  <2>6. CASE start = Len(buffer)
    <3>1. n <= end /\ Moved(n) = n
      BY <1>2, <2>2, <2>3, <2>6 DEF Moved
    <3>2. CASE n = end
      <4>1. sent' = sent + n /\ start' = 0 /\ end' = 0 /\ buffer' = <<>> /\ accepted' = accepted
        BY <1>1, <3>1, <3>2
      <4>2. accepted' - sent' = 0
        BY <1>2, <2>3, <2>4, <2>6, <3>2, <4>1
      <4> QED
        BY <1>2, <2>3, <4>1, <4>2 DEF WriterInv, WriterTypeOK, Straight
    <3>3. CASE n # end
      <4>1. sent' = sent + n /\ start' = n /\ end' = end /\ buffer' = buffer /\ accepted' = accepted
        BY <1>1, <3>1, <3>3
      <4>2. accepted - (sent + n) = end - n /\ n <= end /\ end <= Len(buffer)
        BY <1>2, <2>3, <2>4, <2>6, <3>1
      <4>3. \A i \in n + 1 .. end : buffer[i] = (sent + n) + i - n
        BY <1>2, <2>3, <2>4, <2>6
      <4>4. Straight'
        BY <4>1, <4>2, <4>3 DEF Straight
      <4>5. WriterTypeOK'
        BY <1>2, <2>3, <4>1 DEF WriterTypeOK
      <4> QED
        BY <4>4, <4>5 DEF WriterInv
    <3> QED
      BY <3>2, <3>3
  <2> QED
    BY <1>2, <2>3, <2>5, <2>6
<1> QED
  BY <1>3, <1>4

LEMMA WriterInvHolds == WriterSpec => []WriterInv
<1>1. WriterInv /\ [WriterNext]_writerVars => WriterInv'
  <2> SUFFICES ASSUME WriterInv, [WriterNext]_writerVars PROVE WriterInv'
    OBVIOUS
  <2>1. CASE Poll
    <3>1. ~broken
      BY <2>1 DEF Poll
    <3> QED
      BY <2>1, <3>1, PollInv DEF WriterInv
  <2>2. ASSUME NEW z \in PacketSizes, WritePacket(z) PROVE WriterInv'
    <3>1. ~broken
      BY <2>2 DEF WritePacket
    <3> QED
      BY <2>2, <3>1, ReplaceInv, ExtendInv DEF WriterInv, WritePacket
  <2>3. CASE UNCHANGED writerVars
    BY <2>3 DEF writerVars, WriterInv, WriterTypeOK, Straight, Around
  <2> QED
    BY <2>1, <2>2, <2>3 DEF WriterNext
<1> QED
  BY <1>1, WriterInitInv, PTL DEF WriterSpec

\* What waits in the buffer of a stream is exactly what was accepted and not sent, in that
\* order, for every capacity and all sizes of packets (PacketWriter), until a packet is written
\* in one of the three ways that break the order.
THEOREM WriterInOrderHolds == WriterSpec => []WriterInOrder
<1>1. WriterInv => WriterInOrder
  <2> SUFFICES ASSUME WriterTypeOK, Straight \/ Around
               PROVE  Waits = [i \in 1 .. accepted - sent |-> sent + i]
    BY DEF WriterInv, WriterInOrder
  <2>2. /\ start \in Nat /\ end \in Nat /\ accepted \in Nat /\ sent \in Nat /\ Len(buffer) \in Nat
    BY DEF WriterTypeOK
  <2>3. CASE Straight
    <3> DEFINE q == SubSeq(buffer, start + 1, end)
    <3>1. Waits = q \o <<>>
      <4>1. ~ (start > end)
        BY <2>2, <2>3 DEF Straight
      <4>2. WritableParts = <<q, <<>>>>
        BY <4>1, Zenon DEF WritableParts
      <4> HIDE DEF q
      <4>3. WritableParts[1] = q /\ WritableParts[2] = <<>>
        BY <4>2
      <4> QED
        BY <4>3, Zenon DEF Waits
    <3>2. /\ q \in Seq(Nat) /\ Len(q) = end - start
          /\ \A i \in 1 .. end - start : q[i] = buffer[start + i]
      BY <2>2, <2>3, PartOfBuffer DEF Straight
    <3>3. /\ accepted - sent = end - start /\ start <= end
          /\ \A i \in start + 1 .. end : buffer[i] = sent + i - start
      BY <2>3 DEF Straight
    <3> HIDE DEF q
    <3>4. ASSUME NEW i \in 1 .. end - start PROVE q[i] = sent + i
      <4>1. start + i \in start + 1 .. end /\ i \in Nat
        BY <2>2, <3>3
      <4>2. q[i] = buffer[start + i] /\ buffer[start + i] = sent + (start + i) - start
        BY <3>2, <3>3, <4>1
      <4> QED
        BY <2>2, <4>1, <4>2
    <3>5. q = [i \in 1 .. end - start |-> sent + i]
      BY <2>2, <3>2, <3>3, <3>4
    <3>6. q \o <<>> = q
      BY <3>2, ConcatEmptySeq
    <3> QED
      BY <3>1, <3>3, <3>5, <3>6
  <2>4. CASE Around
    <3> DEFINE q == SubSeq(buffer, start + 1, Len(buffer))
               r == SubSeq(buffer, 0 + 1, end)
               k == Len(buffer) - start
               w == q \o r
    <3>1. Waits = w
      <4>1. start > end /\ 0 + 1 = 1
        BY <2>4 DEF Around
      <4>2. WritableParts = <<q, r>>
        BY <4>1, Zenon DEF WritableParts
      <4> HIDE DEF q, r
      <4>3. WritableParts[1] = q /\ WritableParts[2] = r
        BY <4>2
      <4> QED
        BY <4>3, Zenon DEF Waits
    <3>2. /\ q \in Seq(Nat) /\ Len(q) = k
          /\ \A i \in 1 .. k : q[i] = buffer[start + i]
      BY <2>2, <2>4, PartOfBuffer DEF Around
    <3>3. r \in Seq(Nat) /\ Len(r) = end /\ \A i \in 1 .. end : r[i] = buffer[i]
      <4>1. end <= Len(buffer) /\ 0 \in Nat /\ 0 <= end
        BY <2>2, <2>4 DEF Around
      <4>2. /\ SubSeq(buffer, 0 + 1, end) \in Seq(Nat)
            /\ Len(SubSeq(buffer, 0 + 1, end)) = IF 0 <= end THEN end - 0 ELSE 0
            /\ \A i \in 1 .. end - 0 : SubSeq(buffer, 0 + 1, end)[i] = buffer[0 + i]
        BY <2>2, <4>1, PartOfBuffer
      <4> QED
        BY <2>2, <4>2
    <3>4. /\ accepted - sent = k + end /\ k \in Nat
          /\ \A i \in start + 1 .. Len(buffer) : buffer[i] = sent + i - start
          /\ \A i \in 1 .. end : buffer[i] = sent + k + i
      BY <2>2, <2>4 DEF Around
    <3>5. Len(buffer) = start + k
      BY <2>2
    <3> HIDE DEF q, r, k
    <3>6. /\ w \in Seq(Nat) /\ Len(w) = Len(q) + Len(r)
          /\ \A i \in 1 .. Len(q) + Len(r) : w[i] = IF i <= Len(q) THEN q[i] ELSE r[i - Len(q)]
      <4>1. q \in Seq(Nat) /\ r \in Seq(Nat)
        BY <3>2, <3>3
      <4> QED
        BY <4>1, ConcatProperties
    <3> HIDE DEF w
    <3>7. Len(w) = k + end /\ \A i \in 1 .. k + end : w[i] = IF i <= k THEN q[i] ELSE r[i - k]
      BY <3>2, <3>3, <3>6
    <3>8. ASSUME NEW i \in 1 .. k + end PROVE w[i] = sent + i
      <4>1. CASE i <= k
        <5>1. i \in 1 .. k /\ start + i \in start + 1 .. Len(buffer) /\ i \in Nat
          BY <2>2, <3>4, <3>5, <4>1
        <5>2. w[i] = buffer[start + i] /\ buffer[start + i] = sent + (start + i) - start
          BY <3>2, <3>4, <3>7, <4>1, <5>1
        <5> QED
          BY <2>2, <5>1, <5>2
      <4>2. CASE ~ (i <= k)
        <5>1. i - k \in 1 .. end /\ i \in Nat
          BY <2>2, <3>4, <4>2
        <5>2. w[i] = buffer[i - k] /\ buffer[i - k] = sent + k + (i - k)
          BY <3>3, <3>4, <3>7, <4>2, <5>1
        <5> QED
          BY <2>2, <3>4, <5>1, <5>2
      <4> QED
        BY <4>1, <4>2
    <3>9. w = [i \in 1 .. k + end |-> sent + i]
      <4>1. w \in Seq(Nat) /\ Len(w) = k + end /\ k + end \in Nat
        <5>1. w \in Seq(Nat)
          BY <3>6
        <5>2. Len(w) = k + end
          BY <3>7
        <5>3. k + end \in Nat
          BY <2>2, <3>4
        <5> QED
          BY <5>1, <5>2, <5>3
      <4>2. w = [i \in 1 .. Len(w) |-> w[i]]
        BY <4>1
      <4> DEFINE m == k + end
      <4>a. Len(w) = m
        BY <4>1
      <4>3. w = [i \in 1 .. m |-> w[i]]
        BY <4>2, <4>a, Zenon
      <4>4. \A i \in 1 .. m : w[i] = sent + i
        BY <3>8
      <4> HIDE DEF m
      <4>5. w = [i \in 1 .. m |-> sent + i]
        BY <4>3, <4>4, Zenon
      <4> QED
        BY <4>5 DEF m
    <3> QED
      BY <3>1, <3>4, <3>9
  <2> QED
    BY <2>3, <2>4
<1> QED
  BY <1>1, WriterInvHolds, PTL

-----------------------------------------------------------------------------
(* What a client signs.  The runs take the actions and the vault one at a   *)
(* time; here their steps may alternate.                                    *)

StateSpec == StateInit /\ [][ActingNext \/ SavingNext]_stateVars

SaveRequests == [vault : Int, version : Int]

VaultTypeOK ==
    /\ vault \in Int /\ vault_version \in Int
    /\ saves \in Seq(SaveRequests) /\ saved \in SaveRequests

\* The numbers of the saves under way go up from the saved one to the next one to be used.
NumbersGoUp ==
    /\ saved.version < vault_version
    /\ \A i \in 1 .. Len(saves) : saved.version < saves[i].version /\ saves[i].version < vault_version
    /\ \A i, j \in 1 .. Len(saves) : i < j => saves[i].version < saves[j].version

\* The last state of the vault is to be sent, is in the last save under way, or is stored.
LastState ==
    \/ timeout
    \/ Len(saves) > 0 /\ saves[Len(saves)].vault = vault
    \/ Len(saves) = 0 /\ (lost \/ saved.vault = vault)

VaultInv == VaultTypeOK /\ (~raced => NumbersGoUp /\ LastState)

LEMMA VaultInitInv == StateInit => VaultInv
BY DEF StateInit, VaultInv, VaultTypeOK, NumbersGoUp, LastState, SaveRequests

LEMMA EditInv == VaultInv /\ Edit => VaultInv'
BY DEF VaultInv, Edit, VaultTypeOK, NumbersGoUp, LastState, actionVars

LEMMA SaveVaultInv == VaultInv /\ SaveVault => VaultInv'
<1> SUFFICES ASSUME VaultInv, SaveVault PROVE VaultInv'
  OBVIOUS
<1> DEFINE r == [vault |-> vault, version |-> vault_version]
<1>1. /\ saves' = Append(saves, r) /\ vault_version' = vault_version + 1
      /\ vault' = vault /\ saved' = saved /\ raced' = raced /\ saves \in Seq(SaveRequests)
      /\ vault \in Int /\ vault_version \in Int /\ saved \in SaveRequests
  BY DEF SaveVault, VaultNonce, VaultInv, VaultTypeOK
<1>2. r \in SaveRequests /\ r.version = vault_version /\ r.vault = vault
  BY <1>1 DEF SaveRequests
<1> HIDE DEF r
<1>3. /\ saves' \in Seq(SaveRequests) /\ Len(saves') = Len(saves) + 1 /\ Len(saves) \in Nat
      /\ \A i \in 1 .. Len(saves) : saves'[i] = saves[i]
      /\ saves'[Len(saves) + 1] = r
  BY <1>1, <1>2
<1>4. VaultTypeOK'
  BY <1>1, <1>3 DEF VaultTypeOK
<1>5. ASSUME ~raced PROVE NumbersGoUp' /\ LastState'
  <2>1. /\ saved.version < vault_version /\ saved.version \in Int
        /\ \A i \in 1 .. Len(saves) : /\ saves[i].version \in Int
                                      /\ saved.version < saves[i].version
                                      /\ saves[i].version < vault_version
    <3>1. saved.version \in Int /\ \A i \in 1 .. Len(saves) : saves[i].version \in Int
      <4>1. \A i \in 1 .. Len(saves) : saves[i] \in SaveRequests
        BY <1>1
      <4>2. \A x \in SaveRequests : x.version \in Int
        BY DEF SaveRequests
      <4> QED
        BY <1>1, <4>1, <4>2
    <3> QED
      BY <1>5, <3>1 DEF VaultInv, NumbersGoUp
  <2>2. \A i, j \in 1 .. Len(saves) : i < j => saves[i].version < saves[j].version
    BY <1>5 DEF VaultInv, NumbersGoUp
  <2>3. \A i \in 1 .. Len(saves') :
           saved.version < saves'[i].version /\ saves'[i].version < vault_version + 1
    BY <1>1, <1>2, <1>3, <2>1
  <2>4. \A i, j \in 1 .. Len(saves') : i < j => saves'[i].version < saves'[j].version
    <3> SUFFICES ASSUME NEW i \in 1 .. Len(saves'), NEW j \in 1 .. Len(saves'), i < j
                 PROVE  saves'[i].version < saves'[j].version
      OBVIOUS
    <3>1. CASE j = Len(saves) + 1
      BY <1>2, <1>3, <2>1, <3>1
    <3>2. CASE j # Len(saves) + 1
      BY <1>3, <2>2, <3>2
    <3> QED
      BY <3>1, <3>2
  <2>5. saved.version < vault_version + 1
    BY <1>1, <2>1
  <2>6. NumbersGoUp'
    BY <1>1, <2>3, <2>4, <2>5 DEF NumbersGoUp
  <2>7. Len(saves') > 0 /\ saves'[Len(saves')].vault = vault'
    BY <1>1, <1>2, <1>3
  <2> QED
    BY <2>6, <2>7 DEF LastState
<1> QED
  BY <1>1, <1>4, <1>5 DEF VaultInv

\* The first save leaves the line: what LoseVault and SetVault have in common.
LEMMA FirstSaveLeaves ==
    ASSUME VaultTypeOK, saves # <<>>, saves' = Tail(saves)
    PROVE  /\ saves' \in Seq(SaveRequests) /\ Len(saves') = Len(saves) - 1 /\ Len(saves) \in Nat
           /\ Len(saves) > 0 /\ Head(saves) = saves[1] /\ saves[1] \in SaveRequests
           /\ \A i \in 1 .. Len(saves') : saves'[i] = saves[i + 1]
BY DEF VaultTypeOK

LEMMA SetVaultInv == VaultInv /\ SetVault => VaultInv'
<1> SUFFICES ASSUME VaultInv, SetVault PROVE VaultInv'
  OBVIOUS
<1>1. VaultTypeOK /\ saves # <<>> /\ saves' = Tail(saves)
  BY DEF SetVault, VaultInv
<1>2. /\ saves' \in Seq(SaveRequests) /\ Len(saves') = Len(saves) - 1 /\ Len(saves) \in Nat
      /\ Len(saves) > 0 /\ Head(saves) = saves[1] /\ saves[1] \in SaveRequests
      /\ \A i \in 1 .. Len(saves') : saves'[i] = saves[i + 1]
  BY <1>1, FirstSaveLeaves
<1>3. /\ vault' = vault /\ timeout' = timeout /\ vault_version' = vault_version /\ raced' = raced
      /\ saved' = IF saves[1].version > saved.version THEN saves[1] ELSE saved
  BY <1>2 DEF SetVault
<1>4. VaultTypeOK'
  BY <1>1, <1>2, <1>3 DEF VaultTypeOK
<1>5. ASSUME ~raced PROVE NumbersGoUp' /\ LastState'
  <2>1. /\ saves[1].version \in Int /\ saved.version \in Int /\ vault_version \in Int
        /\ \A i \in 1 .. Len(saves) : saved.version < saves[i].version
                                      /\ saves[i].version < vault_version
    BY <1>1, <1>2, <1>5 DEF VaultInv, VaultTypeOK, NumbersGoUp, SaveRequests
  <2>2. \A i, j \in 1 .. Len(saves) : i < j => saves[i].version < saves[j].version
    BY <1>5 DEF VaultInv, NumbersGoUp
  <2>3. 1 \in 1 .. Len(saves) /\ saves[1].version > saved.version
    BY <1>2, <2>1
  <2>4. saved' = saves[1]
    BY <1>3, <2>3
  <2>5. \A i \in 1 .. Len(saves') : /\ saves[1].version < saves'[i].version
                                    /\ saves'[i].version < vault_version
    <3> SUFFICES ASSUME NEW i \in 1 .. Len(saves')
                 PROVE  saves[1].version < saves'[i].version /\ saves'[i].version < vault_version
      OBVIOUS
    <3>1. i + 1 \in 1 .. Len(saves) /\ 1 < i + 1 /\ saves'[i] = saves[i + 1]
      BY <1>2
    <3> QED
      BY <2>1, <2>2, <2>3, <3>1
  <2>6. \A i, j \in 1 .. Len(saves') : i < j => saves'[i].version < saves'[j].version
    <3> SUFFICES ASSUME NEW i \in 1 .. Len(saves'), NEW j \in 1 .. Len(saves'), i < j
                 PROVE  saves'[i].version < saves'[j].version
      OBVIOUS
    <3>1. i + 1 \in 1 .. Len(saves) /\ j + 1 \in 1 .. Len(saves) /\ i + 1 < j + 1
      BY <1>2
    <3> QED
      BY <1>2, <2>2, <3>1
  <2>7. NumbersGoUp'
    BY <1>3, <2>1, <2>3, <2>4, <2>5, <2>6 DEF NumbersGoUp
  <2>8. timeout \/ saves[Len(saves)].vault = vault
    BY <1>2, <1>5 DEF VaultInv, LastState
  <2>9. LastState'
    <3>1. CASE Len(saves') = 0
      <4>1. Len(saves) = 1
        BY <1>2, <3>1
      <4> QED
        BY <1>3, <2>4, <2>8, <3>1, <4>1 DEF LastState
    <3>2. CASE Len(saves') # 0
      <4>1. Len(saves') > 0 /\ Len(saves') \in 1 .. Len(saves') /\ Len(saves') + 1 = Len(saves)
        BY <1>2, <3>2
      <4>2. saves'[Len(saves')] = saves[Len(saves)]
        BY <1>2, <4>1
      <4> QED
        BY <1>3, <2>8, <4>1, <4>2 DEF LastState
    <3> QED
      BY <3>1, <3>2
  <2> QED
    BY <2>7, <2>9
<1> QED
  BY <1>3, <1>4, <1>5 DEF VaultInv

LEMMA LoseVaultInv == VaultInv /\ LoseVault => VaultInv'
<1> SUFFICES ASSUME VaultInv, LoseVault PROVE VaultInv'
  OBVIOUS
<1>1. VaultTypeOK /\ saves # <<>> /\ saves' = Tail(saves)
  BY DEF LoseVault, VaultInv
<1>2. /\ saves' \in Seq(SaveRequests) /\ Len(saves') = Len(saves) - 1 /\ Len(saves) \in Nat
      /\ Len(saves) > 0
      /\ \A i \in 1 .. Len(saves') : saves'[i] = saves[i + 1]
  BY <1>1, FirstSaveLeaves
<1>3. /\ vault' = vault /\ timeout' = timeout /\ vault_version' = vault_version /\ raced' = raced
      /\ saved' = saved /\ lost' = TRUE
  BY DEF LoseVault
<1>4. VaultTypeOK'
  BY <1>1, <1>2, <1>3 DEF VaultTypeOK
<1>5. ASSUME ~raced PROVE NumbersGoUp' /\ LastState'
  <2>1. /\ saved.version < vault_version
        /\ \A i \in 1 .. Len(saves) : saved.version < saves[i].version
                                      /\ saves[i].version < vault_version
    BY <1>5 DEF VaultInv, NumbersGoUp
  <2>2. \A i, j \in 1 .. Len(saves) : i < j => saves[i].version < saves[j].version
    BY <1>5 DEF VaultInv, NumbersGoUp
  <2>3. \A i \in 1 .. Len(saves') : i + 1 \in 1 .. Len(saves) /\ saves'[i] = saves[i + 1]
    BY <1>2
  <2>4. \A i, j \in 1 .. Len(saves') : i < j => i + 1 < j + 1
    BY <1>2
  <2>5. NumbersGoUp'
    BY <1>3, <2>1, <2>2, <2>3, <2>4 DEF NumbersGoUp
  <2>6. timeout \/ saves[Len(saves)].vault = vault
    BY <1>2, <1>5 DEF VaultInv, LastState
  <2>7. LastState'
    <3>1. CASE Len(saves') = 0
      BY <1>3, <3>1 DEF LastState
    <3>2. CASE Len(saves') # 0
      <4>1. Len(saves') > 0 /\ Len(saves') \in 1 .. Len(saves') /\ Len(saves') + 1 = Len(saves)
        BY <1>2, <3>2
      <4>2. saves'[Len(saves')] = saves[Len(saves)]
        BY <1>2, <4>1
      <4> QED
        BY <1>3, <2>6, <4>1, <4>2 DEF LastState
    <3> QED
      BY <3>1, <3>2
  <2> QED
    BY <2>5, <2>7
<1> QED
  BY <1>3, <1>4, <1>5 DEF VaultInv

LEMMA LogInVaultInv == VaultInv /\ LogIn => VaultInv'
<1> SUFFICES ASSUME VaultInv, LogIn PROVE VaultInv'
  OBVIOUS
<1>1. /\ vault' = saved.vault /\ vault_version' = saved.version + 1 /\ saves' = saves /\ saved' = saved
      /\ saves \in Seq(SaveRequests) /\ saved.vault \in Int /\ saved.version \in Int
      /\ saved \in SaveRequests
  BY DEF LogIn, VaultInv, VaultTypeOK, SaveRequests
<1>2. ~raced' => saves = <<>>
  BY Zenon DEF LogIn
<1>3. VaultTypeOK'
  BY <1>1 DEF VaultTypeOK
<1>4. ~raced' => NumbersGoUp' /\ LastState'
  BY <1>1, <1>2 DEF NumbersGoUp, LastState
<1> QED
  BY <1>3, <1>4 DEF VaultInv

\* The actions on a chat leave the vault alone.
LEMMA ActingVaultInv ==
    ASSUME VaultInv, UNCHANGED vaultVars PROVE VaultInv'
BY DEF vaultVars, VaultInv, VaultTypeOK, NumbersGoUp, LastState

LEMMA VaultInvHolds == StateSpec => []VaultInv
<1>1. VaultInv /\ [ActingNext \/ SavingNext]_stateVars => VaultInv'
  <2> SUFFICES ASSUME VaultInv, [ActingNext \/ SavingNext]_stateVars PROVE VaultInv'
    OBVIOUS
  <2>1. ASSUME NEW k \in Actions, NEW skip \in {0, 1}, Act(k, skip) PROVE VaultInv'
    BY <2>1, ActingVaultInv DEF Act
  <2>2. CASE Perform
    BY <2>2, ActingVaultInv DEF Perform
  <2>3. CASE ActElsewhere
    BY <2>3, ActingVaultInv DEF ActElsewhere
  <2>4. ASSUME NEW a \in answers, Answered(a) PROVE VaultInv'
    BY <2>4, ActingVaultInv DEF Answered
  <2>5. CASE UNCHANGED stateVars
    BY <2>5, ActingVaultInv DEF stateVars
  <2> QED
    BY <2>1, <2>2, <2>3, <2>4, <2>5, EditInv, SaveVaultInv, SetVaultInv, LoseVaultInv, LogInVaultInv
       DEF ActingNext, SavingNext
<1> QED
  BY <1>1, VaultInitInv, PTL DEF StateSpec

\* When the vault has been sent and nothing is under way, the server has its last state, however
\* many saves were under way at a time (save_vault and next_profile_proof), unless the last save
\* failed or a login raced with a save.
THEOREM VaultSavedHolds == StateSpec => []VaultSaved
<1>1. VaultInv => VaultSaved
  BY DEF VaultInv, VaultTypeOK, LastState, VaultSaved
<1> QED
  BY <1>1, VaultInvHolds, PTL

Requests == [act : Actions, nonce : Nat]
Replies  == [act : Actions, what : {"ok", "error", "invalid"}, nonce : Nat]
Stages   == {"new", "first", "second", "done", "refused", "stale", "gone"}

ActionTypeOK ==
    /\ action_no \in Nat /\ member_action \in Nat
    /\ action \in [Actions -> Stages] /\ effects \in [Actions -> Nat]
    /\ asked \in Seq(Requests) /\ answers \subseteq Replies
    /\ alone \subseteq Actions

\* An action has one request or one answer on its way, and none once it is over.
OneTry ==
    /\ \A i \in 1 .. Len(asked) : action[asked[i].act] \in {"first", "second", "gone"}
    /\ \A a \in answers : action[a.act] \in {"first", "second"}
    /\ \A i, j \in 1 .. Len(asked) : asked[i].act = asked[j].act => i = j
    /\ \A a, b \in answers : a.act = b.act => a = b
    /\ \A i \in 1 .. Len(asked), a \in answers : asked[i].act # a.act

OnItsWay(k) == action[k] \in {"first", "second"} \/ \E i \in 1 .. Len(asked) : asked[i].act = k

\* What is known of an action that no other one was concurrent with: the number it was refused
\* for is still the one the chat has, and its second try has a greater one.
Lone(k) ==
    /\ OnItsWay(k) => \A j \in Actions : OnItsWay(j) => j = k
    /\ action[k] # "stale"
    /\ action[k] = "done" => effects[k] = 1
    /\ action[k] = "new" => effects[k] = 0
    /\ \A i \in 1 .. Len(asked) : asked[i].act = k /\ action[k] # "gone" =>
          effects[k] = 0 /\ (action[k] = "second" => asked[i].nonce > member_action)
    /\ \A a \in answers : a.act = k =>
          /\ a.what = "ok" => effects[k] = 1
          /\ a.what = "invalid" => action[k] = "first" /\ effects[k] = 0 /\ a.nonce = member_action

AllLone == \A k \in alone : Lone(k)

ActionInv == ActionTypeOK /\ OneTry /\ AllLone

LEMMA UnderwayIs == ASSUME ActionTypeOK PROVE Underway = {k \in Actions : OnItsWay(k)}
<1>1. DOMAIN asked = 1 .. Len(asked)
  BY DEF ActionTypeOK
<1> QED
  BY <1>1 DEF Underway, OnItsWay

LEMMA ActionInitInv == StateInit => ActionInv
BY DEF StateInit, ActionInv, ActionTypeOK, OneTry, AllLone, Lone, OnItsWay, Stages

LEMMA ActsAreActions ==
    ASSUME ActionTypeOK
    PROVE  /\ \A i \in 1 .. Len(asked) : asked[i] \in Requests /\ asked[i].act \in Actions
                                         /\ asked[i].nonce \in Nat
           /\ \A a \in answers : a.act \in Actions /\ a.what \in {"ok", "error", "invalid"}
                                 /\ a.nonce \in Nat
<1>1. \A i \in 1 .. Len(asked) : asked[i] \in Requests
  BY DEF ActionTypeOK
<1>2. \A r \in Requests : r.act \in Actions /\ r.nonce \in Nat
  BY DEF Requests
<1>3. \A a \in Replies : a.act \in Actions /\ a.what \in {"ok", "error", "invalid"} /\ a.nonce \in Nat
  BY DEF Replies
<1> QED
  BY <1>1, <1>2, <1>3 DEF ActionTypeOK

\* A request goes to the end of the line.
LEMMA RequestAppended ==
    ASSUME ActionTypeOK, NEW r \in Requests, asked' = Append(asked, r)
    PROVE  /\ asked' \in Seq(Requests) /\ Len(asked') = Len(asked) + 1 /\ Len(asked) \in Nat
           /\ \A i \in 1 .. Len(asked) : asked'[i] = asked[i]
           /\ asked'[Len(asked) + 1] = r
BY DEF ActionTypeOK

\* An action that is not alone on its way, and of which nothing changes.
LEMMA LoneUntouched ==
    ASSUME ActionTypeOK, OneTry, NEW j \in Actions, Lone(j), ~OnItsWay(j), ~OnItsWay(j)',
           action'[j] = action[j], effects'[j] = effects[j],
           \A a \in answers' : a.act = j => a \in answers
    PROVE  Lone(j)'
<1>1. \A a \in answers : a.act # j
  BY DEF OneTry, OnItsWay
<1>2. \A i \in 1 .. Len(asked') : asked'[i].act # j
  BY DEF OnItsWay
<1> QED
  BY <1>1, <1>2 DEF Lone

LEMMA ActInv ==
    ASSUME ActionInv, NEW k \in Actions, NEW skip \in {0, 1}, Act(k, skip)
    PROVE  ActionInv'
<1> DEFINE nonce == NextNonce(action_no + skip, -1)
           r == [act |-> k, nonce |-> nonce]
<1>1. ActionTypeOK /\ OneTry /\ AllLone
  BY DEF ActionInv
<1>2. nonce \in Nat /\ nonce = action_no + skip
  BY <1>1 DEF NextNonce, ActionTypeOK
<1>3. /\ asked' = Append(asked, r) /\ action_no' = nonce + 1
      /\ action' = [action EXCEPT ![k] = "first"] /\ action[k] = "new"
      /\ answers' = answers /\ member_action' = member_action /\ effects' = effects
      /\ alone' = IF Underway = {} THEN alone ELSE alone \ (Underway \cup {k})
  BY DEF Act
<1>4. r \in Requests /\ r.act = k
  BY <1>2 DEF Requests
<1> HIDE DEF r, nonce
<1>5. /\ asked' \in Seq(Requests) /\ Len(asked') = Len(asked) + 1 /\ Len(asked) \in Nat
      /\ \A i \in 1 .. Len(asked) : asked'[i] = asked[i]
      /\ asked'[Len(asked) + 1] = r
  BY <1>1, <1>3, <1>4, RequestAppended
<1>6. ActionTypeOK'
  BY <1>1, <1>2, <1>3, <1>5 DEF ActionTypeOK, Stages
<1>7. /\ action'[k] = "first" /\ \A j \in Actions : j # k => action'[j] = action[j]
  BY <1>1, <1>3 DEF ActionTypeOK
<1>8. /\ \A i \in 1 .. Len(asked) : asked[i].act # k /\ asked[i].act \in Actions
      /\ \A a \in answers : a.act # k /\ a.act \in Actions
  BY <1>1, <1>3, ActsAreActions DEF OneTry
<1>9. \A i \in 1 .. Len(asked') : i = Len(asked) + 1 \/ i \in 1 .. Len(asked)
  BY <1>5
<1>10. OneTry'
  <2>1. \A i \in 1 .. Len(asked') : action'[asked'[i].act] \in {"first", "second", "gone"}
    BY <1>1, <1>4, <1>5, <1>7, <1>8, <1>9 DEF OneTry
  <2>2. \A a \in answers' : action'[a.act] \in {"first", "second"}
    BY <1>1, <1>3, <1>7, <1>8 DEF OneTry
  <2>3. \A i, j \in 1 .. Len(asked') : asked'[i].act = asked'[j].act => i = j
    BY <1>1, <1>4, <1>5, <1>8, <1>9 DEF OneTry
  <2>4. \A i \in 1 .. Len(asked'), a \in answers' : asked'[i].act # a.act
    BY <1>1, <1>3, <1>4, <1>5, <1>8, <1>9 DEF OneTry
  <2> QED
    BY <1>1, <1>3, <2>1, <2>2, <2>3, <2>4 DEF OneTry
<1>11. \A j \in Actions : OnItsWay(j)' => j = k \/ OnItsWay(j)
  BY <1>4, <1>5, <1>7, <1>9 DEF OnItsWay
<1>12. Underway = {j \in Actions : OnItsWay(j)}
  BY <1>1, UnderwayIs
<1>13. ASSUME NEW j \in alone' PROVE Lone(j)'
  <2>1. j \in alone /\ j \in Actions /\ Lone(j)
    BY <1>1, <1>3 DEF AllLone, ActionTypeOK
  <2>2. CASE j # k
    <3>1. ~OnItsWay(j) \/ Underway = {}
      BY <1>3, <1>12, <2>1
    <3>2. ~OnItsWay(j)
      BY <1>12, <2>1, <3>1
    <3>3. ~OnItsWay(j)'
      BY <1>11, <2>1, <2>2, <3>2
    <3> QED
      BY <1>1, <1>3, <1>7, <2>1, <2>2, <3>2, <3>3, LoneUntouched
  <2>3. CASE j = k
    <3>1. Underway = {}
      BY <1>3, <2>3
    <3>2. \A x \in Actions : OnItsWay(x)' => x = k
      BY <1>11, <1>12, <3>1
    <3>3. effects'[k] = 0
      BY <1>3, <2>1, <2>3 DEF Lone
    <3> QED
      BY <1>3, <1>7, <1>8, <2>3, <3>2, <3>3 DEF Lone
  <2> QED
    BY <2>2, <2>3
<1> QED
  BY <1>6, <1>10, <1>13 DEF ActionInv, AllLone

LEMMA PerformInv == ASSUME ActionInv, Perform PROVE ActionInv'
<1> DEFINE r == Head(asked)
           k == r.act
           reply(what, nonce) == [act |-> k, what |-> what, nonce |-> nonce]
<1>1. ActionTypeOK /\ OneTry /\ AllLone /\ asked # <<>>
  BY DEF ActionInv, Perform
<1>2. /\ asked' = Tail(asked) /\ action_no' = action_no /\ action' = action /\ alone' = alone
  BY DEF Perform
<1>3. /\ asked' \in Seq(Requests) /\ Len(asked') = Len(asked) - 1 /\ Len(asked) \in Nat
      /\ Len(asked) > 0 /\ r = asked[1] /\ 1 \in 1 .. Len(asked)
      /\ \A i \in 1 .. Len(asked') : i + 1 \in 1 .. Len(asked) /\ asked'[i] = asked[i + 1] /\ i + 1 # 1
  BY <1>1, <1>2 DEF ActionTypeOK
<1>4. k \in Actions /\ r.nonce \in Nat
  BY <1>1, <1>3, ActsAreActions
<1>5. \E what \in {"ok", "error", "invalid"}, nonce \in Nat :
        /\ answers' = IF action[k] = "gone" THEN answers ELSE answers \cup {reply(what, nonce)}
        /\ what = "invalid" => /\ nonce = member_action /\ member_action' = member_action
                               /\ r.nonce <= member_action
        /\ what # "invalid" => r.nonce > member_action /\ member_action' = r.nonce
        /\ effects' = IF what = "ok" THEN [effects EXCEPT ![k] = @ + 1] ELSE effects
  <2>1. CASE r.nonce > member_action
    <3>1. member_action' = r.nonce
      BY <2>1 DEF Perform
    <3>2. \/ /\ effects' = [effects EXCEPT ![k] = @ + 1]
             /\ answers' = IF action[k] = "gone" THEN answers ELSE answers \cup {reply("ok", 0)}
          \/ /\ effects' = effects
             /\ answers' = IF action[k] = "gone" THEN answers ELSE answers \cup {reply("error", 0)}
      BY <2>1, Zenon DEF Perform
    <3> HIDE DEF reply, k, r
    <3> QED
      BY <2>1, <3>1, <3>2
  <2>2. CASE ~ (r.nonce > member_action)
    <3>1. /\ answers' = IF action[k] = "gone" THEN answers
                        ELSE answers \cup {reply("invalid", member_action)}
          /\ member_action' = member_action /\ effects' = effects
      BY <2>2, Zenon DEF Perform
    <3>2. member_action \in Nat /\ r.nonce <= member_action
      BY <1>1, <1>4, <2>2 DEF ActionTypeOK
    <3> HIDE DEF reply, k, r
    <3> QED
      BY <3>1, <3>2
  <2> QED
    BY <2>1, <2>2
<1>6. PICK what \in {"ok", "error", "invalid"}, nonce \in Nat :
        /\ answers' = IF action[k] = "gone" THEN answers ELSE answers \cup {reply(what, nonce)}
        /\ what = "invalid" => /\ nonce = member_action /\ member_action' = member_action
                               /\ r.nonce <= member_action
        /\ what # "invalid" => r.nonce > member_action /\ member_action' = r.nonce
        /\ effects' = IF what = "ok" THEN [effects EXCEPT ![k] = @ + 1] ELSE effects
  BY <1>5
<1> DEFINE b == reply(what, nonce)
<1>7. b \in Replies /\ b.act = k /\ b.what = what /\ b.nonce = nonce
  BY <1>4 DEF Replies
<1> HIDE DEF reply, b, r
<1>8. \A a \in answers' : a \in answers \/ (a = b /\ action[k] # "gone")
  BY <1>6 DEF b
<1>9. /\ effects' \in [Actions -> Nat]
      /\ \A j \in Actions : j # k => effects'[j] = effects[j]
      /\ effects'[k] = IF what = "ok" THEN effects[k] + 1 ELSE effects[k]
  BY <1>1, <1>4, <1>6 DEF ActionTypeOK
<1>10. ActionTypeOK'
  BY <1>1, <1>2, <1>3, <1>4, <1>6, <1>7, <1>8, <1>9 DEF ActionTypeOK
<1>11. /\ action[k] \in {"first", "second", "gone"}
       /\ \A a \in answers : a.act # k
       /\ \A i \in 1 .. Len(asked') : asked'[i].act # k
  BY <1>1, <1>3 DEF OneTry
<1>12. OneTry'
  <2>1. \A i \in 1 .. Len(asked') : action'[asked'[i].act] \in {"first", "second", "gone"}
    BY <1>1, <1>2, <1>3 DEF OneTry
  <2>2. \A a \in answers' : action'[a.act] \in {"first", "second"}
    BY <1>1, <1>2, <1>7, <1>8, <1>11 DEF OneTry
  <2>3. \A i, j \in 1 .. Len(asked') : asked'[i].act = asked'[j].act => i = j
    <3> SUFFICES ASSUME NEW i \in 1 .. Len(asked'), NEW j \in 1 .. Len(asked'),
                        asked'[i].act = asked'[j].act
                 PROVE  i = j
      OBVIOUS
    <3>1. i + 1 = j + 1
      BY <1>1, <1>3 DEF OneTry
    <3> QED
      BY <1>3, <3>1
  <2>4. \A a, c \in answers' : a.act = c.act => a = c
    BY <1>1, <1>7, <1>8, <1>11 DEF OneTry
  <2>5. \A i \in 1 .. Len(asked'), a \in answers' : asked'[i].act # a.act
    BY <1>1, <1>3, <1>7, <1>8, <1>11 DEF OneTry
  <2> QED
    BY <2>1, <2>2, <2>3, <2>4, <2>5 DEF OneTry
<1>13. OnItsWay(k) /\ \A j \in Actions : OnItsWay(j)' => OnItsWay(j)
  BY <1>2, <1>3 DEF OnItsWay
<1>14. ASSUME NEW j \in alone' PROVE Lone(j)'
  <2>1. j \in alone /\ j \in Actions /\ Lone(j)
    BY <1>1, <1>2 DEF AllLone, ActionTypeOK
  <2>2. CASE j # k
    <3>1. ~OnItsWay(j)
      BY <1>4, <1>13, <2>1, <2>2 DEF Lone
    <3>2. ~OnItsWay(j)'
      BY <1>13, <2>1, <3>1
    <3>3. \A a \in answers' : a.act = j => a \in answers
      BY <1>7, <1>8, <2>2
    <3>4. action'[j] = action[j] /\ effects'[j] = effects[j]
      BY <1>2, <1>9, <2>1, <2>2
    <3> QED
      BY <1>1, <2>1, <3>1, <3>2, <3>3, <3>4, LoneUntouched
  <2>3. CASE j = k
    <3>1. \A x \in Actions : OnItsWay(x)' => x = k
      BY <1>13, <2>1, <2>3 DEF Lone
    <3>2. action'[k] \in {"first", "second", "gone"} /\ action'[k] = action[k]
      BY <1>2, <1>11
    <3>3. action[k] # "gone" => effects[k] = 0 /\ (action[k] = "second" => r.nonce > member_action)
      BY <1>3, <2>1, <2>3 DEF Lone
    <3>4. ASSUME NEW a \in answers', a.act = k
          PROVE  /\ a.what = "ok" => effects'[k] = 1
                 /\ a.what = "invalid" => /\ action'[k] = "first" /\ effects'[k] = 0
                                          /\ a.nonce = member_action'
      <4>1. a = b /\ action[k] # "gone"
        BY <1>8, <1>11, <3>4
      <4>2. effects[k] = 0 /\ (action[k] = "second" => r.nonce > member_action)
        BY <3>3, <4>1
      <4>3. a.what = "ok" => effects'[k] = 1
        BY <1>7, <1>9, <4>1, <4>2
      <4>4. ASSUME a.what = "invalid"
            PROVE  action'[k] = "first" /\ effects'[k] = 0 /\ a.nonce = member_action'
        <5>1. what = "invalid"
          BY <1>7, <4>1, <4>4
        <5>2. nonce = member_action /\ member_action' = member_action /\ r.nonce <= member_action
          BY <1>6, <5>1
        <5>3. action[k] # "second"
          BY <1>1, <1>4, <4>2, <5>2 DEF ActionTypeOK
        <5> QED
          BY <1>7, <1>9, <3>2, <4>1, <4>2, <5>1, <5>2, <5>3
      <4> QED
        BY <4>3, <4>4
    <3> HIDE DEF k
    <3> QED
      BY <1>11, <2>3, <3>1, <3>2, <3>4 DEF Lone
  <2> QED
    BY <2>2, <2>3
<1> QED
  BY <1>10, <1>12, <1>14 DEF ActionInv, AllLone

LEMMA ActElsewhereInv == ASSUME ActionInv, ActElsewhere PROVE ActionInv'
<1>1. ActionTypeOK /\ OneTry /\ AllLone
  BY DEF ActionInv
<1>2. /\ asked' = asked /\ answers' = answers /\ action' = action /\ effects' = effects
      /\ action_no' = action_no /\ member_action' = member_action + 1 /\ alone' = alone \ Underway
  BY DEF ActElsewhere
<1>3. ActionTypeOK'
  BY <1>1, <1>2 DEF ActionTypeOK
<1>a. OneTry'
  BY <1>1, <1>2 DEF OneTry
<1>4. ASSUME NEW j \in alone' PROVE Lone(j)'
  <2>1. j \in alone /\ j \in Actions /\ Lone(j) /\ ~OnItsWay(j)
    BY <1>1, <1>2, UnderwayIs DEF AllLone, ActionTypeOK
  <2>2. ~OnItsWay(j)'
    BY <1>2, <2>1 DEF OnItsWay
  <2> QED
    BY <1>1, <1>2, <2>1, <2>2, LoneUntouched
<1> QED
  BY <1>3, <1>a, <1>4 DEF ActionInv, AllLone

LEMMA AnsweredInv == ASSUME ActionInv, NEW a \in answers, Answered(a) PROVE ActionInv'
<1> DEFINE k == a.act
<1>1. ActionTypeOK /\ OneTry /\ AllLone
  BY DEF ActionInv
<1>2. /\ answers' = answers \ {a} /\ member_action' = member_action /\ effects' = effects
      /\ alone' = alone
  BY DEF Answered
<1>3. k \in Actions /\ a.what \in {"ok", "error", "invalid"} /\ a.nonce \in Nat
  BY <1>1, ActsAreActions
<1>4. /\ action[k] \in {"first", "second"}
      /\ \A b \in answers' : b \in answers /\ b.act # k
      /\ \A i \in 1 .. Len(asked) : asked[i].act # k
  BY <1>1, <1>2 DEF OneTry
<1>5. OnItsWay(k)
  BY <1>4 DEF OnItsWay
<1>6. ASSUME NEW j \in alone', j # k, ~OnItsWay(j) => ~OnItsWay(j)', action'[j] = action[j]
      PROVE  Lone(j)'
  <2>1. j \in alone /\ j \in Actions /\ Lone(j)
    BY <1>1, <1>2 DEF AllLone, ActionTypeOK
  <2>2. ~OnItsWay(j)
    BY <1>3, <1>5, <1>6, <2>1 DEF Lone
  <2> QED
    BY <1>1, <1>2, <1>6, <2>1, <2>2, LoneUntouched
<1>7. CASE Retries(a)
  <2> DEFINE nonce == NextNonce(action_no, a.nonce)
             r == [act |-> k, nonce |-> nonce]
  <2>1. /\ asked' = Append(asked, r) /\ action_no' = nonce + 1
        /\ action' = [action EXCEPT ![k] = "second"]
    BY <1>7, Zenon DEF Answered
  <2>2. nonce = a.nonce + 1 /\ nonce \in Nat
    BY <1>3 DEF NextNonce
  <2>3. r \in Requests /\ r.act = k /\ r.nonce = nonce
    BY <1>3, <2>2 DEF Requests
  <2> HIDE DEF r, nonce
  <2>4. /\ asked' \in Seq(Requests) /\ Len(asked') = Len(asked) + 1 /\ Len(asked) \in Nat
        /\ \A i \in 1 .. Len(asked) : asked'[i] = asked[i]
        /\ asked'[Len(asked) + 1] = r
    BY <1>1, <2>1, <2>3, RequestAppended
  <2>5. \A i \in 1 .. Len(asked') : i = Len(asked) + 1 \/ i \in 1 .. Len(asked)
    BY <2>4
  <2>6. ActionTypeOK'
    BY <1>1, <1>2, <1>3, <2>1, <2>2, <2>4 DEF ActionTypeOK, Stages
  <2>7. action'[k] = "second" /\ \A j \in Actions : j # k => action'[j] = action[j]
    BY <1>1, <1>3, <2>1 DEF ActionTypeOK
  <2>8. OneTry'
    <3>1. \A i \in 1 .. Len(asked') : action'[asked'[i].act] \in {"first", "second", "gone"}
      BY <1>1, <2>3, <2>4, <2>5, <2>7, ActsAreActions DEF OneTry
    <3>2. \A b \in answers' : action'[b.act] \in {"first", "second"}
      BY <1>1, <1>4, <2>7, ActsAreActions DEF OneTry
    <3>3. \A i, j \in 1 .. Len(asked') : asked'[i].act = asked'[j].act => i = j
      BY <1>1, <1>4, <2>3, <2>4, <2>5 DEF OneTry
    <3>4. \A i \in 1 .. Len(asked'), b \in answers' : asked'[i].act # b.act
      BY <1>1, <1>4, <2>3, <2>4, <2>5 DEF OneTry
    <3>5. \A b, c \in answers' : b.act = c.act => b = c
      BY <1>1, <1>4 DEF OneTry
    <3> QED
      BY <3>1, <3>2, <3>3, <3>4, <3>5 DEF OneTry
  <2>9. \A j \in Actions : OnItsWay(j)' => j = k \/ OnItsWay(j)
    BY <2>3, <2>4, <2>5, <2>7 DEF OnItsWay
  <2>10. ASSUME NEW j \in alone' PROVE Lone(j)'
    <3>1. j \in alone /\ j \in Actions /\ Lone(j)
      BY <1>1, <1>2 DEF AllLone, ActionTypeOK
    <3>2. CASE j # k
      BY <1>6, <2>7, <2>9, <3>1, <3>2
    <3>3. CASE j = k
      <4>1. a.what = "invalid" /\ action[k] = "first"
        BY <1>7 DEF Retries
      <4>2. effects'[k] = 0 /\ a.nonce = member_action'
        BY <1>2, <3>1, <3>3, <4>1 DEF Lone
      <4>3. \A i \in 1 .. Len(asked') : asked'[i].act = k => asked'[i].nonce > member_action'
        <5>1. r.nonce > member_action'
          BY <1>3, <2>2, <2>3, <4>2
        <5> QED
          BY <1>4, <2>4, <2>5, <5>1
      <4>4. \A x \in Actions : OnItsWay(x)' => x = k
        BY <1>5, <2>9, <3>1, <3>3 DEF Lone
      <4>5. \A b \in answers' : b.act # k
        BY <1>4
      <4> HIDE DEF k
      <4> QED
        BY <2>7, <3>3, <4>2, <4>3, <4>4, <4>5 DEF Lone
    <3> QED
      BY <3>2, <3>3
  <2> QED
    BY <2>6, <2>8, <2>10 DEF ActionInv, AllLone
<1>8. CASE ~Retries(a)
  <2> DEFINE stage == CASE a.what = "ok" -> "done" [] a.what = "error" -> "refused" [] OTHER -> "stale"
  <2>1. action' = [action EXCEPT ![k] = stage] /\ asked' = asked /\ action_no' = action_no
    BY <1>8, Zenon DEF Answered
  <2>2. /\ stage \in {"done", "refused", "stale"}
        /\ stage = "done" => a.what = "ok"
        /\ stage = "stale" => a.what = "invalid"
    BY <1>3
  <2> HIDE DEF stage
  <2>3. action'[k] = stage /\ \A j \in Actions : j # k => action'[j] = action[j]
    BY <1>1, <1>3, <2>1 DEF ActionTypeOK
  <2>4. ActionTypeOK'
    BY <1>1, <1>2, <1>3, <2>1, <2>2 DEF ActionTypeOK, Stages
  <2>5. OneTry'
    <3>1. \A i \in 1 .. Len(asked') : action'[asked'[i].act] \in {"first", "second", "gone"}
      BY <1>1, <1>4, <2>1, <2>3, ActsAreActions DEF OneTry
    <3>2. \A b \in answers' : action'[b.act] \in {"first", "second"}
      BY <1>1, <1>4, <2>3, ActsAreActions DEF OneTry
    <3> QED
      BY <1>1, <1>4, <2>1, <3>1, <3>2 DEF OneTry
  <2>6. \A j \in Actions : OnItsWay(j)' => OnItsWay(j)
    BY <2>1, <2>2, <2>3 DEF OnItsWay
  <2>7. ASSUME NEW j \in alone' PROVE Lone(j)'
    <3>1. j \in alone /\ j \in Actions /\ Lone(j)
      BY <1>1, <1>2 DEF AllLone, ActionTypeOK
    <3>2. CASE j # k
      BY <1>6, <2>3, <2>6, <3>1, <3>2
    <3>3. CASE j = k
      <4>1. a.what = "invalid" => action[k] = "first"
        BY <3>1, <3>3 DEF Lone
      <4>2. a.what # "invalid"
        BY <1>8, <4>1 DEF Retries
      <4>3. stage # "stale" /\ (stage = "done" => effects'[k] = 1)
        BY <1>2, <2>2, <3>1, <3>3, <4>2 DEF Lone
      <4>4. \A i \in 1 .. Len(asked') : asked'[i].act # k
        BY <1>4, <2>1
      <4>5. ~OnItsWay(k)'
        BY <2>2, <2>3, <4>4 DEF OnItsWay
      <4>6. \A b \in answers' : b.act # k
        BY <1>4
      <4> HIDE DEF k
      <4> QED
        BY <2>2, <2>3, <3>3, <4>3, <4>4, <4>5, <4>6 DEF Lone
    <3> QED
      BY <3>2, <3>3
  <2> QED
    BY <2>4, <2>5, <2>7 DEF ActionInv, AllLone
<1> QED
  BY <1>7, <1>8

LEMMA LogInActionInv == ASSUME ActionInv, LogIn PROVE ActionInv'
<1>1. ActionTypeOK /\ OneTry /\ AllLone
  BY DEF ActionInv
<1>2. /\ action_no' = 0 /\ answers' = {} /\ asked' = asked /\ member_action' = member_action
      /\ effects' = effects /\ alone' = alone
      /\ action' = [k \in Actions |-> IF action[k] \in {"first", "second"} THEN "gone" ELSE action[k]]
  BY DEF LogIn
<1>3. ActionTypeOK'
  BY <1>1, <1>2 DEF ActionTypeOK, Stages
<1>4. \A k \in Actions :
         action'[k] = IF action[k] \in {"first", "second"} THEN "gone" ELSE action[k]
  BY <1>2
<1>5. OneTry'
  <2>1. \A i \in 1 .. Len(asked') : action'[asked'[i].act] \in {"first", "second", "gone"}
    BY <1>1, <1>2, <1>4, ActsAreActions DEF OneTry
  <2> QED
    BY <1>1, <1>2, <2>1 DEF OneTry
<1>6. \A k \in Actions : OnItsWay(k)' => OnItsWay(k)
  BY <1>2, <1>4 DEF OnItsWay
<1>7. ASSUME NEW k \in alone' PROVE Lone(k)'
  <2>1. k \in Actions /\ Lone(k)
    BY <1>1, <1>2 DEF AllLone, ActionTypeOK
  <2>2. OnItsWay(k)' => \A j \in Actions : OnItsWay(j)' => j = k
    BY <1>6, <2>1 DEF Lone
  <2>3. ASSUME NEW i \in 1 .. Len(asked'), asked'[i].act = k PROVE action'[k] = "gone"
    BY <1>1, <1>2, <1>4, <2>1, <2>3 DEF OneTry
  <2>4. /\ action'[k] # "stale"
        /\ action'[k] = "done" => effects'[k] = 1
        /\ action'[k] = "new" => effects'[k] = 0
    BY <1>2, <1>4, <2>1 DEF Lone
  <2> QED
    BY <1>2, <2>2, <2>3, <2>4 DEF Lone
<1> QED
  BY <1>3, <1>5, <1>7 DEF ActionInv, AllLone

\* The vault's steps leave the actions alone.
LEMMA SavingActionInv == ASSUME ActionInv, UNCHANGED actionVars PROVE ActionInv'
<1>1. /\ action_no' = action_no /\ action' = action /\ asked' = asked /\ answers' = answers
      /\ member_action' = member_action /\ effects' = effects /\ alone' = alone
  BY DEF actionVars
<1>2. ActionTypeOK' /\ OneTry'
  BY <1>1 DEF ActionInv, ActionTypeOK, OneTry
<1>3. AllLone'
  BY <1>1 DEF ActionInv, AllLone, Lone, OnItsWay
<1> QED
  BY <1>2, <1>3 DEF ActionInv

LEMMA ActionInvHolds == StateSpec => []ActionInv
<1>1. ActionInv /\ [ActingNext \/ SavingNext]_stateVars => ActionInv'
  <2> SUFFICES ASSUME ActionInv, [ActingNext \/ SavingNext]_stateVars PROVE ActionInv'
    OBVIOUS
  <2>1. CASE Edit
    BY <2>1, SavingActionInv DEF Edit
  <2>2. CASE SaveVault
    BY <2>2, SavingActionInv DEF SaveVault
  <2>3. CASE SetVault
    BY <2>3, SavingActionInv DEF SetVault
  <2>4. CASE LoseVault
    BY <2>4, SavingActionInv DEF LoseVault
  <2>5. CASE UNCHANGED stateVars
    BY <2>5, SavingActionInv DEF stateVars
  <2> QED
    BY <2>1, <2>2, <2>3, <2>4, <2>5, ActInv, PerformInv, ActElsewhereInv, AnsweredInv, LogInActionInv
       DEF ActingNext, SavingNext
<1> QED
  BY <1>1, ActionInitInv, PTL DEF StateSpec

\* An action no other one of the user was concurrent with is not lost for its number, and is
\* taken once when it is answered with success (dispatch_chat_action), for any number of
\* actions, other clients and logins before it.
THEOREM LoneActionTakenHolds == StateSpec => []LoneActionTaken
<1>1. ActionInv => LoneActionTaken
  BY DEF ActionInv, AllLone, Lone, LoneActionTaken
<1> QED
  BY <1>1, ActionInvHolds, PTL

-----------------------------------------------------------------------------
(* Reading a chat page by page.                                             *)

ReadingSpec == ReadingInit /\ [][ReadingNext]_readingVars

\* How many blocks wait for votes.
Voted == IF proposed = <<>> THEN 0 ELSE 1

CopyTypeOK ==
    /\ block_number \in Nat /\ arrived \in Nat /\ altered \in BOOLEAN
    /\ current_block \in Seq(Nat) /\ proposed \in Seq(Nat)
    /\ finalized \in Seq(Seq(Nat)) /\ kept \in Seq(Seq(Nat)) /\ Len(kept) = block_number
    /\ proposed # <<>> => recovering = "no"

\* As long as nothing was dropped or replaced, the list is that of the closed blocks, newest
\* first, without the oldest ones.
InStep ==
    /\ block_number > 0 => current_block # <<>>
    /\ proposed # <<>> => block_number > 0 /\ proposed = kept[block_number]
    /\ Len(finalized) + Voted <= block_number
    /\ \A i \in 1 .. Len(finalized) : finalized[i] = kept[block_number - Voted - i + 1]

CopyInv == CopyTypeOK /\ (~altered => InStep)

\* A reading is within the block it began with, and has what lies between there and the cursor.
Places == [block : Nat, offset : Nat]
Within ==
    /\ begun \in Places /\ cursor \in Places
    /\ cursor.block = begun.block /\ begun.block <= block_number
    /\ cursor.offset <= begun.offset /\ begun.offset <= Len(BlockOf(begun.block))
    /\ read = Reverse(SubSeq(BlockOf(begun.block), cursor.offset + 1, begun.offset))

ReadingInv == CopyInv /\ (begun # INIT /\ ~altered => Within)

LEMMA WithoutLast ==
    ASSUME NEW s \in Seq(Seq(Nat))
    PROVE  /\ Front(s) \in Seq(Seq(Nat)) /\ Len(Front(s)) \in 0 .. Len(s)
           /\ \A i \in 1 .. Len(Front(s)) : Front(s)[i] = s[i]
<1>1. Len(s) \in Nat
  BY LenProperties
<1> DEFINE n == Len(s) - 1
<1>2. Front(s) = SubSeq(s, 1, n) /\ n \in Int /\ 1 \in Int
  BY <1>1 DEF Front
<1>3. n <= Len(s)
  BY <1>1
<1>4. CASE n < 1
  <2> HIDE DEF n
  <2>1. SubSeq(s, 1, n) = <<>>
    BY <1>2, <1>4, SubSeqEmpty
  <2>2. Front(s) = <<>>
    BY <1>2, <2>1
  <2>3. Len(Front(s)) = 0 /\ Front(s) \in Seq(Seq(Nat))
    BY <2>2, EmptySeq
  <2> QED
    BY <1>1, <2>3
<1>5. CASE n >= 1
  <2> HIDE DEF n
  <2>1. \A i \in 1 .. n : s[i] \in Seq(Nat)
    BY <1>1, <1>2, <1>3
  <2>2. /\ SubSeq(s, 1, n) \in Seq(Seq(Nat))
        /\ Len(SubSeq(s, 1, n)) = n
        /\ \A i \in 1 .. n : SubSeq(s, 1, n)[i] = s[i]
    BY <1>1, <1>2, <1>3, <1>5, <2>1
  <2> QED
    BY <1>1, <1>2, <1>3, <1>5, <2>2
<1> QED
  BY <1>2, <1>4, <1>5

LEMMA PushFacts ==
    ASSUME finalized \in Seq(Seq(Nat)), NEW b \in Seq(Nat)
    PROVE  /\ PushToHistory(b) \in Seq(Seq(Nat))
           /\ Len(PushToHistory(b)) \in 1 .. Len(finalized) + 1
           /\ PushToHistory(b)[1] = b
           /\ \A i \in 2 .. Len(PushToHistory(b)) : PushToHistory(b)[i] = finalized[i - 1]
<1> DEFINE f == IF Len(finalized) = BlockHistory THEN Front(finalized) ELSE finalized
<1>1. /\ f \in Seq(Seq(Nat)) /\ Len(f) \in 0 .. Len(finalized)
      /\ \A i \in 1 .. Len(f) : f[i] = finalized[i]
  BY WithoutLast
<1>2. PushToHistory(b) = <<b>> \o f
  BY DEF PushToHistory
<1> HIDE DEF f
<1>3. <<b>> \in Seq(Seq(Nat)) /\ Len(<<b>>) = 1 /\ <<b>>[1] = b
  OBVIOUS
<1>4. /\ <<b>> \o f \in Seq(Seq(Nat)) /\ Len(<<b>> \o f) = 1 + Len(f)
      /\ (<<b>> \o f)[1] = b
      /\ \A i \in 2 .. 1 + Len(f) : (<<b>> \o f)[i] = f[i - 1]
  BY <1>1, <1>3
<1> QED
  BY <1>1, <1>2, <1>4

\* What is read backwards from y to x.
LEMMA Backwards ==
    ASSUME NEW b \in Seq(Nat), NEW x \in Nat, NEW y \in Nat, x <= y, y <= Len(b)
    PROVE  /\ Reverse(SubSeq(b, x + 1, y)) \in Seq(Nat)
           /\ Len(Reverse(SubSeq(b, x + 1, y))) = y - x
           /\ \A i \in 1 .. y - x : Reverse(SubSeq(b, x + 1, y))[i] = b[y - i + 1]
<1> DEFINE s == SubSeq(b, x + 1, y)
<1>1. s \in Seq(Nat) /\ Len(s) = y - x /\ \A i \in 1 .. y - x : s[i] = b[x + i]
  <2>1. PICK m \in {x + 1} : TRUE
    OBVIOUS
  <2>2. m \in Int /\ y \in Int /\ \A i \in m .. y : b[i] \in Nat
    BY <2>1
  <2> DEFINE w == SubSeq(b, m, y)
  <2>3. /\ w \in Seq(Nat) /\ Len(w) = IF m <= y THEN y - m + 1 ELSE 0
        /\ \A i \in 1 .. y - m + 1 : w[i] = b[m + i - 1]
    BY <2>2, SubSeqProperties
  <2>4. s = w
    BY <2>1
  <2> HIDE DEF s, w
  <2>5. Len(w) = y - x /\ y - m + 1 = y - x
    BY <2>1, <2>3
  <2>6. ASSUME NEW i \in 1 .. y - x PROVE w[i] = b[x + i]
    <3>1. m + i - 1 = x + i
      BY <2>1
    <3> QED
      BY <2>3, <2>5, <3>1
  <2> QED
    BY <2>3, <2>4, <2>5, <2>6
<1> HIDE DEF s
<1>2. Reverse(s) = [i \in 1 .. y - x |-> s[(y - x - i) + 1]]
  BY <1>1 DEF Reverse
<1>3. \A i \in 1 .. y - x : (y - x - i) + 1 \in 1 .. y - x
  OBVIOUS
<1>4. \A i \in 1 .. y - x : s[(y - x - i) + 1] = b[y - i + 1] /\ s[(y - x - i) + 1] \in Nat
  <2> TAKE i \in 1 .. y - x
  <2>1. PICK k \in 1 .. y - x : k = (y - x - i) + 1
    BY <1>3
  <2>2. s[k] = b[x + k] /\ s[k] \in Nat
    BY <1>1
  <2>3. x + k = y - i + 1
    BY <2>1
  <2> QED
    BY <2>1, <2>2, <2>3
<1>5. Reverse(s) \in Seq(Nat) /\ Len(Reverse(s)) = y - x
  BY <1>2, <1>4
<1>6. \A i \in 1 .. y - x : Reverse(s)[i] = b[y - i + 1]
  BY <1>2, <1>4
<1> QED
  BY <1>5, <1>6 DEF s

\* Two pages that follow each other.
LEMMA PagesJoin ==
    ASSUME NEW b \in Seq(Nat), NEW x \in Nat, NEW y \in Nat, NEW z \in Nat,
           x <= y, y <= z, z <= Len(b)
    PROVE  Reverse(SubSeq(b, y + 1, z)) \o Reverse(SubSeq(b, x + 1, y))
             = Reverse(SubSeq(b, x + 1, z))
<1> DEFINE s == Reverse(SubSeq(b, y + 1, z))
           t == Reverse(SubSeq(b, x + 1, y))
           u == Reverse(SubSeq(b, x + 1, z))
<1>1. /\ s \in Seq(Nat) /\ Len(s) = z - y /\ \A i \in 1 .. z - y : s[i] = b[z - i + 1]
      /\ t \in Seq(Nat) /\ Len(t) = y - x /\ \A i \in 1 .. y - x : t[i] = b[y - i + 1]
      /\ u \in Seq(Nat) /\ Len(u) = z - x /\ \A i \in 1 .. z - x : u[i] = b[z - i + 1]
  <2>1. s \in Seq(Nat) /\ Len(s) = z - y /\ \A i \in 1 .. z - y : s[i] = b[z - i + 1]
    BY Backwards
  <2>2. t \in Seq(Nat) /\ Len(t) = y - x /\ \A i \in 1 .. y - x : t[i] = b[y - i + 1]
    <3>1. y <= Len(b)
      OBVIOUS
    <3> QED
      BY <3>1, Backwards
  <2>3. u \in Seq(Nat) /\ Len(u) = z - x /\ \A i \in 1 .. z - x : u[i] = b[z - i + 1]
    <3>1. x <= z
      OBVIOUS
    <3> QED
      BY <3>1, Backwards
  <2> QED
    BY <2>1, <2>2, <2>3
<1> HIDE DEF s, t, u
<1>2. /\ s \o t \in Seq(Nat) /\ Len(s \o t) = (z - y) + (y - x)
      /\ \A i \in 1 .. (z - y) + (y - x) :
            (s \o t)[i] = IF i <= z - y THEN s[i] ELSE t[i - (z - y)]
  <2> DEFINE w == s \o t
  <2>1. /\ w \in Seq(Nat) /\ Len(w) = Len(s) + Len(t)
        /\ \A i \in 1 .. Len(s) + Len(t) : w[i] = IF i <= Len(s) THEN s[i] ELSE t[i - Len(s)]
    BY <1>1, ConcatProperties
  <2> HIDE DEF w
  <2>2. /\ w \in Seq(Nat) /\ Len(w) = (z - y) + (y - x)
        /\ \A i \in 1 .. (z - y) + (y - x) : w[i] = IF i <= z - y THEN s[i] ELSE t[i - (z - y)]
    BY <1>1, <2>1
  <2> QED
    BY <2>2 DEF w
<1>3. ASSUME NEW i \in 1 .. z - x PROVE (s \o t)[i] = u[i]
  <2>1. CASE i <= z - y
    BY <1>1, <1>2, <2>1
  <2>2. CASE i > z - y
    <3>1. PICK k \in 1 .. y - x : k = i - (z - y)
      BY <2>2
    <3>0. i \in 1 .. (z - y) + (y - x) /\ ~(i <= z - y)
      BY <2>2
    <3>2. (s \o t)[i] = t[k]
      BY <1>2, <3>0, <3>1
    <3>3. t[k] = b[y - k + 1]
      BY <1>1
    <3>4. y - k + 1 = z - i + 1
      BY <3>1
    <3>5. u[i] = b[z - i + 1]
      BY <1>1
    <3> QED
      BY <3>2, <3>3, <3>4, <3>5
  <2>3. i <= z - y \/ i > z - y
    OBVIOUS
  <2> QED
    BY <2>1, <2>2, <2>3
<1>4. s \o t = u
  <2>1. Len(s \o t) = z - x /\ Len(u) = z - x /\ s \o t \in Seq(Nat) /\ u \in Seq(Nat)
    BY <1>1, <1>2
  <2>2. \A i \in 1 .. Len(s \o t) : (s \o t)[i] = u[i]
    BY <1>3, <2>1
  <2> QED
    BY <2>1, <2>2, SeqEqual
<1> QED
  BY <1>4 DEF s, t, u

\* What was read of a block stays what was read when the block grows.
LEMMA ReadOfLonger ==
    ASSUME NEW b \in Seq(Nat), NEW c \in Seq(Nat), NEW x \in Nat, NEW y \in Nat,
           x <= y, y <= Len(b), y <= Len(c), \A i \in 1 .. y : b[i] = c[i]
    PROVE  Reverse(SubSeq(b, x + 1, y)) = Reverse(SubSeq(c, x + 1, y))
<1> DEFINE s == Reverse(SubSeq(b, x + 1, y))
           t == Reverse(SubSeq(c, x + 1, y))
<1>1. s \in Seq(Nat) /\ Len(s) = y - x /\ \A i \in 1 .. y - x : s[i] = b[y - i + 1]
  BY Backwards
<1>2. t \in Seq(Nat) /\ Len(t) = y - x /\ \A i \in 1 .. y - x : t[i] = c[y - i + 1]
  BY Backwards
<1> HIDE DEF s, t
<1>3. ASSUME NEW i \in 1 .. y - x PROVE s[i] = t[i]
  <2>1. y - i + 1 \in 1 .. y
    OBVIOUS
  <2> QED
    BY <1>1, <1>2, <2>1
<1>4. s = t
  BY <1>1, <1>2, <1>3, SeqEqual
<1> QED
  BY <1>4 DEF s, t

\* The list of the blocks, by their numbers.
LEMMA BlockAt ==
    ASSUME CopyTypeOK, InStep, NEW n \in Nat, n <= block_number, block_number - n < Len(Blocks)
    PROVE  Blocks[block_number - n + 1] = BlockOf(n)
<1> DEFINE p == IF proposed = <<>> THEN <<>> ELSE <<proposed>>
<1> USE DEF CopyTypeOK
<1>1. p \in Seq(Seq(Nat)) /\ Len(p) = Voted /\ (proposed # <<>> => p[1] = proposed)
  BY DEF Voted
<1>2. <<current_block>> \in Seq(Seq(Nat)) /\ Len(<<current_block>>) = 1
      /\ <<current_block>>[1] = current_block
  OBVIOUS
<1>3. Blocks = <<current_block>> \o p \o finalized /\ Voted \in {0, 1}
  BY DEF Blocks, Voted
<1> HIDE DEF p
<1> DEFINE q == <<current_block>> \o p
<1>4. /\ q \in Seq(Seq(Nat)) /\ Len(q) = 1 + Voted /\ q[1] = current_block
      /\ proposed # <<>> => q[2] = proposed
  <2>1. /\ q \in Seq(Seq(Nat)) /\ Len(q) = 1 + Voted
        /\ \A i \in 1 .. 1 + Voted : q[i] = IF i <= 1 THEN <<current_block>>[i] ELSE p[i - 1]
    BY <1>1, <1>2, ConcatProperties
  <2>2. q[1] = current_block
    BY <1>2, <1>3, <2>1
  <2>3. ASSUME proposed # <<>> PROVE q[2] = proposed
    <3>1. Voted = 1
      BY <2>3 DEF Voted
    <3> QED
      BY <1>1, <2>1, <2>3, <3>1
  <2> QED
    BY <2>1, <2>2, <2>3
<1> HIDE DEF q
<1>5. Blocks = q \o finalized
  BY <1>3 DEF q
<1> DEFINE w == q \o finalized
<1>6. /\ Len(w) = 1 + Voted + Len(finalized)
      /\ \A i \in 1 .. 1 + Voted + Len(finalized) :
            w[i] = IF i <= 1 + Voted THEN q[i] ELSE finalized[i - (1 + Voted)]
  <2>1. finalized \in Seq(Seq(Nat))
    OBVIOUS
  <2>2. /\ Len(w) = Len(q) + Len(finalized)
        /\ \A i \in 1 .. Len(q) + Len(finalized) :
              w[i] = IF i <= Len(q) THEN q[i] ELSE finalized[i - Len(q)]
    BY <1>4, <2>1, ConcatProperties
  <2> HIDE DEF w
  <2> QED
    BY <1>4, <2>2
<1> HIDE DEF w
<1> DEFINE j == block_number - n
<1>7. j \in Nat /\ block_number \in Nat /\ n = block_number - j
  OBVIOUS
<1>0. Blocks[block_number - n + 1] = w[j + 1] /\ j < Len(w)
  BY <1>5 DEF w
<1> HIDE DEF j
<1>8. Len(finalized) \in Nat /\ j + 1 \in 1 .. 1 + Voted + Len(finalized)
  <2>1. Len(finalized) \in Nat
    BY LenProperties
  <2> QED
    BY <1>0, <1>3, <1>6, <1>7, <2>1
<1>9. w[j + 1] = BlockOf(n)
  <2>1. CASE j = 0
    <3>1. n = block_number /\ w[1] = q[1]
      BY <1>3, <1>6, <1>7, <1>8, <2>1
    <3> QED
      BY <1>4, <2>1, <3>1 DEF BlockOf
  <2>2. CASE j = 1 /\ Voted = 1
    <3>1. proposed # <<>>
      BY <2>2 DEF Voted
    <3>2. proposed = kept[block_number]
      BY <3>1 DEF InStep
    <3>3. n < block_number /\ n + 1 = block_number
      BY <1>7, <2>2
    <3>4. w[2] = q[2]
      BY <1>6, <1>8, <2>2
    <3> QED
      BY <1>4, <2>2, <3>1, <3>2, <3>3, <3>4 DEF BlockOf
  <2>3. CASE j > Voted
    <3>1. PICK i \in 1 .. Len(finalized) : i = j - Voted
      BY <1>3, <1>7, <1>8, <2>3
    <3>0. ~(j + 1 <= 1 + Voted) /\ (j + 1) - (1 + Voted) = i
      BY <1>3, <1>7, <2>3, <3>1
    <3>2. w[j + 1] = finalized[i]
      BY <1>6, <1>8, <3>0
    <3>3. finalized[i] = kept[block_number - Voted - i + 1]
      BY DEF InStep
    <3>4. n < block_number /\ block_number - Voted - i + 1 = n + 1
      BY <1>3, <1>7, <2>3, <3>1
    <3> QED
      BY <3>2, <3>3, <3>4 DEF BlockOf
  <2>4. j = 0 \/ (j = 1 /\ Voted = 1) \/ j > Voted
    BY <1>3, <1>7
  <2> QED
    BY <2>1, <2>2, <2>3, <2>4
<1> QED
  BY <1>0, <1>9

LEMMA BlockOfType ==
    ASSUME CopyTypeOK, NEW n \in Nat
    PROVE  BlockOf(n) \in Seq(Nat)
<1>1. CASE n < block_number
  <2>1. n + 1 \in 1 .. Len(kept)
    BY <1>1 DEF CopyTypeOK
  <2>2. kept[n + 1] \in Seq(Nat)
    BY <2>1 DEF CopyTypeOK
  <2> QED
    BY <1>1, <2>2 DEF BlockOf
<1>2. CASE ~(n < block_number)
  BY <1>2 DEF BlockOf, CopyTypeOK
<1> QED
  BY <1>1, <1>2

\* A copy that goes on from the block a reading is in leaves the reading as it is.
LEMMA WithinKept ==
    ASSUME CopyTypeOK, CopyTypeOK', Within, UNCHANGED reader, block_number <= block_number',
           \A n \in 0 .. block_number :
              /\ Len(BlockOf(n)) <= Len(BlockOf(n)')
              /\ \A i \in 1 .. Len(BlockOf(n)) : BlockOf(n)[i] = BlockOf(n)'[i]
    PROVE  Within'
<1>1. PICK n \in {begun.block} : TRUE
  OBVIOUS
<1>2. PICK x \in {cursor.offset} : TRUE
  OBVIOUS
<1>3. PICK y \in {begun.offset} : TRUE
  OBVIOUS
<1>4. /\ n \in Nat /\ x \in Nat /\ y \in Nat /\ n <= block_number /\ x <= y
      /\ y <= Len(BlockOf(n)) /\ block_number \in Nat /\ block_number' \in Nat
      /\ read = Reverse(SubSeq(BlockOf(n), x + 1, y))
  BY DEF Within, Places, CopyTypeOK
<1>5. PICK b \in {BlockOf(n)} : TRUE
  OBVIOUS
<1>6. PICK c \in {BlockOf(n)'} : TRUE
  OBVIOUS
<1>7. b \in Seq(Nat)
  BY <1>4, <1>5, BlockOfType
<1>8. c \in Seq(Nat)
  <2>1. CASE n < block_number'
    <3>0. kept' \in Seq(Seq(Nat)) /\ Len(kept') = block_number'
      BY DEF CopyTypeOK
    <3>1. n + 1 \in 1 .. block_number'
      BY <1>4, <2>1
    <3>2. kept'[n + 1] \in Seq(Nat)
      BY <3>0, <3>1
    <3> QED
      BY <1>6, <2>1, <3>2 DEF BlockOf
  <2>2. CASE ~(n < block_number')
    BY <1>6, <2>2 DEF BlockOf, CopyTypeOK
  <2> QED
    BY <2>1, <2>2
<1>9. n \in 0 .. block_number
  BY <1>4
<1>10. Len(b) <= Len(c) /\ \A i \in 1 .. Len(b) : b[i] = c[i]
  BY <1>5, <1>6, <1>9
<1>11. y <= Len(b) /\ Len(b) \in Nat /\ Len(c) \in Nat
  BY <1>4, <1>5, <1>7, <1>8, LenProperties
<1>12. y <= Len(c) /\ \A i \in 1 .. y : b[i] = c[i]
  <2>1. y <= Len(c) /\ \A i \in 1 .. y : i \in 1 .. Len(b)
    BY <1>4, <1>10, <1>11
  <2> QED
    BY <1>10, <2>1
<1>13. Reverse(SubSeq(b, x + 1, y)) = Reverse(SubSeq(c, x + 1, y))
  <2>1. x \in Nat /\ y \in Nat /\ x <= y
    BY <1>4
  <2> QED
    BY ONLY <1>7, <1>8, <1>11, <1>12, <2>1, ReadOfLonger, ZenonT(30)
<1>14. read' = Reverse(SubSeq(BlockOf(n)', x + 1, y)) /\ y <= Len(BlockOf(n)')
  BY <1>4, <1>5, <1>6, <1>12, <1>13 DEF reader
<1>15. n <= block_number'
  BY <1>4
<1>16. begun' = begun /\ cursor' = cursor
  BY DEF reader
<1>17. BlockOf(begun.block)' = BlockOf(n)'
  BY <1>1, <1>16 DEF BlockOf
<1> QED
  BY <1>1, <1>2, <1>3, <1>4, <1>14, <1>15, <1>16, <1>17 DEF Within, Places
\* A block that is closed while none waits for votes, by its number behind the others.
LEMMA ClosedBlock ==
    ASSUME CopyTypeOK, kept' = Append(kept, current_block), block_number' = block_number + 1
    PROVE  /\ kept' \in Seq(Seq(Nat)) /\ Len(kept') = block_number'
           /\ kept'[block_number + 1] = current_block
           /\ \A n \in 1 .. block_number : kept'[n] = kept[n]
BY DEF CopyTypeOK

LEMMA ClosedSoFar ==
    ASSUME CopyTypeOK, kept' = Append(kept, current_block), block_number' = block_number + 1,
           NEW n \in 0 .. block_number
    PROVE  BlockOf(n)' = BlockOf(n)
<1>1. block_number \in Nat
  BY DEF CopyTypeOK
<1>2. BlockOf(n)' = kept'[n + 1]
  <2>1. n < block_number'
    BY <1>1
  <2> QED
    BY <2>1 DEF BlockOf
<1>3. CASE n < block_number
  <2>1. n + 1 \in 1 .. block_number
    BY <1>1, <1>3
  <2> QED
    BY <1>2, <1>3, <2>1, ClosedBlock DEF BlockOf
<1>4. CASE n = block_number
  BY <1>1, <1>2, <1>4, ClosedBlock DEF BlockOf
<1> QED
  BY <1>1, <1>3, <1>4

\* A block that is closed and agreed on.
LEMMA FinalInStep ==
    ASSUME CopyTypeOK, InStep, proposed = <<>>, proposed' = <<>>,
           finalized' = PushToHistory(current_block),
           kept' = Append(kept, current_block), block_number' = block_number + 1,
           current_block' # <<>>
    PROVE  InStep'
<1>1. block_number \in Nat /\ finalized \in Seq(Seq(Nat)) /\ Len(finalized) \in Nat
  BY LenProperties DEF CopyTypeOK
<1>2. Voted = 0 /\ Voted' = 0
  BY DEF Voted
<1>3. Len(finalized) <= block_number
      /\ \A i \in 1 .. Len(finalized) : finalized[i] = kept[block_number - i + 1]
  BY <1>1, <1>2 DEF InStep
<1>4. /\ Len(finalized') \in 1 .. Len(finalized) + 1 /\ finalized'[1] = current_block
      /\ \A i \in 2 .. Len(finalized') : finalized'[i] = finalized[i - 1]
  <2>1. current_block \in Seq(Nat)
    BY DEF CopyTypeOK
  <2> QED
    BY <1>1, <2>1, PushFacts
<1>5. /\ kept'[block_number + 1] = current_block
      /\ \A n \in 1 .. block_number : kept'[n] = kept[n]
  BY ClosedBlock
<1>6. Len(finalized') <= block_number + 1
  BY <1>1, <1>3, <1>4
<1>7. ASSUME NEW i \in 1 .. Len(finalized')
      PROVE  finalized'[i] = kept'[(block_number + 1) - 0 - i + 1]
  <2>1. CASE i = 1
    <3>1. (block_number + 1) - 0 - i + 1 = block_number + 1
      BY <1>1, <2>1
    <3> QED
      BY <1>4, <1>5, <2>1, <3>1
  <2>2. CASE i # 1
    <3>0. i - 1 \in 1 .. Len(finalized) /\ i \in 2 .. Len(finalized')
      BY <1>1, <1>4, <2>2
    <3>1. PICK k \in 1 .. Len(finalized) : k = i - 1 /\ i \in 2 .. Len(finalized')
      BY <3>0
    <3>2. finalized'[i] = finalized[k] /\ finalized[k] = kept[block_number - k + 1]
      BY <1>3, <1>4, <3>1
    <3>3. block_number - k + 1 \in 1 .. block_number
      BY <1>1, <1>3
    <3>4. (block_number + 1) - 0 - i + 1 = block_number - k + 1
      BY <1>1, <3>1
    <3> QED
      BY <1>5, <3>2, <3>3, <3>4
  <2> QED
    BY <2>1, <2>2
<1>8. Len(finalized') + Voted' <= block_number'
  BY <1>1, <1>2, <1>4, <1>6
<1>9. \A i \in 1 .. Len(finalized') : finalized'[i] = kept'[block_number' - Voted' - i + 1]
  BY <1>2, <1>7
<1> QED
  BY <1>8, <1>9 DEF InStep

\* A block that is closed and waits for votes.
LEMMA ProposedInStep ==
    ASSUME CopyTypeOK, InStep, proposed = <<>>, proposed' = current_block, current_block # <<>>,
           finalized' = finalized,
           kept' = Append(kept, current_block), block_number' = block_number + 1,
           current_block' # <<>>
    PROVE  InStep'
<1>1. block_number \in Nat /\ finalized \in Seq(Seq(Nat)) /\ Len(finalized) \in Nat
  BY LenProperties DEF CopyTypeOK
<1>2. Voted = 0 /\ Voted' = 1
  BY DEF Voted
<1>3. Len(finalized) <= block_number
      /\ \A i \in 1 .. Len(finalized) : finalized[i] = kept[block_number - i + 1]
  BY <1>1, <1>2 DEF InStep
<1>5. /\ kept'[block_number + 1] = current_block
      /\ \A n \in 1 .. block_number : kept'[n] = kept[n]
  BY ClosedBlock
<1>7. ASSUME NEW i \in 1 .. Len(finalized)
      PROVE  finalized[i] = kept'[(block_number + 1) - 1 - i + 1]
  <2>1. block_number - i + 1 \in 1 .. block_number
        /\ (block_number + 1) - 1 - i + 1 = block_number - i + 1
    BY <1>1, <1>3
  <2> QED
    BY <1>3, <1>5, <2>1
<1>8. Len(finalized) + 1 <= block_number + 1 /\ block_number + 1 > 0
  BY <1>1, <1>3
<1> QED
  BY <1>2, <1>5, <1>7, <1>8 DEF InStep

\* The block that waited for votes is agreed on.
LEMMA AgreedInStep ==
    ASSUME CopyTypeOK, InStep, proposed # <<>>, proposed' = <<>>,
           finalized' = PushToHistory(proposed), UNCHANGED <<kept, block_number, current_block>>
    PROVE  InStep'
<1>1. block_number \in Nat /\ finalized \in Seq(Seq(Nat)) /\ Len(finalized) \in Nat
  BY LenProperties DEF CopyTypeOK
<1>2. Voted = 1 /\ Voted' = 0
  BY DEF Voted
<1>3. /\ Len(finalized) + 1 <= block_number /\ proposed = kept[block_number]
      /\ \A i \in 1 .. Len(finalized) : finalized[i] = kept[block_number - 1 - i + 1]
      /\ block_number > 0 => current_block # <<>>
  BY <1>1, <1>2 DEF InStep
<1>4. /\ Len(finalized') \in 1 .. Len(finalized) + 1 /\ finalized'[1] = proposed
      /\ \A i \in 2 .. Len(finalized') : finalized'[i] = finalized[i - 1]
  <2>1. proposed \in Seq(Nat)
    BY DEF CopyTypeOK
  <2> QED
    BY <1>1, <2>1, PushFacts
<1>6. Len(finalized') <= block_number
  BY <1>1, <1>3, <1>4
<1>7. ASSUME NEW i \in 1 .. Len(finalized')
      PROVE  finalized'[i] = kept[block_number - 0 - i + 1]
  <2>1. CASE i = 1
    <3>1. block_number - 0 - i + 1 = block_number
      BY <1>1, <2>1
    <3> QED
      BY <1>3, <1>4, <2>1, <3>1
  <2>2. CASE i # 1
    <3>0. i - 1 \in 1 .. Len(finalized) /\ i \in 2 .. Len(finalized')
      BY <1>1, <1>4, <2>2
    <3>1. PICK k \in 1 .. Len(finalized) : k = i - 1 /\ i \in 2 .. Len(finalized')
      BY <3>0
    <3>2. finalized'[i] = finalized[k] /\ finalized[k] = kept[block_number - 1 - k + 1]
      BY <1>3, <1>4, <3>1
    <3>3. block_number - 0 - i + 1 = block_number - 1 - k + 1
      BY <1>1, <3>1
    <3> QED
      BY <3>2, <3>3
  <2> QED
    BY <2>1, <2>2
<1> QED
  BY <1>1, <1>2, <1>3, <1>6, <1>7 DEF InStep
LEMMA ReadingInitInv == ASSUME ReadingInit PROVE ReadingInv
<1>1. <<>> \in Seq(Nat) /\ <<>> \in Seq(Seq(Nat)) /\ Len(<<>>) = 0
  BY EmptySeq
<1>2. CopyTypeOK
  BY <1>1 DEF ReadingInit, CopyTypeOK
<1>3. Voted = 0 /\ Len(finalized) = 0 /\ block_number = 0 /\ proposed = <<>>
  BY <1>1 DEF ReadingInit, Voted
<1>4. InStep
  BY <1>3 DEF InStep
<1> QED
  BY <1>2, <1>4 DEF ReadingInit, ReadingInv, CopyInv

\* A step of the copy that keeps the reader and, unless it alters the copy, keeps the blocks by
\* their numbers.
LEMMA CopyStepInv ==
    ASSUME ReadingInv, CopyTypeOK', UNCHANGED reader,
           ~altered' => /\ ~altered /\ InStep' /\ block_number <= block_number'
                        /\ \A n \in 0 .. block_number :
                              /\ Len(BlockOf(n)) <= Len(BlockOf(n)')
                              /\ \A i \in 1 .. Len(BlockOf(n)) : BlockOf(n)[i] = BlockOf(n)'[i]
    PROVE  ReadingInv'
<1>1. ASSUME ~altered', begun' # INIT PROVE Within'
  <2>1. begun # INIT
    BY <1>1 DEF reader, INIT, Cursor
  <2>2. Within /\ CopyTypeOK
    BY <1>1, <2>1 DEF ReadingInv, CopyInv
  <2> QED
    BY <1>1, <2>2, WithinKept
<1> QED
  BY <1>1 DEF ReadingInv, CopyInv, INIT, Cursor

LEMMA PushFitsInv == ASSUME ReadingInv, PushFits PROVE ReadingInv'
<1>1. CopyTypeOK /\ arrived \in Nat /\ current_block \in Seq(Nat) /\ block_number \in Nat
  BY DEF ReadingInv, CopyInv, CopyTypeOK
<1>2. /\ current_block' = Append(current_block, arrived) /\ arrived' = arrived + 1
      /\ UNCHANGED <<block_number, proposed, recovering, finalized, kept, altered, reader>>
  BY DEF PushFits
<1>3. /\ current_block' \in Seq(Nat) /\ Len(current_block') = Len(current_block) + 1
      /\ \A i \in 1 .. Len(current_block) : current_block'[i] = current_block[i]
  BY <1>1, <1>2
<1>4. CopyTypeOK'
  BY <1>1, <1>2, <1>3 DEF CopyTypeOK
<1>5. ASSUME ~altered' PROVE InStep'
  <2>1. InStep
    BY <1>2, <1>5 DEF ReadingInv, CopyInv
  <2>2. current_block' # <<>>
    BY <1>1, <1>3, EmptySeq
  <2> QED
    BY <1>2, <2>1, <2>2 DEF InStep, Voted
<1>6. Len(current_block) \in Nat
  BY <1>1, LenProperties
<1>7. \A n \in 0 .. block_number :
         /\ Len(BlockOf(n)) <= Len(BlockOf(n)')
         /\ \A i \in 1 .. Len(BlockOf(n)) : BlockOf(n)[i] = BlockOf(n)'[i]
  <2> TAKE n \in 0 .. block_number
  <2>1. CASE n < block_number
    <3>1. BlockOf(n)' = BlockOf(n)
      BY <1>2, <2>1 DEF BlockOf
    <3>2. Len(BlockOf(n)) \in Nat
      BY <1>1, BlockOfType, LenProperties
    <3> QED
      BY <3>1, <3>2
  <2>2. CASE ~(n < block_number)
    <3>1. BlockOf(n)' = current_block' /\ BlockOf(n) = current_block
      BY <1>2, <2>2 DEF BlockOf
    <3> QED
      BY <1>3, <1>6, <3>1
  <2> QED
    BY <2>1, <2>2
<1>8. ~altered' => ~altered /\ block_number <= block_number' /\ UNCHANGED reader
  BY <1>1, <1>2
<1> QED
  BY <1>2, <1>4, <1>5, <1>7, <1>8, CopyStepInv

\* A block that is closed, or agreed on: the blocks keep their numbers.
LEMMA CloseStepInv ==
    ASSUME ReadingInv, CopyTypeOK', UNCHANGED <<reader, altered>>, ~altered => InStep',
           \/ kept' = Append(kept, current_block) /\ block_number' = block_number + 1
           \/ UNCHANGED <<kept, block_number, current_block>>
    PROVE  ReadingInv'
<1>1. CopyTypeOK /\ block_number \in Nat
  BY DEF ReadingInv, CopyInv, CopyTypeOK
<1>2. block_number <= block_number'
  BY <1>1
<1>3. ASSUME NEW n \in 0 .. block_number
      PROVE  /\ Len(BlockOf(n)) <= Len(BlockOf(n)')
             /\ \A i \in 1 .. Len(BlockOf(n)) : BlockOf(n)[i] = BlockOf(n)'[i]
  <2>1. BlockOf(n)' = BlockOf(n)
    <3>1. CASE kept' = Append(kept, current_block) /\ block_number' = block_number + 1
      BY <1>1, <3>1, ClosedSoFar
    <3>2. CASE UNCHANGED <<kept, block_number, current_block>>
      BY <3>2 DEF BlockOf
    <3> QED
      BY <3>1, <3>2
  <2>2. Len(BlockOf(n)) \in Nat
    BY <1>1, BlockOfType, LenProperties
  <2> QED
    BY <2>1, <2>2
<1> QED
  BY <1>2, <1>3, CopyStepInv

LEMMA PushClosesInv == ASSUME ReadingInv, PushCloses PROVE ReadingInv'
<1>1. /\ CopyTypeOK /\ current_block \in Seq(Nat) /\ arrived \in Nat /\ block_number \in Nat
      /\ finalized \in Seq(Seq(Nat))
  BY DEF ReadingInv, CopyInv, CopyTypeOK
<1>2. /\ arrived' = arrived + 1 /\ Len(current_block) = BlockSize /\ proposed = <<>>
      /\ recovering = "no" /\ recovering' = "no"
      /\ kept' = Append(kept, current_block) /\ current_block' = <<arrived>>
      /\ block_number' = block_number + 1 /\ UNCHANGED <<altered, reader>>
  BY DEF PushCloses
<1>3. kept' \in Seq(Seq(Nat)) /\ Len(kept') = block_number'
  BY <1>1, <1>2, ClosedBlock
<1>4. current_block # <<>>
  BY <1>2, ReadingAssumption, EmptySeq
<1>5. current_block' \in Seq(Nat) /\ current_block' # <<>>
  BY <1>1, <1>2
<1>6. arrived' \in Nat /\ block_number' \in Nat
  BY <1>1, <1>2
<1>7. CASE proposed' = current_block /\ UNCHANGED finalized
  <2>1. CopyTypeOK'
    BY <1>1, <1>2, <1>3, <1>5, <1>6, <1>7 DEF CopyTypeOK
  <2>2. ASSUME ~altered PROVE InStep'
    <3>1. InStep
      BY <2>2 DEF ReadingInv, CopyInv
    <3> QED
      BY <1>1, <1>2, <1>4, <1>5, <1>7, <3>1, ProposedInStep
  <2> QED
    BY <1>2, <2>1, <2>2, CloseStepInv
<1>8. CASE finalized' = PushToHistory(current_block) /\ UNCHANGED proposed
  <2>1. finalized' \in Seq(Seq(Nat))
    BY <1>1, <1>8, PushFacts
  <2>2. CopyTypeOK'
    BY <1>1, <1>2, <1>3, <1>5, <1>6, <1>8, <2>1 DEF CopyTypeOK
  <2>3. ASSUME ~altered PROVE InStep'
    <3>1. InStep
      BY <2>3 DEF ReadingInv, CopyInv
    <3> QED
      BY <1>1, <1>2, <1>5, <1>8, <3>1, FinalInStep
  <2> QED
    BY <1>2, <2>2, <2>3, CloseStepInv
<1> QED
  BY <1>7, <1>8 DEF PushCloses

LEMMA PushClosesLateInv == ASSUME ReadingInv, PushClosesLate PROVE ReadingInv'
<1>1. /\ CopyTypeOK /\ current_block \in Seq(Nat) /\ arrived \in Nat /\ block_number \in Nat
      /\ finalized \in Seq(Seq(Nat)) /\ (proposed # <<>> => recovering = "no")
  BY DEF ReadingInv, CopyInv, CopyTypeOK
<1>2. /\ arrived' = arrived + 1 /\ recovering = "open" /\ current_block' = <<arrived>>
      /\ UNCHANGED <<proposed, reader>>
  BY DEF PushClosesLate
<1>3. proposed = <<>>
  BY <1>1, <1>2
<1>4. current_block' \in Seq(Nat) /\ current_block' # <<>> /\ arrived' \in Nat
  BY <1>1, <1>2
<1>5. CASE /\ finalized' = PushToHistory(current_block) /\ kept' = Append(kept, current_block)
           /\ block_number' = block_number + 1 /\ UNCHANGED altered
  <2>1. finalized' \in Seq(Seq(Nat))
    BY <1>1, <1>5, PushFacts
  <2>2. kept' \in Seq(Seq(Nat)) /\ Len(kept') = block_number' /\ block_number' \in Nat
    BY <1>1, <1>5, ClosedBlock
  <2>3. CopyTypeOK'
    BY <1>1, <1>2, <1>3, <1>4, <1>5, <2>1, <2>2 DEF CopyTypeOK
  <2>4. ASSUME ~altered PROVE InStep'
    <3>1. InStep
      BY <2>4 DEF ReadingInv, CopyInv
    <3> QED
      BY <1>1, <1>2, <1>3, <1>4, <1>5, <3>1, FinalInStep
  <2> QED
    BY <1>2, <1>5, <2>3, <2>4, CloseStepInv
<1>6. CASE altered' = TRUE /\ UNCHANGED <<finalized, kept, block_number>>
  <2>1. CopyTypeOK'
    BY <1>1, <1>2, <1>3, <1>4, <1>6 DEF CopyTypeOK
  <2> QED
    BY <1>2, <1>6, <2>1, CopyStepInv
<1> QED
  BY <1>5, <1>6 DEF PushClosesLate

LEMMA AgreedInv == ASSUME ReadingInv, Agreed PROVE ReadingInv'
<1>1. CopyTypeOK /\ proposed \in Seq(Nat) /\ finalized \in Seq(Seq(Nat))
  BY DEF ReadingInv, CopyInv, CopyTypeOK
<1>2. /\ proposed # <<>> /\ finalized' = PushToHistory(proposed) /\ proposed' = <<>>
      /\ UNCHANGED <<block_number, current_block, recovering, arrived, kept, altered, reader>>
  BY DEF Agreed
<1>3. finalized' \in Seq(Seq(Nat)) /\ proposed' \in Seq(Nat)
  BY <1>1, <1>2, PushFacts, EmptySeq
<1>4. CopyTypeOK'
  BY <1>1, <1>2, <1>3 DEF CopyTypeOK
<1>5. ASSUME ~altered PROVE InStep'
  <2>1. InStep
    BY <1>5 DEF ReadingInv, CopyInv
  <2> QED
    BY <1>1, <1>2, <2>1, AgreedInStep
<1> QED
  BY <1>2, <1>4, <1>5, CloseStepInv

LEMMA RecoverInv == ASSUME ReadingInv, Recover PROVE ReadingInv'
<1>1. CopyTypeOK
  BY DEF ReadingInv, CopyInv
<1>2. /\ proposed' = <<>> /\ altered' = (altered \/ proposed # <<>>)
      /\ UNCHANGED <<block_number, current_block, finalized, arrived, kept, reader>>
  BY DEF Recover
<1>3. proposed' \in Seq(Nat) /\ altered' \in BOOLEAN
  BY <1>2, EmptySeq
<1>4. CopyTypeOK'
  BY <1>1, <1>2, <1>3 DEF CopyTypeOK
<1>5. CASE proposed # <<>>
  <2>1. altered'
    BY <1>2, <1>5
  <2> QED
    BY <1>2, <1>4, <2>1, CopyStepInv
<1>6. CASE proposed = <<>>
  <2>1. UNCHANGED altered
    BY <1>1, <1>2, <1>6 DEF CopyTypeOK
  <2>2. ASSUME ~altered PROVE InStep'
    <3>1. InStep
      BY <2>2 DEF ReadingInv, CopyInv
    <3> QED
      BY <1>2, <1>6, <3>1 DEF InStep, Voted
  <2> QED
    BY <1>2, <1>4, <2>1, <2>2, CloseStepInv
<1> QED
  BY <1>5, <1>6

LEMMA SendBlockInv == ASSUME ReadingInv, SendBlock PROVE ReadingInv'
<1>1. CopyTypeOK /\ proposed \in Seq(Nat) /\ finalized \in Seq(Seq(Nat))
      /\ current_block \in Seq(Nat)
  BY DEF ReadingInv, CopyInv, CopyTypeOK
<1>2. /\ proposed' = <<>> /\ altered' = TRUE
      /\ UNCHANGED <<block_number, recovering, arrived, kept, reader>>
  BY DEF SendBlock
<1>3. finalized' \in Seq(Seq(Nat)) /\ current_block' \in Seq(Nat)
  <2>1. CASE finalized' = PushToHistory(Reverse(proposed)) /\ UNCHANGED current_block
    <3>1. Reverse(proposed) \in Seq(Nat)
      BY <1>1 DEF Reverse
    <3> QED
      BY <1>1, <2>1, <3>1, PushFacts
  <2>2. CASE /\ current_block # <<>>
             /\ finalized' = PushToHistory(SubSeq(current_block, 1, 1))
             /\ current_block' = Tail(current_block)
    <3>1. SubSeq(current_block, 1, 1) \in Seq(Nat) /\ Tail(current_block) \in Seq(Nat)
      BY <1>1, <2>2
    <3> QED
      BY <1>1, <2>2, <3>1, PushFacts
  <2> QED
    BY <2>1, <2>2 DEF SendBlock
<1>4. proposed' \in Seq(Nat)
  BY <1>2, EmptySeq
<1>5. CopyTypeOK'
  BY <1>1, <1>2, <1>3, <1>4 DEF CopyTypeOK
<1> QED
  BY <1>2, <1>5, CopyStepInv
\* Where a fetch reads: at the cursor, in the block of that number.
LEMMA ReadsAt ==
    ASSUME CopyTypeOK, InStep, NEW c \in Places, Start(cursor) = c, c.offset > 0,
           c.block <= block_number, Place(cursor) # INIT
    PROVE  Place(cursor) = c /\ Blocks[Index(c) + 1] = BlockOf(c.block)
<1>1. block_number \in Nat /\ c.block \in Nat /\ c.offset \in Nat
  BY DEF CopyTypeOK, Places
<1>2. NextBlock(c) = c
  BY <1>1 DEF NextBlock
<1>3. Index(c) = block_number - c.block /\ Index(c) \in Nat
  BY <1>1 DEF Index
<1>4. Place(cursor) = c /\ ~(Index(c) >= Len(Blocks))
  BY <1>1, <1>2 DEF Place
<1>5. Len(Blocks) \in Nat
  <2>1. <<current_block>> \in Seq(Seq(Nat)) /\ <<>> \in Seq(Seq(Nat))
        /\ <<proposed>> \in Seq(Seq(Nat)) /\ finalized \in Seq(Seq(Nat))
    BY EmptySeq DEF CopyTypeOK
  <2>2. (IF proposed = <<>> THEN <<>> ELSE <<proposed>>) \in Seq(Seq(Nat))
    BY <2>1
  <2>3. <<current_block>> \o (IF proposed = <<>> THEN <<>> ELSE <<proposed>>) \in Seq(Seq(Nat))
    BY <2>1, <2>2, ConcatProperties
  <2>4. Blocks \in Seq(Seq(Nat))
    BY <2>1, <2>3, ConcatProperties DEF Blocks
  <2> QED
    BY <2>4, LenProperties
<1>6. block_number - c.block < Len(Blocks)
  BY <1>1, <1>3, <1>4, <1>5
<1>7. Blocks[block_number - c.block + 1] = BlockOf(c.block)
  <2>1. PICK n \in {c.block} : TRUE
    OBVIOUS
  <2>2. Blocks[block_number - n + 1] = BlockOf(n)
    BY <1>1, <1>6, <2>1, BlockAt
  <2> QED
    BY <2>1, <2>2
<1> QED
  BY <1>3, <1>4, <1>7

\* A page that follows what was read of the block from y on.
LEMMA PageRead ==
    ASSUME CopyTypeOK, InStep, NEW c \in Places, NEW y \in Nat, Start(cursor) = c, c.offset > 0,
           c.block <= block_number, c.offset <= y, y <= Len(BlockOf(c.block)),
           Place(cursor) # INIT
    PROVE  /\ c.offset - PageLength(c) \in 0 .. c.offset
           /\ Reverse(SubSeq(BlockOf(c.block), c.offset + 1, y)) \o Reverse(Page(c))
                = Reverse(SubSeq(BlockOf(c.block), c.offset - PageLength(c) + 1, y))
           /\ Reverse(Page(c))
                = Reverse(SubSeq(BlockOf(c.block), c.offset - PageLength(c) + 1, c.offset))
<1>1. PICK o \in {c.offset} : TRUE
  OBVIOUS
<1>2. PICK b \in {BlockOf(c.block)} : TRUE
  OBVIOUS
<1>3. o \in Nat /\ c.block \in Nat /\ o <= y /\ y <= Len(b)
  BY <1>1, <1>2 DEF Places
<1>4. b \in Seq(Nat)
  BY <1>2, <1>3, BlockOfType
<1>5. FetchLimit \in Nat
  BY ReadingAssumption
<1>6. PageLength(c) \in 0 .. o
  BY <1>1, <1>3, <1>5 DEF PageLength
<1> DEFINE x == o - PageLength(c)
<1>7. x \in 0 .. o /\ x \in Nat /\ x <= o
  BY <1>3, <1>6
<1>8. Page(c) = SubSeq(b, x + 1, o)
  BY <1>1, <1>2, ReadsAt DEF Page
<1>9. c.offset - PageLength(c) = x
  BY <1>1
<1> HIDE DEF x
<1>10. Reverse(SubSeq(b, o + 1, y)) \o Reverse(SubSeq(b, x + 1, o))
         = Reverse(SubSeq(b, x + 1, y))
  <2>1. x \in Nat /\ o \in Nat /\ y \in Nat /\ x <= o /\ o <= y /\ y <= Len(b)
    BY <1>3, <1>7
  <2> QED
    BY ONLY <1>4, <2>1, PagesJoin, Zenon
<1> QED
  BY <1>1, <1>2, <1>7, <1>8, <1>9, <1>10

LEMMA FetchMessagesInv == ASSUME ReadingInv, FetchMessages PROVE ReadingInv'
<1>1. UNCHANGED copy
  BY DEF FetchMessages
<1>2. CopyInv /\ CopyInv'
  BY <1>1 DEF ReadingInv, CopyInv, CopyTypeOK, InStep, Voted, copy
<1>3. ASSUME begun' # INIT, ~altered' PROVE Within'
  <2>1. CopyTypeOK /\ InStep /\ ~altered /\ block_number \in Nat /\ current_block \in Seq(Nat)
        /\ Len(current_block) \in Nat
    BY <1>1, <1>2, <1>3, LenProperties DEF CopyInv, CopyTypeOK, copy
  <2>2. Place(cursor) # INIT
    BY <1>3 DEF FetchMessages
  <2>3. PICK c \in {Start(cursor)} : TRUE
    OBVIOUS
  <2>4. /\ cursor' = Cursor(Place(cursor).block,
                            Place(cursor).offset - PageLength(Place(cursor)))
        /\ begun' = IF cursor = INIT THEN Place(cursor)
                    ELSE IF cursor.offset = 0 THEN INIT ELSE begun
        /\ read' = (IF cursor = INIT THEN <<>> ELSE read) \o Reverse(Page(Place(cursor)))
    BY <2>2 DEF FetchMessages
  <2>5. \A n \in Nat : BlockOf(n)' = BlockOf(n)
    BY <1>1 DEF BlockOf, copy
  <2>6. block_number' = block_number
    BY <1>1 DEF copy
  <2>7. CASE cursor = INIT
    <3>1. c = Cursor(block_number, Len(current_block))
      BY <2>3, <2>7 DEF Start
    <3>2. c \in Places /\ c.block = block_number /\ c.offset = Len(current_block)
      BY <2>1, <3>1 DEF Cursor, Places
    <3>3. c # Cursor(0, 0)
      BY <2>2, <2>3 DEF Place
    <3>4. c.offset > 0
      <4>1. CASE block_number = 0
        BY <2>1, <3>1, <3>2, <3>3, <4>1
      <4>2. CASE block_number > 0
        <5>1. current_block # <<>>
          BY <2>1, <4>2 DEF InStep
        <5>2. Len(current_block) # 0
          BY <2>1, <5>1, EmptySeq
        <5> QED
          BY <2>1, <3>2, <5>2
      <4> QED
        BY <2>1, <4>1, <4>2
    <3>5. BlockOf(c.block) = current_block /\ c.block <= block_number /\ c.offset \in Nat
      BY <2>1, <3>2 DEF BlockOf
    <3>6. Place(cursor) = c
      BY <2>1, <2>2, <2>3, <3>2, <3>4, <3>5, ReadsAt
    <3>7. c.offset <= c.offset /\ c.offset <= Len(BlockOf(c.block))
      BY <3>2, <3>5
    <3>8. /\ c.offset - PageLength(c) \in 0 .. c.offset
          /\ Reverse(Page(c))
                = Reverse(SubSeq(BlockOf(c.block), c.offset - PageLength(c) + 1, c.offset))
      BY <2>1, <2>2, <2>3, <3>2, <3>4, <3>5, <3>7, PageRead
    <3>9. cursor' = Cursor(c.block, c.offset - PageLength(c)) /\ begun' = c
          /\ read' = <<>> \o Reverse(Page(c))
      BY <2>4, <2>7, <3>6
    <3>10. PICK x \in 0 .. c.offset : x = c.offset - PageLength(c)
      BY <3>8
    <3>11. PICK r \in Seq(Nat) : r = Reverse(Page(c))
      <4>1. PICK b \in {BlockOf(c.block)} : TRUE
        OBVIOUS
      <4>2. PICK y \in Nat : y = c.offset
        BY <3>5
      <4>3. b \in Seq(Nat) /\ x \in Nat /\ x <= y /\ y <= Len(b)
        BY <2>1, <3>5, <3>7, <3>10, <4>1, <4>2
      <4>4. Reverse(SubSeq(b, x + 1, y)) \in Seq(Nat)
        BY <4>2, <4>3, Backwards
      <4> QED
        BY <3>8, <3>10, <4>1, <4>2, <4>4
    <3>12. read' = r
      BY <3>9, <3>11, ConcatEmptySeq
    <3>13. cursor'.block = c.block /\ cursor'.offset = x /\ cursor' \in Places
      BY <3>2, <3>5, <3>9, <3>10 DEF Cursor, Places
    <3>14. BlockOf(begun.block)' = BlockOf(c.block)
      BY <1>1, <3>9 DEF BlockOf, copy
    <3>15. read' = Reverse(SubSeq(BlockOf(begun.block)', cursor'.offset + 1, begun'.offset))
      BY <3>8, <3>9, <3>10, <3>11, <3>12, <3>13, <3>14
    <3> QED
      BY <2>6, <3>2, <3>5, <3>7, <3>9, <3>10, <3>13, <3>14, <3>15 DEF Within
  <2>8. CASE cursor # INIT
    <3>1. cursor.offset # 0 /\ begun' = begun /\ begun # INIT
      BY <1>3, <2>4, <2>8
    <3>2. Within
      BY <2>1, <3>1 DEF ReadingInv
    <3>3. c = cursor
      BY <2>3, <2>8 DEF Start
    <3>4. PICK y \in {begun.offset} : TRUE
      OBVIOUS
    <3>5. /\ c \in Places /\ c.block = begun.block /\ c.block <= block_number
          /\ c.offset <= y /\ y <= Len(BlockOf(c.block)) /\ y \in Nat /\ c.offset \in Nat
          /\ begun \in Places
          /\ read = Reverse(SubSeq(BlockOf(c.block), c.offset + 1, y))
      BY <3>2, <3>3, <3>4 DEF Within, Places
    <3>6. c.offset > 0
      BY <3>1, <3>3, <3>5
    <3>7. Place(cursor) = c
      BY <2>1, <2>2, <2>3, <3>5, <3>6, ReadsAt
    <3>8. /\ c.offset - PageLength(c) \in 0 .. c.offset
          /\ Reverse(SubSeq(BlockOf(c.block), c.offset + 1, y)) \o Reverse(Page(c))
               = Reverse(SubSeq(BlockOf(c.block), c.offset - PageLength(c) + 1, y))
      BY <2>1, <2>2, <2>3, <3>5, <3>6, PageRead
    <3>9. cursor' = Cursor(c.block, c.offset - PageLength(c)) /\ read' = read \o Reverse(Page(c))
      BY <2>4, <2>8, <3>7
    <3>10. PICK x \in 0 .. c.offset : x = c.offset - PageLength(c)
      BY <3>8
    <3>11. cursor'.block = c.block /\ cursor'.offset = x /\ cursor' \in Places
      BY <3>5, <3>9, <3>10 DEF Cursor, Places
    <3>12. BlockOf(begun.block)' = BlockOf(c.block)
      BY <1>1, <3>1, <3>5 DEF BlockOf, copy
    <3>13. read' = Reverse(SubSeq(BlockOf(begun.block)', cursor'.offset + 1, begun'.offset))
      BY <3>1, <3>4, <3>5, <3>8, <3>9, <3>10, <3>11, <3>12
    <3>14. x <= y
      BY <3>5, <3>10
    <3> QED
      BY <2>6, <3>1, <3>4, <3>5, <3>11, <3>12, <3>13, <3>14 DEF Within
  <2> QED
    BY <2>7, <2>8
<1> QED
  BY <1>2, <1>3 DEF ReadingInv, INIT, Cursor

LEMMA ReadingInvHolds == ReadingSpec => []ReadingInv
<1>1. ReadingInit => ReadingInv
  BY ReadingInitInv
<1>2. ReadingInv /\ [ReadingNext]_readingVars => ReadingInv'
  <2> SUFFICES ASSUME ReadingInv, [ReadingNext]_readingVars
               PROVE  ReadingInv'
    OBVIOUS
  <2>1. CASE PushFits
    BY <2>1, PushFitsInv
  <2>2. CASE PushCloses
    BY <2>2, PushClosesInv
  <2>3. CASE PushClosesLate
    BY <2>3, PushClosesLateInv
  <2>4. CASE Agreed
    BY <2>4, AgreedInv
  <2>5. CASE Recover
    BY <2>5, RecoverInv
  <2>6. CASE SendBlock
    BY <2>6, SendBlockInv
  <2>7. CASE FetchMessages
    BY <2>7, FetchMessagesInv
  <2>8. CASE UNCHANGED readingVars
    BY <2>8 DEF readingVars, ReadingInv, CopyInv, CopyTypeOK, InStep, Voted, Within, BlockOf,
                INIT, Cursor
  <2> QED
    BY <2>1, <2>2, <2>3, <2>4, <2>5, <2>6, <2>7, <2>8 DEF ReadingNext
<1> QED
  BY <1>1, <1>2, PTL DEF ReadingSpec

\* The pages a client fetches of the block it began with follow each other without a gap and
\* without a message twice (FetchMessages), for all sizes of pages, blocks and histories and
\* any number of messages and blocks that are closed and agreed on between two of them, as
\* long as the copy has neither dropped a block nor taken one in the order of another node.
THEOREM PagesFollowHolds == ReadingSpec => []PagesFollow
<1>1. ReadingInv => PagesFollow
  BY DEF ReadingInv, Within, PagesFollow
<1> QED
  BY <1>1, ReadingInvHolds, PTL

-----------------------------------------------------------------------------
(* The register of names, for any accounts, names and keys.                 *)

\* The inductive invariant: the mappings are typed and agree with each other.
NamesInv == TypeOK /\ NamesInverse /\ OneIdentityPerName

\* The empty contract is consistent.
LEMMA InitNames == Init => NamesInv
BY NoneAssumption DEF Init, NamesInv, TypeOK, NamesInverse, OneIdentityPerName

\* A free name can be given to an account without one.
LEMMA GiveNameKeeps ==
    ASSUME NamesInv, NEW account \in Accounts, NEW name \in Names, NEW sign \in Keys,
           NameIsFree(account, name, sign), GiveName(account, name, sign),
           identities' \in [Accounts -> Keys \cup {None}]
    PROVE  NamesInv'
<1>1. TypeOK'
  BY DEF NamesInv, TypeOK, GiveName
<1>2. NamesInverse'
  BY NoneAssumption DEF NamesInv, TypeOK, NamesInverse, NameIsFree, GiveName
<1>3. OneIdentityPerName'
  <2> SUFFICES ASSUME NEW n \in Names
               PROVE  /\ username_to_owner'[n] # None
                            <=> \E k \in Keys : identity_to_username'[k] = n
                      /\ \A k, l \in Keys : identity_to_username'[k] = n
                            /\ identity_to_username'[l] = n => k = l
    BY DEF OneIdentityPerName
  <2>1. /\ username_to_owner'[name] = account /\ identity_to_username'[sign] = name
        /\ \A m \in Names : m # name => username_to_owner'[m] = username_to_owner[m]
        /\ \A k \in Keys : k # sign => identity_to_username'[k] = identity_to_username[k]
    BY DEF NamesInv, TypeOK, GiveName
  <2>2. identity_to_username[sign] = None /\ username_to_owner[name] = None
    BY DEF NameIsFree
  <2>3. CASE n = name
    BY <2>1, <2>2, <2>3, NoneAssumption DEF NamesInv, OneIdentityPerName
  <2>4. CASE n # name
    BY <2>1, <2>2, <2>4, NoneAssumption DEF NamesInv, OneIdentityPerName
  <2> QED BY <2>3, <2>4
<1> QED BY <1>1, <1>2, <1>3 DEF NamesInv

\* An owner can give its name up.
LEMMA GiveUpKeeps ==
    ASSUME NamesInv, NEW caller \in Accounts, NEW name \in Names, GiveUpName(caller, name)
    PROVE  NamesInv'
<1> USE DEF GiveUpName, OwnsName
<1>1. TypeOK'
  BY DEF NamesInv, TypeOK
<1>2. NamesInverse'
  BY NoneAssumption DEF NamesInv, TypeOK, NamesInverse
<1>3. OneIdentityPerName'
  <2> DEFINE sign == identities[caller]
  <2>1. sign \in Keys
    BY DEF NamesInv, TypeOK
  <2>2. /\ username_to_owner'[name] = None /\ identity_to_username'[sign] = None
        /\ \A m \in Names : m # name => username_to_owner'[m] = username_to_owner[m]
        /\ \A k \in Keys : k # sign => identity_to_username'[k] = identity_to_username[k]
    BY <2>1 DEF NamesInv, TypeOK
  <2>3. identity_to_username[sign] = name
    OBVIOUS
  <2> HIDE DEF sign
  <2>4. ASSUME NEW n \in Names
        PROVE  username_to_owner'[n] # None <=> \E k \in Keys : identity_to_username'[k] = n
    <3>1. CASE n = name
      BY <3>1, <2>1, <2>2, <2>3, NoneAssumption DEF NamesInv, OneIdentityPerName
    <3>2. CASE n # name
      BY <3>2, <2>1, <2>2, <2>3, NoneAssumption DEF NamesInv, OneIdentityPerName
    <3> QED BY <3>1, <3>2
  <2>5. ASSUME NEW n \in Names, NEW k \in Keys, NEW l \in Keys,
               identity_to_username'[k] = n, identity_to_username'[l] = n
        PROVE  k = l
    BY <2>1, <2>2, <2>5, NoneAssumption DEF NamesInv, OneIdentityPerName
  <2> QED BY <2>4, <2>5 DEF OneIdentityPerName
<1> QED BY <1>1, <1>2, <1>3 DEF NamesInv

\* A name goes from one account to another, or stays with its owner.
LEMMA TransferKeeps ==
    ASSUME NamesInv, NEW caller \in Accounts, NEW name \in Names, NEW target \in Accounts,
           TransfereName(caller, name, target)
    PROVE  NamesInv'
<1> DEFINE from == identities[caller]
           to   == identities[target]
<1>1. from \in Keys /\ to \in Keys
  BY DEF NamesInv, TypeOK, TransfereName, OwnsName
<1>2. TypeOK'
  BY DEF NamesInv, TypeOK, TransfereName
<1>3. /\ username_to_owner'[name] = target
      /\ \A m \in Names : m # name => username_to_owner'[m] = username_to_owner[m]
  BY DEF NamesInv, TypeOK, TransfereName
<1>4. /\ owner_to_username'[target] = name
      /\ caller # target => owner_to_username'[caller] = None
      /\ \A a \in Accounts : a \notin {caller, target} =>
            owner_to_username'[a] = owner_to_username[a]
  BY DEF NamesInv, TypeOK, TransfereName
<1>5. /\ identity_to_username'[to] = name
      /\ from # to => identity_to_username'[from] = None
      /\ \A k \in Keys : k \notin {from, to} =>
            identity_to_username'[k] = identity_to_username[k]
  BY <1>1 DEF NamesInv, TypeOK, TransfereName
<1>6. /\ username_to_owner[name] = caller /\ owner_to_username[caller] = name
      /\ target = caller \/ owner_to_username[target] = None
      /\ identity_to_username[from] = name
      /\ to = from \/ identity_to_username[to] = None
  BY DEF TransfereName, OwnsName
<1> HIDE DEF from, to
<1>7. NamesInverse'
  BY <1>3, <1>4, <1>6, NoneAssumption DEF NamesInv, TypeOK, NamesInverse
<1>8. ASSUME NEW n \in Names
      PROVE  username_to_owner'[n] # None <=> \E k \in Keys : identity_to_username'[k] = n
  <2>1. CASE n = name
    BY <2>1, <1>1, <1>3, <1>5, NoneAssumption
  <2>2. CASE n # name
    BY <2>2, <1>1, <1>3, <1>5, <1>6, NoneAssumption DEF NamesInv, OneIdentityPerName
  <2> QED BY <2>1, <2>2
<1>9. ASSUME NEW n \in Names, NEW k \in Keys, NEW l \in Keys,
             identity_to_username'[k] = n, identity_to_username'[l] = n
      PROVE  k = l
  BY <1>9, <1>1, <1>5, <1>6, NoneAssumption DEF NamesInv, OneIdentityPerName
<1> QED BY <1>2, <1>7, <1>8, <1>9 DEF NamesInv, OneIdentityPerName

\* Every message keeps the contract consistent.
LEMMA NextNames == NamesInv /\ [Next]_vars => NamesInv'
<1> SUFFICES ASSUME NamesInv, [Next]_vars PROVE NamesInv'
  OBVIOUS
<1>1. ASSUME NEW caller \in Accounts, NEW sign \in Keys, Register(caller, sign)
      PROVE  NamesInv'
  BY <1>1 DEF Register, NamesInv, TypeOK, NamesInverse, OneIdentityPerName
<1>2. ASSUME NEW caller \in Accounts, NEW name \in Names, PickName(caller, name)
      PROVE  NamesInv'
  <2>1. identities[caller] \in Keys /\ identities' \in [Accounts -> Keys \cup {None}]
    BY <1>2 DEF PickName, NameIsFree, NamesInv, TypeOK
  <2> QED BY <1>2, <2>1, GiveNameKeeps DEF PickName
<1>3. ASSUME NEW caller \in Accounts, NEW name \in Names, NEW sign \in Keys,
             RegisterWithName(caller, name, sign)
      PROVE  NamesInv'
  <2>1. identities' \in [Accounts -> Keys \cup {None}]
    BY <1>3 DEF RegisterWithName, NamesInv, TypeOK
  <2> QED BY <1>3, <2>1, GiveNameKeeps DEF RegisterWithName
<1>4. ASSUME NEW caller \in Accounts, NEW name \in Names, GiveUpName(caller, name)
      PROVE  NamesInv'
  BY <1>4, GiveUpKeeps
<1>5. ASSUME NEW caller \in Accounts, NEW name \in Names, NEW target \in Accounts,
             TransfereName(caller, name, target)
      PROVE  NamesInv'
  BY <1>5, TransferKeeps
<1>6. CASE UNCHANGED vars
  BY <1>6 DEF vars, NamesInv, TypeOK, NamesInverse, OneIdentityPerName
<1> QED BY <1>1, <1>2, <1>3, <1>4, <1>5, <1>6 DEF Next

\* The two directions of the name register always agree, and a name with an owner is always
\* found under exactly one identity.
THEOREM NamesConsistentHolds == Spec => []NamesConsistent
<1>1. NamesInv => NamesConsistent
  BY DEF NamesInv, NamesConsistent
<1> QED BY <1>1, InitNames, NextNames, PTL DEF Spec
=============================================================================
