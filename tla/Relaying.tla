------------------------------ MODULE Relaying ------------------------------
(***************************************************************************)
(* One direction of a channel of an onion relay (Stream::forward_from of   *)
(* core/onion/src/behaviour.rs): bytes are read from one stream and        *)
(* written to the other, and what that one does not take at once is cached *)
(* and written first the next time.                                        *)
(*                                                                         *)
(* Bytes are numbered.  written is never set back when the cache is        *)
(* cleared, so that of the next bytes that are cached, as many are skipped *)
(* as of the ones before; the model ends there (skipped).                  *)
(***************************************************************************)
EXTENDS Integers, Sequences

CONSTANTS MaxForwarded, Chunk       \* bounds: bytes, and bytes read at a time

ASSUME RelayingAssumption == MaxForwarded \in Nat /\ Chunk \in Nat

VARIABLES
    poll_cache, written,
    taken,              \* history: bytes read
    forwarded,          \* history: the bytes the other stream took
    ended,              \* whether the channel ended
    skipped             \* history: bytes were cached while written was not zero

relayingVars == <<poll_cache, written, taken, forwarded, ended, skipped>>

RelayingInit == /\ poll_cache = <<>> /\ written = 0 /\ taken = 0 /\ forwarded = <<>>
                /\ ended = FALSE /\ skipped = FALSE

\* What of the cache is still to be written.
Cached == SubSeq(poll_cache, written + 1, Len(poll_cache))

\* The other stream takes w bytes of the cache.
WriteCached(w) ==
    /\ ~ended /\ ~skipped
    /\ w \in 1 .. Len(Cached)
    /\ forwarded' = forwarded \o SubSeq(Cached, 1, w)
    /\ written' = written + w
    /\ UNCHANGED <<poll_cache, taken, ended, skipped>>

\* Mutant of Rest: what was read is cached from its beginning.
RestAll(n, w) == [i \in 1 .. n |-> taken + i]

\* What is cached of n bytes of which w were taken.
Rest(n, w) == [i \in 1 .. n - w |-> taken + w + i]

\* The cache is written and cleared.  n bytes are read, and the other stream takes w of them; if
\* it takes none, or is not ready, the channel ends.
ForwardRead(n, w) ==
    /\ ~ended /\ ~skipped
    /\ Len(Cached) = 0 /\ taken + n <= MaxForwarded
    /\ taken' = taken + n
    /\ forwarded' = forwarded \o [i \in 1 .. w |-> taken + i]
    /\ ended' = (w = 0)
    /\ poll_cache' = IF w \in {0, n} THEN <<>> ELSE Rest(n, w)
    /\ skipped' = (w \notin {0, n} /\ written > 0)
    /\ UNCHANGED written

RelayingNext == \/ \E w \in 1 .. Chunk : WriteCached(w)
                \/ \E n \in 1 .. Chunk : \E w \in 0 .. n : ForwardRead(n, w)

-----------------------------------------------------------------------------

\* The other stream gets the bytes in the order in which they were read, none lost and none
\* twice, whatever part of them it takes at a time, as long as the channel has not ended and
\* bytes had to be cached once at most: the second time the relay skips bytes.
ForwardsInOrder ==
    ~ended /\ ~skipped => forwarded \o Cached = [i \in 1 .. taken |-> i]
=============================================================================
