---------------------------- MODULE PacketWriter ----------------------------
(***************************************************************************)
(* The buffer of a stream (utils/component-utils/src/stream.rs): packets   *)
(* are written to it whole and leave it in pieces, as many bytes at a time *)
(* as the stream takes.  The bytes from start to end wait; when there is   *)
(* more room before start than behind end, packets go there, and what      *)
(* waits is from start to the end of the vector and then from its          *)
(* beginning to end.                                                       *)
(*                                                                         *)
(* Bytes are numbered in the order in which packets were accepted.  The    *)
(* model ends with the first packet that breaks that order (broken): from  *)
(* then on bytes are lost, sent twice or out of turn, or a slice is out of *)
(* range.                                                                  *)
(***************************************************************************)
EXTENDS Integers, Sequences

CONSTANTS
    Capacity,
    PacketSizes,    \* with the two bytes of the length
    MaxBytes        \* bound: bytes accepted

ASSUME WriterAssumption ==
    Capacity \in Nat /\ MaxBytes \in Nat /\ PacketSizes \subseteq Nat \ {0}

VARIABLES
    buffer, start, end,
    accepted, sent,     \* history: bytes of all packets that were accepted, and bytes sent
    broken              \* history: a packet was written in one of the ways that break the order

writerVars == <<buffer, start, end, accepted, sent, broken>>

WriterInit == buffer = <<>> /\ start = 0 /\ end = 0 /\ accepted = 0 /\ sent = 0 /\ broken = FALSE

-----------------------------------------------------------------------------

\* writable_parts: what is to be sent, in two pieces.
WritableParts == IF start > end THEN <<SubSeq(buffer, start + 1, Len(buffer)), SubSeq(buffer, 1, end)>>
                 ELSE <<SubSeq(buffer, start + 1, end), <<>>>>

\* guard: the room between the two parts, or before the only one.
SpaceBegin == IF start > end THEN end ELSE 0
Space0 == start - SpaceBegin
FreeCap == Capacity - Len(buffer)

\* Packets wait before start as well as behind it; and the ones behind it are all sent, so that
\* the vector is longer than what waits.
Wrapped  == start > end /\ end > 0
Stale    == start <= end /\ end < Len(buffer)

Bytes(z) == [i \in 1 .. z |-> accepted + i]

\* PacketWriterGuard::Replacing: a packet that fills the room leaves start = end, as if nothing
\* waited; with stale bytes it goes to the beginning and end moves on elsewhere.  end is set to
\* zero before it is known whether the packet fits.
Replace(z) ==
    /\ FreeCap < Space0
    /\ LET from == IF end = Len(buffer) THEN 0 ELSE end
           fits == z <= Space0
       IN  /\ end' = IF fits THEN from + z ELSE from
           /\ buffer' = IF fits THEN SubSeq(buffer, 1, SpaceBegin) \o Bytes(z)
                                     \o SubSeq(buffer, SpaceBegin + z + 1, Len(buffer))
                        ELSE buffer
           /\ accepted' = IF fits THEN accepted + z ELSE accepted
           /\ broken' = (fits /\ (z = Space0 \/ Stale))
    /\ UNCHANGED <<start, sent>>

\* PacketWriterGuard::Extending: when the buffer is wrapped around the packet goes ahead of the
\* ones at the beginning; one that does not fit makes stale bytes wait again.
Extend(z) ==
    /\ FreeCap >= Space0
    /\ LET at   == IF end >= start THEN end ELSE Len(buffer)
           fits == at + z <= Capacity
       IN  /\ buffer' = IF fits THEN SubSeq(buffer, 1, at) \o Bytes(z) ELSE buffer
           /\ end' = IF end < start THEN end ELSE IF fits THEN at + z ELSE Len(buffer)
           /\ accepted' = IF fits THEN accepted + z ELSE accepted
           /\ broken' = ((Wrapped /\ fits) \/ (Stale /\ ~fits))
    /\ UNCHANGED <<start, sent>>

WritePacket(z) == ~broken /\ accepted + z <= MaxBytes /\ (Replace(z) \/ Extend(z))

-----------------------------------------------------------------------------

\* Mutant of Moved: start goes to the beginning when it reaches the end of the vector.
MovedEarly(n) == IF start + n >= Len(buffer) THEN start + n - Len(buffer) ELSE start + n

\* start once n bytes are sent; the end of the vector is kept as a place of its own.
Moved(n) == IF start + n > Len(buffer) THEN start + n - Len(buffer) ELSE start + n

\* poll: the stream takes some bytes of the first part that is not empty.  When nothing is left
\* the buffer starts over.
Poll ==
    LET parts == WritableParts
        part  == IF parts[1] # <<>> THEN parts[1] ELSE parts[2]
    IN  ~broken /\ \E n \in 1 .. Len(part) :
            /\ sent' = sent + n
            /\ IF Moved(n) = end
                 THEN start' = 0 /\ end' = 0 /\ buffer' = <<>>
                 ELSE start' = Moved(n) /\ UNCHANGED <<end, buffer>>
            /\ UNCHANGED <<accepted, broken>>

WriterNext == Poll \/ \E z \in PacketSizes : WritePacket(z)

-----------------------------------------------------------------------------

Waits == WritableParts[1] \o WritableParts[2]

\* What waits in the buffer is exactly what was accepted and not sent, in that order, through
\* every mixture of packets and partly taken slices, unless one of three things happens: a
\* packet fills the room before start exactly, is written while packets wait before start, or
\* while the vector is longer than what waits.  With a stream that takes whole slices none of
\* them does.
WriterInOrder == ~broken => Waits = [i \in 1 .. accepted - sent |-> sent + i]
=============================================================================
