------------------------------ MODULE Messages ------------------------------
(***************************************************************************)
(* A block of a chat is a buffer of messages, each followed by its length  *)
(* in two bytes, so that it is read from its end (chat.rs of chat-spec).   *)
(* retain_messages_in_vec takes out the messages a predicate refuses, in   *)
(* place: what is kept is moved to the end of the buffer, a run of kept    *)
(* messages at a time, while the rest is still being read.  A server does  *)
(* so with its current block when another one turns out to be agreed on.   *)
(*                                                                         *)
(* One step is one round of the loop.  A pointer is the number of bytes    *)
(* before it.                                                              *)
(***************************************************************************)
EXTENDS Integers, Sequences

CONSTANTS Octets,       \* the bytes that buffers are made of
          MaxBuffer     \* bound: bytes of a buffer

VARIABLES msg_buffer,
          packed,       \* the buffer that was handed over
          keeps,        \* what the predicate answers: the messages, by the order it meets them, that stay
          met,          \* messages it has met
          read_cursor, write_cursor, hole_end,
          retaining

messagesVars == <<msg_buffer, packed, keeps, met, read_cursor, write_cursor, hole_end, retaining>>

MessagesInit ==
    /\ packed \in UNION {[1 .. n -> Octets] : n \in 0 .. MaxBuffer}
    /\ msg_buffer = packed
    /\ keeps \in SUBSET (1 .. MaxBuffer \div 2)
    /\ met = 0
    /\ read_cursor = Len(msg_buffer) /\ write_cursor = Len(msg_buffer) /\ hole_end = Len(msg_buffer)
    /\ retaining = TRUE

\* The two bytes before c.
LengthAt(b, c) == 256 * b[c - 1] + b[c]

\* A message ends at c.
Valid(b, c) == c >= 2 /\ c >= LengthAt(b, c) + 2

\* Mutant of WriteLen: the message that is taken out is counted with the ones before the hole.
WriteLenWhole(at, len) == hole_end - at

\* The kept bytes between the message that begins at at and the last hole.
WriteLen(at, len) == hole_end - at - len

\* move_mem
MoveMem(at, len) ==
    LET n == WriteLen(at, len)
    IN  IF hole_end = at THEN UNCHANGED <<msg_buffer, write_cursor>>
        ELSE /\ msg_buffer' = [i \in DOMAIN msg_buffer |->
                                  IF i \in write_cursor - n + 1 .. write_cursor
                                  THEN msg_buffer[i - write_cursor + hole_end] ELSE msg_buffer[i]]
             /\ write_cursor' = write_cursor - n

KeepMessage ==
    /\ retaining /\ Valid(msg_buffer, read_cursor) /\ met + 1 \in keeps
    /\ read_cursor' = read_cursor - LengthAt(msg_buffer, read_cursor) - 2
    /\ met' = met + 1
    /\ UNCHANGED <<msg_buffer, packed, keeps, write_cursor, hole_end, retaining>>

TakeOutMessage ==
    /\ retaining /\ Valid(msg_buffer, read_cursor) /\ met + 1 \notin keeps
    /\ LET len == LengthAt(msg_buffer, read_cursor) + 2
           at  == read_cursor - len
       IN  /\ MoveMem(at, len)
           /\ read_cursor' = at /\ hole_end' = at
    /\ met' = met + 1
    /\ UNCHANGED <<packed, keeps, retaining>>

\* What is before the first message that can be read is stripped, and with it what is left of
\* the messages that were moved.
Finish ==
    /\ retaining /\ ~Valid(msg_buffer, read_cursor)
    /\ MoveMem(read_cursor, 0)
    /\ retaining' = FALSE
    /\ UNCHANGED <<packed, keeps, met, read_cursor, hole_end>>

MessagesNext == KeepMessage \/ TakeOutMessage \/ Finish

\* What retain_messages_in_vec leaves in the vector.
Retained == SubSeq(msg_buffer, write_cursor + 1, Len(msg_buffer))

-----------------------------------------------------------------------------

\* unpack_messages: the messages from the last to the first, each with its length.
Unpacked(b) ==
    LET upTo[c \in 0 .. Len(b)] ==
            IF ~Valid(b, c) THEN <<>>
            ELSE LET at == c - LengthAt(b, c) - 2
                 IN  <<SubSeq(b, at + 1, c)>> \o upTo[at]
    IN  upTo[Len(b)]

\* Retaining gives exactly the messages the predicate kept, in their order, and nothing else
\* ("moves all kept messages to the end of the slice and returns the kept region, ... invalid
\* codec is stripped", chat-spec/src/chat.rs:138), though it overwrites the buffer it reads:
\* what it has not read yet is as it was.
KeptExactly ==
    LET all == Unpacked(packed)
    IN  /\ retaining => SubSeq(msg_buffer, 1, read_cursor) = SubSeq(packed, 1, read_cursor)
        /\ ~retaining =>
              LET kept[i \in 0 .. Len(all)] ==
                      IF i = 0 THEN <<>> ELSE IF i \in keeps THEN all[i] \o kept[i - 1] ELSE kept[i - 1]
              IN  Retained = kept[Len(all)]
=============================================================================
