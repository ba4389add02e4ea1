------------------------------ MODULE Reading ------------------------------
(***************************************************************************)
(* FetchMessages (nodes/server/src/handlers/chat.rs): a client reads the   *)
(* messages of a chat backwards, page by page.  The server keeps nothing   *)
(* of the reading: the cursor names a block by its number and a place in   *)
(* it, and the client sends it back, while messages arrive and blocks are  *)
(* closed and move down the list.                                          *)
(*                                                                         *)
(* One copy of a chat, with the votes of the other nodes left open: a      *)
(* block may be agreed on, replaced by that of another node, or given up.  *)
(* Messages are numbered as they arrive and have one unit of size.         *)
(***************************************************************************)
EXTENDS Integers, Sequences, SequencesExt

CONSTANTS
    BlockSize,          \* BLOCK_SIZE
    BlockHistory,       \* BLOCK_HISTORY
    FetchLimit,         \* MESSAGE_FETCH_LIMIT
    MaxMessages, MaxReadings    \* bounds

ASSUME ReadingAssumption ==
    /\ {BlockSize, BlockHistory, FetchLimit, MaxMessages, MaxReadings} \subseteq Nat
    /\ BlockSize > 0

VARIABLES
    block_number, current_block,
    proposed,           \* the block that waits for votes, or <<>>
    recovering,         \* "no", or whether this copy has closed the block it recovers
    finalized,          \* the last blocks, newest first
    arrived,            \* messages so far
    cursor,             \* what the client got last
    begun,              \* history: where the reading of a block began, [block, offset]
    read,               \* history: the messages it got from this block, newest first
    readings,           \* how many readings began
    kept,               \* history, kept[i]: the block of number i - 1 as it was when closed
    altered             \* history: a block was given up, or replaced by that of another node

readingVars == <<block_number, current_block, proposed, recovering, finalized, arrived, cursor,
                 begun, read, readings, kept, altered>>

-----------------------------------------------------------------------------

Cursor(block, offset) == [block |-> block, offset |-> offset]
INIT == Cursor(-1, 0)   \* the largest block number there is

ReadingInit ==
    /\ block_number = 0 /\ current_block = <<>> /\ proposed = <<>> /\ recovering = "no"
    /\ finalized = <<>> /\ arrived = 0
    /\ cursor = INIT /\ begun = INIT /\ read = <<>> /\ readings = 0
    /\ kept = <<>> /\ altered = FALSE

copy == <<block_number, current_block, proposed, recovering, finalized, arrived, kept, altered>>
reader == <<cursor, begun, read, readings>>

-----------------------------------------------------------------------------
(* The copy *)

PushToHistory(block) == <<block>> \o (IF Len(finalized) = BlockHistory THEN Front(finalized)
                                      ELSE finalized)

\* push_message: into the current block if it fits.
PushFits ==
    /\ arrived < MaxMessages /\ arrived' = arrived + 1
    /\ Len(current_block) < BlockSize
    /\ current_block' = Append(current_block, arrived)
    /\ UNCHANGED <<block_number, proposed, recovering, finalized, kept, altered, reader>>

\* push_message: the block is full.  It is proposed, or final at once when enough votes for it
\* are there, and the message is the first of the next block.
PushCloses ==
    /\ arrived < MaxMessages /\ arrived' = arrived + 1
    /\ Len(current_block) = BlockSize /\ proposed = <<>> /\ recovering = "no"
    /\ \/ proposed' = current_block /\ UNCHANGED finalized
       \/ finalized' = PushToHistory(current_block) /\ UNCHANGED proposed
    /\ kept' = Append(kept, current_block)
    /\ current_block' = <<arrived>>
    /\ block_number' = block_number + 1
    /\ UNCHANGED <<recovering, altered, reader>>

\* push_message: the block is full, and the majority has agreed on its number already.  It is
\* the block that was agreed on, or its messages are dropped.
PushClosesLate ==
    /\ arrived < MaxMessages /\ arrived' = arrived + 1
    /\ Len(current_block) = BlockSize /\ recovering = "open"
    /\ \/ /\ finalized' = PushToHistory(current_block)
          /\ recovering' = "no"
          /\ kept' = Append(kept, current_block)
          /\ block_number' = block_number + 1
          /\ UNCHANGED altered
       \/ /\ recovering' = "closed" /\ altered' = TRUE
          /\ UNCHANGED <<finalized, kept, block_number>>
    /\ current_block' = <<arrived>>
    /\ UNCHANGED <<proposed, reader>>

\* ProposeMsgBlock with the last vote needed for the proposed block.
Agreed == /\ proposed # <<>>
          /\ finalized' = PushToHistory(proposed)
          /\ proposed' = <<>>
          /\ UNCHANGED <<block_number, current_block, recovering, arrived, kept, altered, reader>>

\* ProposeMsgBlock with a majority for another block than the proposed one, which is dropped,
\* or for a block before this copy has closed its own.
Recover == /\ recovering = "no"
           /\ recovering' = IF proposed = <<>> THEN "open" ELSE "closed"
           /\ altered' = (altered \/ proposed # <<>>)
           /\ proposed' = <<>>
           /\ UNCHANGED <<block_number, current_block, finalized, arrived, kept, reader>>

\* SendBlock: the block of another node takes the place of the proposed one, with the messages
\* in the order of that node; or it is the one that was missing, and its messages leave the
\* current block.  The copy goes on recovering.
SendBlock ==
    /\ \/ /\ proposed # <<>>
          /\ finalized' = PushToHistory(Reverse(proposed))
          /\ UNCHANGED current_block
       \/ /\ recovering # "no" /\ current_block # <<>>
          /\ finalized' = PushToHistory(SubSeq(current_block, 1, 1))
          /\ current_block' = Tail(current_block)
    /\ proposed' = <<>>
    /\ altered' = TRUE
    /\ UNCHANGED <<block_number, recovering, arrived, kept, reader>>

-----------------------------------------------------------------------------
(* FetchMessages *)

\* Mutant of Blocks: the block that waits for votes is left out.
BlocksFinal == <<current_block>> \o finalized

\* The blocks there are, newest first.
Blocks == <<current_block>> \o (IF proposed = <<>> THEN <<>> ELSE <<proposed>>) \o finalized

Start(cur) == IF cur = INIT THEN Cursor(block_number, Len(current_block)) ELSE cur

\* A block that was read to its beginning: on to the block with the next number.
NextBlock(cur) == IF cur.offset = 0 THEN Cursor(cur.block + 1, 0) ELSE cur

\* saturating_sub
Index(cur) == IF block_number > cur.block THEN block_number - cur.block ELSE 0

\* The cursor once it has its place in the block, or INIT when there is nothing to read.
Place(cur) ==
    LET moved == NextBlock(Start(cur))
        block == Blocks[Index(moved) + 1]
        place == IF moved.offset = 0 THEN Cursor(moved.block, Len(block)) ELSE moved
    IN  IF \/ Start(cur) = Cursor(0, 0)
           \/ Index(moved) >= Len(Blocks)
           \/ place.offset > Len(block)
          THEN INIT ELSE place

\* The last FetchLimit messages before the cursor.
PageLength(place) == IF place.offset < FetchLimit THEN place.offset ELSE FetchLimit
Page(place) == SubSeq(Blocks[Index(place) + 1], place.offset - PageLength(place) + 1, place.offset)

FetchMessages ==
    LET place == Place(cursor)
    IN  /\ cursor = INIT => readings < MaxReadings
        /\ readings' = IF cursor = INIT THEN readings + 1 ELSE readings
        /\ IF place = INIT
             THEN cursor' = INIT /\ begun' = INIT /\ read' = <<>>
             ELSE /\ cursor.block < block_number + MaxReadings      \* bound
                  /\ cursor' = Cursor(place.block, place.offset - PageLength(place))
                  /\ begun' = IF cursor = INIT THEN place
                              ELSE IF cursor.offset = 0 THEN INIT ELSE begun
                  /\ read' = (IF cursor = INIT THEN <<>> ELSE read) \o Reverse(Page(place))
        /\ UNCHANGED copy

ReadingNext == \/ PushFits \/ PushCloses \/ PushClosesLate
               \/ Agreed \/ Recover \/ SendBlock
               \/ FetchMessages

-----------------------------------------------------------------------------

\* The messages of a block by its number, while it grows and after it was closed.
BlockOf(number) == IF number < block_number THEN kept[number + 1] ELSE current_block

\* However many messages arrive between two pages, and though the block that is read is closed,
\* agreed on and pushed down the list meanwhile, the pages of the block a reading began with
\* follow each other without a gap and without a message twice.  It ends where the copy has
\* dropped a block, which shifts the list against the numbers, or has taken one in the order of
\* another node; and at the beginning of the block, from where the cursor goes on to the block
\* with the next higher number.
PagesFollow ==
    begun # INIT /\ ~altered =>
        read = Reverse(SubSeq(BlockOf(begun.block), cursor.offset + 1, begun.offset))
=============================================================================
