---------------------------- MODULE MCStructures ----------------------------
(***************************************************************************)
(* Parts that keep a structure of their own, each against what it stands   *)
(* for: the register of user names, the contract of the stakes with the    *)
(* tables of the servers that follow it, the routing table, the pages of a *)
(* chat, the messages of a block, the buffer of a stream, a relay's        *)
(* channel, the numbers under which a client acts and saves, the codec of  *)
(* messages, and shares from which data is restored.  They do not share    *)
(* state; a behaviour is one of one of them.                               *)
(***************************************************************************)
EXTENDS UserManager, RoutingTable, Reading, Messages, PacketWriter, Relaying, ClientState, Fec,
        WireCodec, Membership

VARIABLE part

structureVars == <<part, vars, routes, readingVars, messagesVars, writerVars, relayingVars,
                   stateVars, fecVars, codecVars, memberVars>>

\* The owners of stakes are interchangeable, and so are the identities they stake under.
Symmetry == Permutations(Owners) \cup Permutations(Identities)

\* What is encoded: two blocks that have no byte in common.
TwoBlocks == {[i \in 0 .. required - 1 |-> [p \in 1 .. BlockLen |-> 7 * i + 100 * p]]}

StructuresInit ==
    /\ part \in {"users", "routes", "reading", "messages", "writer", "relaying", "acting", "saving",
                 "shares", "codec", "members"}
    /\ IF part = "routes" THEN RoutesInit ELSE routes = <<>>
    /\ MessagesInit /\ (part # "messages" => packed = <<>> /\ keeps = {})
    /\ Init /\ ReadingInit /\ WriterInit /\ RelayingInit /\ StateInit /\ FecInit
    /\ IF part = "shares" THEN GaloisInit ELSE LOG_TABLE = <<>> /\ EXP_TABLE = <<>> /\ INV_TABLE = <<>>
    /\ CodecInit /\ (part # "codec" => codec = 1)
    /\ MemberInit

StructuresNext ==
    /\ \/ /\ part = "users" /\ Next
          /\ UNCHANGED <<routes, readingVars, messagesVars, writerVars, relayingVars, stateVars, fecVars, codecVars>>
       \/ /\ part = "routes" /\ RoutesNext
          /\ UNCHANGED <<vars, readingVars, messagesVars, writerVars, relayingVars, stateVars, fecVars, codecVars>>
       \/ /\ part = "reading" /\ ReadingNext
          /\ UNCHANGED <<vars, routes, messagesVars, writerVars, relayingVars, stateVars, fecVars, codecVars>>
       \/ /\ part = "messages" /\ MessagesNext
          /\ UNCHANGED <<vars, routes, readingVars, writerVars, relayingVars, stateVars, fecVars, codecVars>>
       \/ /\ part = "writer" /\ WriterNext
          /\ UNCHANGED <<vars, routes, readingVars, messagesVars, relayingVars, stateVars, fecVars, codecVars>>
       \/ /\ part = "relaying" /\ RelayingNext
          /\ UNCHANGED <<vars, routes, readingVars, messagesVars, writerVars, stateVars, fecVars, codecVars>>
       \/ /\ \/ part = "acting" /\ ActingNext
             \/ part = "saving" /\ SavingNext
          /\ UNCHANGED <<vars, routes, readingVars, messagesVars, writerVars, relayingVars, fecVars, codecVars>>
       \/ /\ part = "shares" /\ FecNext
          /\ UNCHANGED <<vars, routes, readingVars, messagesVars, writerVars, relayingVars, stateVars, codecVars>>
       \/ /\ part = "codec" /\ CodecNext
          /\ UNCHANGED <<vars, routes, readingVars, messagesVars, writerVars, relayingVars, stateVars, fecVars>>
       \/ /\ part = "members" /\ MemberNext
          /\ UNCHANGED <<vars, routes, readingVars, messagesVars, writerVars, relayingVars, stateVars, fecVars, codecVars>>
    /\ part # "members" => UNCHANGED memberVars
    /\ UNCHANGED part

StructuresSpec == StructuresInit /\ [][StructuresNext]_structureVars
=============================================================================
