----------------------------- MODULE ChatBlocks -----------------------------
(***************************************************************************)
(* Block finalization of one chat inside its replication group             *)
(* (nodes/server/src/handlers/chat.rs).                                    *)
(*                                                                         *)
(* Every node keeps its own copy of the chat.  A client sends a signed     *)
(* action to one node, the entry node, which executes it and replicates it *)
(* to the other nodes.  A copy collects messages in its current block;     *)
(* when a message does not fit, the block is hashed and the hash proposed  *)
(* to the other nodes, and a hash a majority agrees on becomes final.      *)
(*                                                                         *)
(* A message is the pair <<sender, nonce>>.  A block is the set of its     *)
(* messages, and since hash_block combines the SORTED message hashes, the  *)
(* hash of a block is that set too.  {} is the default (zero) hash, and    *)
(* also stands for the absent block.                                       *)
(***************************************************************************)
EXTENDS Integers, Sequences, FiniteSets

CONSTANTS
    Nodes,          \* the replication group: the RF + 1 nodes closest to the chat's name
    RF,             \* REPLICATION_FACTOR: how many other nodes hold a copy
    Users,
    Creators,       \* the users that create the chat
    Entry,          \* Entry[u]: the nodes the client of user u talks to
    BlockSize,      \* messages that fit into a block
    BlockHistory,   \* finalized blocks a copy remembers
    OverflowChecks, \* does integer underflow panic (debug) or wrap (release)
    MaxNonce,       \* bound: the actions of one client
    MaxLosses,      \* bound: the requests the network loses
    Restarting,     \* bound: the nodes that restart
    MaxRestarts     \* bound: the restarts of one node

ASSUME GroupAssumption == RF \in Nat /\ IsFiniteSet(Nodes) /\ Cardinality(Nodes) = RF + 1
ASSUME SizeAssumption  == BlockSize \in Nat \ {0} /\ BlockHistory \in Nat \ {0}
ASSUME UserAssumption  == Creators \subseteq Users /\ Entry \in [Users -> SUBSET Nodes]
ASSUME BoundAssumption == /\ MaxNonce \in Nat /\ MaxLosses \in Nat /\ MaxRestarts \in Nat
                          /\ OverflowChecks \in BOOLEAN

VARIABLES
    chat,       \* chat[n]: the copy of the chat in the storage of node n
    up,         \* up[n]: FALSE once a handler of n has panicked
    net,        \* net[m][n]: the requests on the stream from m to n
    nonce,      \* nonce[u]: the nonce of the last action the client of u has signed
    losses,     \* requests lost so far
    restarts,   \* restarts[n]: restarts of n so far
    proposals   \* history: the [by, epoch, number, hash] of every proposal sent out

vars == <<chat, up, net, nonce, losses, restarts, proposals>>

-----------------------------------------------------------------------------

NoHash    == {}
NotMember == -1
Messages  == Users \X (0 .. MaxNonce)
Hashes    == SUBSET Messages
Majority  == RF \div 2

\* The default BlockStage is Unfinalized, with no proposed block and no hash from anyone.
DefaultStage == [tag |-> "Unfinalized", proposed |-> NoHash,
                 others |-> [n \in Nodes |-> NoHash],
                 final_hash |-> NoHash, we_finalized |-> FALSE]

Recovering(final, we) == [DefaultStage EXCEPT !.tag = "Recovering",
                                              !.final_hash = final, !.we_finalized = we]

NoChat == [exists |-> FALSE, members |-> [u \in Users |-> NotMember], finalized |-> <<>>,
           current_block |-> {}, block_number |-> 0, stage |-> DefaultStage]

NewChat(id) == [NoChat EXCEPT !.exists = TRUE, !.members = [@ EXCEPT ![id] = 0]]

\* How many of the other nodes are known to have hash h.
Votes(others, h) == Cardinality({m \in Nodes : others[m] = h})

\* block_number - 1 underflows when a node that recovers has not closed block 0.
LastFinalizedBlock(c) ==
    c.block_number - IF c.stage.tag = "Recovering" \/ c.stage.proposed # NoHash THEN 1 ELSE 0

\* Mutant of PushToFinalized: the oldest block is never dropped.
PushToFinalizedUnbounded(c, block) == [c EXCEPT !.finalized = <<block>> \o @]

PushToFinalized(c, block) ==
    [c EXCEPT !.finalized =
        <<block>> \o (IF Len(@) = BlockHistory THEN SubSeq(@, 1, Len(@) - 1) ELSE @)]

\* Mutant of FinalizeCurrentBlock: the block that is final at once keeps its number.
FinalizeCurrentBlockSameNumber(c) ==
    [PushToFinalized(c, c.current_block) EXCEPT !.stage = DefaultStage, !.current_block = {}]

FinalizeCurrentBlock(c) ==
    [PushToFinalized(c, c.current_block) EXCEPT
        !.stage = DefaultStage, !.current_block = {}, !.block_number = @ + 1]

-----------------------------------------------------------------------------
(* push_message *)

Fits(c) == Cardinality(c.current_block) < BlockSize

\* Mutant of NotFinalized: a second block is closed while the first is being voted on.
NotFinalizedIgnored(c) == ~Fits(c) /\ c.stage.tag = "Recovering" /\ c.stage.we_finalized

\* The full block cannot be closed: the previous one is not finalized yet.
NotFinalized(c) ==
    ~Fits(c) /\ IF c.stage.tag = "Unfinalized" THEN c.stage.proposed # NoHash
                                                ELSE c.stage.we_finalized

\* The full block is not known to be final: it is proposed, or given up while recovering.
ProposeOrDiscard(c) ==
    IF c.stage.tag = "Unfinalized"
      THEN [c EXCEPT !.stage.proposed = c.current_block, !.current_block = {},
                     !.block_number = @ + 1]
      ELSE [c EXCEPT !.stage.we_finalized = TRUE, !.current_block = {}]

CloseBlock(c) ==
    LET final == IF c.stage.tag = "Unfinalized"
                   THEN Votes(c.stage.others, c.current_block) >= Majority
                   ELSE c.stage.final_hash = c.current_block
    IN  IF final THEN FinalizeCurrentBlock(c) ELSE ProposeOrDiscard(c)

PushMessage(c, msg) ==
    [(IF Fits(c) THEN c ELSE CloseBlock(c)) EXCEPT !.current_block = @ \cup {msg}]

-----------------------------------------------------------------------------
(* PerformChatAction *)

\* The sender is a member and its nonce is newer than the last one.
Permitted(c, req) == /\ c.exists
                     /\ c.members[req.by] # NotMember
                     /\ req.nonce > c.members[req.by]

\* Mutant of Succeeds: adding a member that is there already starts its nonce over.
SucceedsReinserting(c, req) ==
    /\ Permitted(c, req)
    /\ req.type = "SendMessage" => ~NotFinalized(c)
    /\ req.type # "LargeMessage"

Succeeds(c, req) ==
    /\ Permitted(c, req)
    /\ CASE req.type = "AddUser"     -> c.members[req.id] = NotMember
         [] req.type = "SendMessage" -> ~NotFinalized(c)
         [] OTHER                    -> FALSE     \* MessageTooLarge

\* The nonce is advanced first: an action that fails later has still used it up.
Perform(c, req) ==
    LET d == [c EXCEPT !.members[req.by] = req.nonce]
    IN  IF ~Permitted(c, req) THEN c
        ELSE IF ~Succeeds(c, req) THEN d
        ELSE IF req.type = "AddUser" THEN [d EXCEPT !.members[req.id] = 0]
        ELSE PushMessage(d, <<req.by, req.nonce - 1>>)

\* Does the action close the current block, and so send a proposal?
Closes(c, req) == req.type = "SendMessage" /\ Succeeds(c, req) /\ ~Fits(c)

-----------------------------------------------------------------------------
(* Requests, and the streams that carry them *)

CreateChatReq(id)        == [type |-> "CreateChat", id |-> id]
AddUserReq(by, k, id)    == [type |-> "AddUser", by |-> by, nonce |-> k, id |-> id]
SendMessageReq(by, k)    == [type |-> "SendMessage", by |-> by, nonce |-> k]
LargeMessageReq(by, k)   == [type |-> "LargeMessage", by |-> by, nonce |-> k]
ProposeReq(number, hash) == [type |-> "ProposeMsgBlock", number |-> number, hash |-> hash]
SendBlockReq(number, b)  == [type |-> "SendBlock", number |-> number, block |-> b]

\* The next request on the stream from m to n, and the streams once n has taken it.
Next1(m, n)     == net[m][n][1]
Arrives(m, n, types) == up[n] /\ net[m][n] # <<>> /\ Next1(m, n).type \in types
Taken(m, n)     == [net EXCEPT ![m][n] = Tail(@)]

\* n sends the requests of a sequence to every other node.
FanOut(streams, n, reqs) ==
    [streams EXCEPT ![n] = [m \in Nodes |-> IF m = n THEN @[m] ELSE @[m] \o reqs]]

\* Mutant of ProposalsOf: a node that finalizes its block at once does not tell anyone.
ProposalsOfUndecided(n, req) ==
    IF Closes(chat[n], req) /\ Votes(chat[n].stage.others, chat[n].current_block) < Majority
      THEN <<ProposeReq(chat[n].block_number, chat[n].current_block)>> ELSE <<>>

\* The requests n sends out while it performs an action.
ProposalsOf(n, req) ==
    IF Closes(chat[n], req)
      THEN <<ProposeReq(chat[n].block_number, chat[n].current_block)>> ELSE <<>>

RecordProposal(n, req) ==
    proposals' = proposals \cup
        IF Closes(chat[n], req)
          THEN {[by |-> n, epoch |-> restarts[n], number |-> chat[n].block_number,
                 hash |-> chat[n].current_block]}
          ELSE {}

Init ==
    /\ chat = [n \in Nodes |-> NoChat]
    /\ up = [n \in Nodes |-> TRUE]
    /\ net = [m \in Nodes |-> [n \in Nodes |-> <<>>]]
    /\ nonce = [u \in Users |-> 0]
    /\ losses = 0
    /\ restarts = [n \in Nodes |-> 0]
    /\ proposals = {}

-----------------------------------------------------------------------------
(* Client requests at the entry node e: executed, then replicated if they succeed. *)

CreateChat(u, e) ==
    /\ u \in Creators /\ e \in Entry[u] /\ up[e]
    /\ ~chat[e].exists
    /\ chat' = [chat EXCEPT ![e] = NewChat(u)]
    /\ net' = FanOut(net, e, <<CreateChatReq(u)>>)
    /\ UNCHANGED <<up, nonce, losses, restarts, proposals>>

PerformChatAction(u, e, req) ==
    /\ e \in Entry[u] /\ up[e] /\ nonce[u] < MaxNonce
    /\ nonce' = [nonce EXCEPT ![u] = @ + 1]
    /\ chat' = [chat EXCEPT ![e] = Perform(@, req)]
    /\ net' = FanOut(net, e, ProposalsOf(e, req) \o
                             IF Succeeds(chat[e], req) THEN <<req>> ELSE <<>>)
    /\ RecordProposal(e, req)
    /\ UNCHANGED <<up, losses, restarts>>

AddUser(u, e, id)  == PerformChatAction(u, e, AddUserReq(u, nonce[u] + 1, id))
SendMessage(u, e)  == PerformChatAction(u, e, SendMessageReq(u, nonce[u] + 1))
LargeMessage(u, e) == PerformChatAction(u, e, LargeMessageReq(u, nonce[u] + 1))

-----------------------------------------------------------------------------
(* Requests from another node m of the group at node n. *)

ReceiveCreateChat(m, n) ==
    /\ Arrives(m, n, {"CreateChat"})
    /\ chat' = [chat EXCEPT ![n] = IF @.exists THEN @ ELSE NewChat(Next1(m, n).id)]
    /\ net' = Taken(m, n)
    /\ UNCHANGED <<up, nonce, losses, restarts, proposals>>

ReceiveChatAction(m, n) ==
    /\ Arrives(m, n, {"AddUser", "SendMessage"})
    /\ chat' = [chat EXCEPT ![n] = Perform(@, Next1(m, n))]
    /\ net' = FanOut(Taken(m, n), n, ProposalsOf(n, Next1(m, n)))
    /\ RecordProposal(n, Next1(m, n))
    /\ UNCHANGED <<up, nonce, losses, restarts>>

\* The stage after m's vote for hash is counted.
WeMatch(c, hash) == c.stage.proposed = hash

OthersWith(c, m, hash) == [c.stage.others EXCEPT ![m] = hash]

\* Mutant of Enough: half of the group is enough.
EnoughHalf(c, m, hash) ==
    Votes(OthersWith(c, m, hash), hash) >= Majority - IF WeMatch(c, hash) THEN 1 ELSE 0

Enough(c, m, hash) ==
    Votes(OthersWith(c, m, hash), hash) > Majority - IF WeMatch(c, hash) THEN 1 ELSE 0

CountVote(c, m, hash) ==
    IF ~Enough(c, m, hash) THEN [c EXCEPT !.stage.others = OthersWith(c, m, hash)]
    ELSE IF WeMatch(c, hash)
      THEN [PushToFinalized(c, c.stage.proposed) EXCEPT !.stage = DefaultStage]
      ELSE [c EXCEPT !.stage = Recovering(hash, c.stage.proposed # NoHash)]

\* todo!("no majority, we need to initialize recovery")
NoMajority(c, n, m, hash) ==
    /\ ~Enough(c, m, hash)
    /\ c.stage.proposed # NoHash
    /\ \A k \in Nodes \ {n} : OthersWith(c, m, hash)[k] # NoHash

\* The todo!s of ProposeMsgBlock.  An underflown block number panics at once, or
\* wraps to one that is far ahead of every proposal.
ProposePanics(c, n, m, req) ==
    LET our == LastFinalizedBlock(c)
    IN  \/ our < 0
        \/ req.number < our - 1
        \/ req.number > our + 1
        \/ req.number >= our /\ c.stage.tag = "Unfinalized" /\ NoMajority(c, n, m, req.hash)

\* The proposal is one block late, and its block is not the one we have finalized.
AnswersWithBlock(c, req) ==
    /\ req.number < LastFinalizedBlock(c)
    /\ c.finalized # <<>>
    /\ c.finalized[1] # req.hash

ReceiveProposeMsgBlock(m, n) ==
    LET c   == chat[n]
        req == Next1(m, n)
    IN  /\ Arrives(m, n, {"ProposeMsgBlock"})
        /\ ~(c.exists /\ ProposePanics(c, n, m, req))
        /\ chat' = IF c.exists /\ req.number >= LastFinalizedBlock(c)
                               /\ c.stage.tag = "Unfinalized"
                     THEN [chat EXCEPT ![n] = CountVote(c, m, req.hash)] ELSE chat
        /\ net' = IF c.exists /\ AnswersWithBlock(c, req)
                    THEN [Taken(m, n) EXCEPT
                             ![n][m] = Append(@, SendBlockReq(req.number, c.finalized[1]))]
                    ELSE Taken(m, n)
        /\ UNCHANGED <<up, nonce, losses, restarts, proposals>>

\* SendBlock while our own proposal is pending: the sender's hash is a vote too.
AcceptAgainstProposal(c, m, block) ==
    LET others == OthersWith(c, m, block)
    IN  IF Votes(others, block) < Majority THEN [c EXCEPT !.stage.others = others]
        ELSE [PushToFinalized(c, block) EXCEPT !.stage = DefaultStage]

\* SendBlock while recovering: neither the stage nor the block number changes.
AcceptRecovered(c, block) ==
    IF block # c.stage.final_hash THEN c
    ELSE [PushToFinalized(c, block) EXCEPT !.current_block = @ \ block]

ReceiveSendBlock(m, n) ==
    LET c     == chat[n]
        block == Next1(m, n).block
    IN  /\ Arrives(m, n, {"SendBlock"})
        /\ ~(c.exists /\ LastFinalizedBlock(c) < 0 /\ OverflowChecks)
        /\ chat' = [chat EXCEPT ![n] =
               IF ~c.exists \/ LastFinalizedBlock(c) # Next1(m, n).number THEN c
               ELSE IF c.stage.tag = "Recovering" THEN AcceptRecovered(c, block)
               ELSE IF c.stage.proposed # NoHash THEN AcceptAgainstProposal(c, m, block)
               ELSE c]
        /\ net' = Taken(m, n)
        /\ UNCHANGED <<up, nonce, losses, restarts, proposals>>

\* A handler panics and takes the process with it (panic = "abort").
Panic(m, n) ==
    LET c == chat[n]
    IN  /\ Arrives(m, n, {"ProposeMsgBlock", "SendBlock"})
        /\ c.exists
        /\ IF Next1(m, n).type = "SendBlock" THEN LastFinalizedBlock(c) < 0 /\ OverflowChecks
                                             ELSE ProposePanics(c, n, m, Next1(m, n))
        /\ up' = [up EXCEPT ![n] = FALSE]
        /\ net' = Taken(m, n)
        /\ UNCHANGED <<chat, nonce, losses, restarts, proposals>>

-----------------------------------------------------------------------------
(* Failures *)

\* rpc drops a request to a peer it is still resolving a stream for, and a closed
\* connection takes what it still carried with it.
Lose(m, n) ==
    /\ net[m][n] # <<>> /\ losses < MaxLosses
    /\ net' = Taken(m, n)
    /\ losses' = losses + 1
    /\ UNCHANGED <<chat, up, nonce, restarts, proposals>>

\* The storage is in memory: a node comes back without its chats.
Restart(n) ==
    /\ n \in Restarting /\ restarts[n] < MaxRestarts
    /\ restarts' = [restarts EXCEPT ![n] = @ + 1]
    /\ up' = [up EXCEPT ![n] = TRUE]
    /\ chat' = [chat EXCEPT ![n] = NoChat]
    /\ net' = [m \in Nodes |-> [net[m] EXCEPT ![n] = <<>>]]
    /\ UNCHANGED <<nonce, losses, proposals>>

Next ==
    \/ \E u \in Users, e \in Nodes :
         \/ CreateChat(u, e)
         \/ \E id \in Users : AddUser(u, e, id)
         \/ SendMessage(u, e)
         \/ LargeMessage(u, e)
    \/ \E m, n \in Nodes :
         \/ ReceiveCreateChat(m, n)
         \/ ReceiveChatAction(m, n)
         \/ ReceiveProposeMsgBlock(m, n)
         \/ ReceiveSendBlock(m, n)
         \/ Panic(m, n)
         \/ Lose(m, n)
    \/ \E n \in Nodes : Restart(n)

Spec == Init /\ [][Next]_vars

\* A node polls all its streams: what arrived is eventually handled.
Handle(m, n) == \/ ReceiveCreateChat(m, n)
                \/ ReceiveChatAction(m, n)
                \/ ReceiveProposeMsgBlock(m, n)
                \/ ReceiveSendBlock(m, n)
                \/ Panic(m, n)

FairSpec == Spec /\ \A m, n \in Nodes : WF_vars(Handle(m, n))

-----------------------------------------------------------------------------
(* Properties *)

Stages == [tag : {"Unfinalized", "Recovering"}, proposed : Hashes, others : [Nodes -> Hashes],
           final_hash : Hashes, we_finalized : BOOLEAN]

Chats == [exists : BOOLEAN, members : [Users -> Nat \cup {NotMember}], finalized : Seq(Hashes),
          current_block : Hashes, block_number : Nat, stage : Stages]

Requests ==
    [type : {"CreateChat"}, id : Users]
    \cup [type : {"AddUser"}, by : Users, nonce : 1 .. MaxNonce, id : Users]
    \cup [type : {"SendMessage"}, by : Users, nonce : 1 .. MaxNonce]
    \cup [type : {"ProposeMsgBlock"}, number : Nat, hash : Hashes]
    \cup [type : {"SendBlock"}, number : Nat, block : Hashes]

\* Every variable has its type; the history of a copy never outgrows BLOCK_HISTORY.
TypeOK ==
    /\ chat \in [Nodes -> Chats]
    /\ \A n \in Nodes : Len(chat[n].finalized) <= BlockHistory
    /\ up \in [Nodes -> BOOLEAN]
    /\ net \in [Nodes -> [Nodes -> Seq(Requests)]]
    /\ nonce \in [Users -> 0 .. MaxNonce]
    /\ losses \in 0 .. MaxLosses
    /\ restarts \in [Nodes -> 0 .. MaxRestarts]
    /\ proposals \subseteq [by : Nodes, epoch : Nat, number : Nat, hash : Hashes]

\* The nodes that have sent a proposal of the hash; are they a majority of the group?
Proposers(sent, hash) == {n \in Nodes : \E p \in sent : p.by = n /\ p.hash = hash}
Backed(sent, hash)    == Cardinality(Proposers(sent, hash)) > Majority

\* Whatever a copy finalized, or waits for in order to finalize it, was proposed by a
\* majority of the group: votes counted twice, votes left over from another block and
\* blocks passed on by SendBlock never make a minority block final.
QuorumBacked ==
    \A n \in Nodes :
        /\ \A i \in 1 .. Len(chat[n].finalized) : Backed(proposals, chat[n].finalized[i])
        /\ chat[n].stage.tag = "Recovering" => Backed(proposals, chat[n].stage.final_hash)

\* A node does not vote for two blocks under one number, whichever way its current
\* block is closed (proposed, finalized at once, or discarded while recovering).
OneProposalPerNumber ==
    \A p, q \in proposals :
        (p.by = q.by /\ p.epoch = q.epoch /\ p.number = q.number) => p.hash = q.hash

\* The block with the given number in the history of a copy, as FetchMessages finds it.
HistoryNumbers(c) == {LastFinalizedBlock(c) - i : i \in 1 .. Len(c.finalized)}
HistoryBlock(c, number) == c.finalized[LastFinalizedBlock(c) - number]

\* Two copies that are not recovering have the same block under the same number.
BlockAgreement ==
    \A m, n \in Nodes :
        (chat[m].stage.tag = "Unfinalized" /\ chat[n].stage.tag = "Unfinalized") =>
            \A k \in HistoryNumbers(chat[m]) \cap HistoryNumbers(chat[n]) :
                HistoryBlock(chat[m], k) = HistoryBlock(chat[n], k)

\* No message is in the open block and in the proposed one at once, and the nonce of
\* every message there is used up: a copy cannot take the same message again, although
\* it advances the nonce before it knows whether the action succeeds.
NoReplay ==
    \A n \in Nodes :
        LET c == chat[n]
        IN  /\ c.current_block \cap c.stage.proposed = {}
            /\ \A msg \in c.current_block \cup c.stage.proposed : msg[2] < c.members[msg[1]]

\* A vote about a proposed block comes to an end (the block is final, or another one
\* is), unless a node has panicked.
VoteEnds ==
    \A n \in Nodes, k \in 1 .. MaxNonce :
        (chat[n].stage.proposed # NoHash /\ chat[n].block_number = k)
            ~> (chat[n].stage.proposed = NoHash \/ \E m \in Nodes : ~up[m])
=============================================================================
