-------------------------- MODULE ChatBlocksProofs --------------------------
(***************************************************************************)
(* Proofs about ChatBlocks, for every group, block size and set of users.  *)
(*                                                                         *)
(* QuorumBacked is not inductive: whether a vote may be counted depends on *)
(* where it came from.  Trusted(sent, n) strengthens it, with the set      *)
(* sent of all proposals as a parameter so that it can be carried from one *)
(* state to the next: every vote a copy holds comes from a node that sent  *)
(* such a proposal, or is for a block a majority proposed.                 *)
(***************************************************************************)
EXTENDS ChatBlocks, FiniteSetTheorems, SequenceTheorems, TLAPS

BackedHashes(sent) == {h \in Hashes : Backed(sent, h)}

\* The copies node n may have when the proposals in sent have been sent.
Trusted(sent, n) ==
    {c \in Chats :
        /\ Len(c.finalized) <= BlockHistory
        /\ c.finalized \in Seq(BackedHashes(sent))
        /\ c.stage.tag = "Recovering" => Backed(sent, c.stage.final_hash)
        /\ c.stage.proposed # NoHash => n \in Proposers(sent, c.stage.proposed)
        /\ c.stage.others[n] = NoHash
        /\ \A m \in Nodes : c.stage.others[m] # NoHash =>
              \/ m \in Proposers(sent, c.stage.others[m])
              \/ Backed(sent, c.stage.others[m])}

\* The requests node m may have on its streams.
Honest(sent, m) ==
    {r \in Requests :
        /\ r.type = "ProposeMsgBlock" => r.hash # NoHash /\ m \in Proposers(sent, r.hash)
        /\ r.type = "SendBlock" => Backed(sent, r.block)}

HonestStreams(sent, streams) ==
    /\ streams \in [Nodes -> [Nodes -> Seq(Requests)]]
    /\ \A m, n \in Nodes : streams[m][n] \in Seq(Honest(sent, m))
    /\ \A n \in Nodes : streams[n][n] = <<>>

Proposals == [by : Nodes, epoch : Nat, number : Nat, hash : Hashes \ {NoHash}]

QuorumInv ==
    /\ chat \in [Nodes -> Chats]
    /\ \A n \in Nodes : chat[n] \in Trusted(proposals, n)
    /\ up \in [Nodes -> BOOLEAN]
    /\ HonestStreams(proposals, net)
    /\ nonce \in [Users -> 0 .. MaxNonce]
    /\ losses \in 0 .. MaxLosses
    /\ restarts \in [Nodes -> 0 .. MaxRestarts]
    /\ proposals \subseteq Proposals

-----------------------------------------------------------------------------
(* Counting votes *)

\* Proposers and votes are finite sets of nodes, whose sizes are numbers.
LEMMA NodeSets ==
    ASSUME NEW S \in SUBSET Nodes
    PROVE  IsFiniteSet(S) /\ Cardinality(S) \in Nat /\ Majority \in Nat
<1>1. IsFiniteSet(S)
  BY FS_Subset, GroupAssumption
<1>2. Majority \in Nat
  BY GroupAssumption DEF Majority
<1> QED
  BY <1>1, <1>2, FS_CardinalityType

\* Backing only grows while proposals are sent.
LEMMA BackedMono ==
    ASSUME NEW sent, NEW more, sent \subseteq more, NEW h, Backed(sent, h)
    PROVE  Backed(more, h)
<1>1. Proposers(sent, h) \subseteq Proposers(more, h) /\ Proposers(more, h) \subseteq Nodes
  BY DEF Proposers
<1>2. Cardinality(Proposers(sent, h)) <= Cardinality(Proposers(more, h))
  BY <1>1, FS_Subset, NodeSets
<1> QED
  BY <1>1, <1>2, NodeSets DEF Backed

\* The votes a copy holds for a hash never exceed what was really proposed: with more
\* than half of the others, or half of them and its own proposal, the hash is backed.
LEMMA CountedVotes ==
    ASSUME NEW sent, NEW n \in Nodes, NEW h \in Hashes, h # NoHash,
           NEW others \in [Nodes -> Hashes], others[n] = NoHash,
           \A m \in Nodes : others[m] # NoHash =>
               m \in Proposers(sent, others[m]) \/ Backed(sent, others[m])
    PROVE  /\ Votes(others, h) \in Nat
           /\ Votes(others, h) > Majority => Backed(sent, h)
           /\ Votes(others, h) >= Majority /\ n \in Proposers(sent, h) => Backed(sent, h)
<1> DEFINE V == {m \in Nodes : others[m] = h}
           P == Proposers(sent, h)
<1>1. V \subseteq Nodes /\ P \subseteq Nodes /\ n \notin V /\ Votes(others, h) = Cardinality(V)
  BY DEF Proposers, Votes
<1>2. /\ IsFiniteSet(V) /\ Cardinality(V) \in Nat
      /\ IsFiniteSet(P) /\ Cardinality(P) \in Nat /\ Majority \in Nat
  BY <1>1, NodeSets
<1>3. CASE Backed(sent, h)
  BY <1>1, <1>2, <1>3
<1>4. CASE ~Backed(sent, h)
  <2>1. V \subseteq P
    BY <1>4
  <2>2. Cardinality(V) <= Cardinality(P)
    BY <1>2, <2>1, FS_Subset
  <2>3. ASSUME n \in P PROVE Cardinality(V) + 1 <= Cardinality(P)
    <3>1. V \cup {n} \subseteq P
      BY <2>1, <2>3
    <3>2. Cardinality(V \cup {n}) = Cardinality(V) + 1
      BY <1>1, <1>2, FS_AddElement
    <3> QED
      BY <1>2, <3>1, <3>2, FS_Subset
  <2> QED
    BY <1>1, <1>2, <2>2, <2>3 DEF Backed
<1> QED
  BY <1>3, <1>4

-----------------------------------------------------------------------------
(* Copies stay trusted *)

\* A copy that is trusted stays trusted when more proposals have been sent.
LEMMA TrustedMono ==
    ASSUME NEW sent, NEW more, sent \subseteq more, NEW n \in Nodes
    PROVE  Trusted(sent, n) \subseteq Trusted(more, n)
<1> SUFFICES ASSUME NEW c \in Trusted(sent, n) PROVE c \in Trusted(more, n)
  OBVIOUS
<1>1. \A h : Backed(sent, h) => Backed(more, h)
  BY BackedMono
<1>2. \A h : Proposers(sent, h) \subseteq Proposers(more, h)
  BY DEF Proposers
<1>3. BackedHashes(sent) \subseteq BackedHashes(more)
  BY <1>1 DEF BackedHashes
<1>4. c.finalized \in Seq(BackedHashes(more))
  BY <1>3, SeqMonotonic DEF Trusted
<1> QED
  BY <1>1, <1>2, <1>4 DEF Trusted

\* A request that is honest stays honest when more proposals have been sent.
LEMMA HonestMono ==
    ASSUME NEW sent, NEW more, sent \subseteq more, NEW m \in Nodes
    PROVE  Honest(sent, m) \subseteq Honest(more, m)
<1>1. \A h : Backed(sent, h) => Backed(more, h)
  BY BackedMono
<1>2. \A h : Proposers(sent, h) \subseteq Proposers(more, h)
  BY DEF Proposers
<1> QED
  BY <1>1, <1>2 DEF Honest

\* The stages of a block have their types and start without a vote.
LEMMA StageTypes ==
    /\ NoHash \in Hashes
    /\ DefaultStage \in Stages
    /\ DefaultStage.tag = "Unfinalized" /\ DefaultStage.proposed = NoHash
    /\ \A m \in Nodes : DefaultStage.others[m] = NoHash
    /\ \A h \in Hashes, we \in BOOLEAN :
          /\ Recovering(h, we) \in Stages
          /\ Recovering(h, we).tag = "Recovering" /\ Recovering(h, we).final_hash = h
          /\ Recovering(h, we).proposed = NoHash
          /\ \A m \in Nodes : Recovering(h, we).others[m] = NoHash
BY DEF DefaultStage, Recovering, Stages, NoHash, Hashes

\* A copy that does not exist, or has just been created, has nothing to back.
LEMMA NewChatTrusted ==
    ASSUME NEW sent, NEW n \in Nodes
    PROVE  /\ NoChat \in Trusted(sent, n)
           /\ \A u \in Users : NewChat(u) \in Trusted(sent, n)
<1>1. <<>> \in Seq(Hashes) /\ <<>> \in Seq(BackedHashes(sent)) /\ Len(<<>>) <= BlockHistory
  BY SizeAssumption, EmptySeq
<1>2. {} \in Hashes /\ DefaultStage \in Stages
  BY StageTypes DEF Hashes
<1>3. NoChat \in Chats
  BY <1>1, <1>2 DEF NoChat, Chats, NotMember
<1>4. ASSUME NEW u \in Users PROVE NewChat(u) \in Chats
  <2>1. [NoChat.members EXCEPT ![u] = 0] \in [Users -> Nat \cup {NotMember}]
    BY <1>3 DEF Chats
  <2> QED
    BY <1>3, <2>1 DEF NewChat, Chats
<1>5. ASSUME NEW c \in Chats, c.finalized = <<>>, c.stage = DefaultStage
      PROVE  c \in Trusted(sent, n)
  BY <1>1, <1>5, StageTypes DEF Trusted
<1>6. /\ NoChat.finalized = <<>> /\ NoChat.stage = DefaultStage
      /\ \A u \in Users : NewChat(u).finalized = <<>> /\ NewChat(u).stage = DefaultStage
  BY <1>3 DEF NewChat, NoChat, Chats
<1> QED
  BY <1>3, <1>4, <1>5, <1>6

\* A copy whose stage is replaced by the default one stays trusted.
LEMMA ResetTrusted ==
    ASSUME NEW sent, NEW n \in Nodes, NEW c \in Trusted(sent, n)
    PROVE  [c EXCEPT !.stage = DefaultStage] \in Trusted(sent, n)
BY StageTypes DEF Trusted, Chats

\* A backed block may be put into the history of a copy.
LEMMA PushTrusted ==
    ASSUME NEW sent, NEW n \in Nodes, NEW c \in Trusted(sent, n),
           NEW b \in Hashes, Backed(sent, b)
    PROVE  PushToFinalized(c, b) \in Trusted(sent, n)
<1> DEFINE f == c.finalized
           g == IF Len(f) = BlockHistory THEN SubSeq(f, 1, Len(f) - 1) ELSE f
           B == BackedHashes(sent)
<1>1. c \in Chats /\ f \in Seq(B) /\ Len(f) <= BlockHistory /\ Len(f) \in Nat /\ b \in B
  BY DEF Trusted, BackedHashes, Chats
<1>2. g \in Seq(B) /\ Len(g) + 1 <= BlockHistory
  <2>1. CASE Len(f) = BlockHistory
    <3>1. \A i \in 1 .. Len(f) - 1 : f[i] \in B
      BY <1>1, ElementOfSeq
    <3>2. /\ SubSeq(f, 1, Len(f) - 1) \in Seq(B)
          /\ Len(SubSeq(f, 1, Len(f) - 1)) = IF 1 <= Len(f) - 1 THEN Len(f) - 1 ELSE 0
      BY <1>1, <3>1, SubSeqProperties
    <3> QED
      BY <1>1, <2>1, <3>2, SizeAssumption
  <2>2. CASE Len(f) # BlockHistory
    BY <1>1, <2>2, SizeAssumption
  <2> QED
    BY <2>1, <2>2
<1>3. <<b>> \in Seq(B) /\ Len(<<b>>) = 1
  BY <1>1
<1>4. <<b>> \o g \in Seq(B) /\ Len(<<b>> \o g) = 1 + Len(g) /\ Len(g) \in Nat
  BY <1>2, <1>3, ConcatProperties, LenProperties
<1>5. B \subseteq Hashes
  BY DEF BackedHashes
<1>6. <<b>> \o g \in Seq(Hashes)
  BY <1>4, <1>5, SeqMonotonic
<1>7. PushToFinalized(c, b) = [c EXCEPT !.finalized = <<b>> \o g]
  BY DEF PushToFinalized
<1>8. [c EXCEPT !.finalized = <<b>> \o g] \in Chats
  BY <1>1, <1>6 DEF Chats
<1>9. Len(<<b>> \o g) <= BlockHistory
  BY <1>2, <1>4, SizeAssumption
<1> HIDE DEF g, f
<1> QED
  BY <1>1, <1>4, <1>7, <1>8, <1>9 DEF Trusted, Chats

\* What a copy keeps besides its history and its stage does not matter.
LEMMA SameVotesTrusted ==
    ASSUME NEW sent, NEW n \in Nodes, NEW c \in Trusted(sent, n), NEW d \in Chats,
           d.finalized = c.finalized, d.stage = c.stage
    PROVE  d \in Trusted(sent, n)
BY DEF Trusted

\* A full block is not empty.
LEMMA FullBlock ==
    ASSUME NEW c \in Chats, ~Fits(c)
    PROVE  c.current_block # NoHash
BY FS_EmptySet, SizeAssumption DEF Fits, NoHash

\* A current block that is backed may be finalized (finalize_current_block).
LEMMA FinalizeTrusted ==
    ASSUME NEW sent, NEW n \in Nodes, NEW c \in Trusted(sent, n),
           Backed(sent, c.current_block)
    PROVE  FinalizeCurrentBlock(c) \in Trusted(sent, n)
<1> DEFINE d == PushToFinalized(c, c.current_block)
           e == [d EXCEPT !.stage = DefaultStage]
<1>1. c \in Chats /\ c.current_block \in Hashes
  BY DEF Trusted, Chats
<1>2. d \in Trusted(sent, n)
  BY <1>1, PushTrusted
<1> HIDE DEF d
<1>3. e \in Trusted(sent, n) /\ e \in Chats
  BY <1>2, ResetTrusted DEF Trusted
<1>4. d \in Chats
  BY <1>2 DEF Trusted
<1>5. FinalizeCurrentBlock(c) = [d EXCEPT !.stage = DefaultStage, !.current_block = {},
                                          !.block_number = @ + 1]
  BY DEF FinalizeCurrentBlock, d
<1> DEFINE g == [d EXCEPT !.stage = DefaultStage, !.current_block = {}, !.block_number = @ + 1]
<1>6. g.finalized = e.finalized /\ g.stage = e.stage
  BY <1>4 DEF Chats
<1>7. {} \in Hashes /\ d.block_number + 1 \in Nat
  BY <1>4 DEF Chats, Hashes
<1>8. g \in Chats
  BY <1>4, <1>7, StageTypes DEF Chats
<1> HIDE DEF g, e
<1>9. FinalizeCurrentBlock(c) = g
  BY <1>5 DEF g
<1> QED
  BY <1>3, <1>6, <1>8, <1>9, SameVotesTrusted

\* Closing a block keeps the copy trusted once its proposal is on the streams.
LEMMA CloseTrusted ==
    ASSUME NEW sent, NEW n \in Nodes, NEW c \in Trusted(sent, n), ~Fits(c),
           n \in Proposers(sent, c.current_block)
    PROVE  CloseBlock(c) \in Trusted(sent, n)
<1> DEFINE hash == c.current_block
<1>1. c \in Chats /\ hash \in Hashes /\ hash # NoHash /\ c.stage \in Stages
  BY FullBlock DEF Trusted, Chats
<1>2. CASE c.stage.tag = "Unfinalized" /\ Votes(c.stage.others, hash) >= Majority
  <2>1. Backed(sent, hash)
    BY <1>1, <1>2, CountedVotes DEF Trusted, Stages
  <2> QED
    BY <1>2, <2>1, FinalizeTrusted DEF CloseBlock
<1>3. CASE c.stage.tag = "Unfinalized" /\ ~(Votes(c.stage.others, hash) >= Majority)
  <2> DEFINE st == [c.stage EXCEPT !.proposed = hash]
             d  == [c EXCEPT !.stage = st, !.current_block = {}, !.block_number = @ + 1]
  <2>1. CloseBlock(c) = d
    BY <1>3 DEF CloseBlock, ProposeOrDiscard
  <2>2. st \in Stages /\ {} \in Hashes /\ c.block_number + 1 \in Nat
    <3>1. st \in Stages
      BY <1>1 DEF Stages
    <3>2. {} \in Hashes
      BY DEF Hashes
    <3>3. c.block_number + 1 \in Nat
      BY <1>1 DEF Chats
    <3> QED
      BY <3>1, <3>2, <3>3
  <2> HIDE DEF st
  <2>3. d.finalized = c.finalized /\ d \in Chats /\ d.stage = st
    BY <1>1, <2>2 DEF Chats
  <2>4. /\ d.stage.tag = "Unfinalized" /\ d.stage.proposed = hash
        /\ d.stage.others = c.stage.others
    BY <1>1, <1>3, <2>3 DEF Stages, st
  <2> HIDE DEF d
  <2> QED
    BY <2>1, <2>3, <2>4 DEF Trusted
<1>4. CASE c.stage.tag = "Recovering" /\ c.stage.final_hash = hash
  BY <1>4, FinalizeTrusted DEF CloseBlock, Trusted
<1>5. CASE c.stage.tag = "Recovering" /\ c.stage.final_hash # hash
  <2> DEFINE d == [c EXCEPT !.stage.we_finalized = TRUE, !.current_block = {}]
  <2>1. CloseBlock(c) = d
    BY <1>5 DEF CloseBlock, ProposeOrDiscard
  <2>2. d.stage = [c.stage EXCEPT !.we_finalized = TRUE]
    BY <1>1 DEF Chats
  <2>3. d.finalized = c.finalized /\ d \in Chats
    <3>1. {} \in Hashes
      BY DEF Hashes
    <3> QED
      BY <1>1, <3>1 DEF Chats, Stages
  <2>4. /\ d.stage.tag = c.stage.tag /\ d.stage.proposed = c.stage.proposed
        /\ d.stage.others = c.stage.others /\ d.stage.final_hash = c.stage.final_hash
    BY <1>1, <2>2 DEF Stages
  <2> HIDE DEF d
  <2> QED
    BY <2>1, <2>3, <2>4 DEF Trusted
<1> QED
  BY <1>1, <1>2, <1>3, <1>4, <1>5 DEF Stages

\* The actions a client signs; the oversized one fails and is never replicated.
ChatActions ==
    [type : {"AddUser"}, by : Users, nonce : 1 .. MaxNonce, id : Users]
    \cup [type : {"SendMessage", "LargeMessage"}, by : Users, nonce : 1 .. MaxNonce]

\* A chat action keeps the copy trusted, given that the proposal it may send is on record.
LEMMA PerformTrusted ==
    ASSUME NEW sent, NEW n \in Nodes, NEW c \in Trusted(sent, n), NEW req \in ChatActions,
           Closes(c, req) => n \in Proposers(sent, c.current_block)
    PROVE  Perform(c, req) \in Trusted(sent, n)
<1> DEFINE d == [c EXCEPT !.members[req.by] = req.nonce]
<1>1. /\ c \in Chats /\ req.by \in Users /\ req.nonce \in 1 .. MaxNonce
      /\ req.type \in {"AddUser", "SendMessage", "LargeMessage"}
      /\ req.type = "AddUser" => req.id \in Users
  BY DEF Trusted, ChatActions
<1>2. d \in Chats /\ d.finalized = c.finalized /\ d.stage = c.stage
      /\ d.current_block = c.current_block
  <2>1. req.nonce \in Nat
    BY <1>1, BoundAssumption
  <2>2. [c.members EXCEPT ![req.by] = req.nonce] \in [Users -> Nat \cup {NotMember}]
    BY <1>1, <2>1 DEF Chats
  <2> QED
    BY <1>1, <2>2 DEF Chats
<1>3. d \in Trusted(sent, n)
  BY <1>2, SameVotesTrusted
<1> HIDE DEF d
<1>4. CASE ~Permitted(c, req)
  BY <1>4 DEF Perform
<1>5. CASE Permitted(c, req) /\ ~Succeeds(c, req)
  BY <1>3, <1>5 DEF Perform, d
<1>6. CASE Permitted(c, req) /\ Succeeds(c, req) /\ req.type = "AddUser"
  <2> DEFINE e == [d EXCEPT !.members[req.id] = 0]
  <2>1. [d.members EXCEPT ![req.id] = 0] \in [Users -> Nat \cup {NotMember}]
    BY <1>1, <1>2, <1>6 DEF Chats
  <2>2. e \in Chats /\ e.finalized = d.finalized /\ e.stage = d.stage
    BY <1>2, <2>1 DEF Chats
  <2>3. e \in Trusted(sent, n)
    BY <1>3, <2>2, SameVotesTrusted
  <2> QED
    BY <1>6, <2>3 DEF Perform, d
<1>7. CASE Permitted(c, req) /\ Succeeds(c, req) /\ req.type # "AddUser"
  <2> DEFINE msg == <<req.by, req.nonce - 1>>
             e   == IF Fits(d) THEN d ELSE CloseBlock(d)
             g   == [e EXCEPT !.current_block = @ \cup {msg}]
  <2>1. req.type = "SendMessage" /\ (Fits(d) <=> Fits(c))
    BY <1>1, <1>2, <1>7 DEF Succeeds, Fits
  <2>2. ~Fits(d) => n \in Proposers(sent, d.current_block)
    BY <1>2, <1>7, <2>1 DEF Closes
  <2>3. e \in Trusted(sent, n)
    BY <1>3, <2>2, CloseTrusted
  <2>4. Perform(c, req) = g
    BY <1>7 DEF Perform, PushMessage, d
  <2>5. msg \in Messages
    BY <1>1, BoundAssumption DEF Messages
  <2> HIDE DEF e, msg
  <2>6. e \in Chats
    BY <2>3 DEF Trusted
  <2>7. e.current_block \cup {msg} \in Hashes
    BY <2>5, <2>6 DEF Chats, Hashes
  <2>8. g \in Chats /\ g.finalized = e.finalized /\ g.stage = e.stage
    BY <2>6, <2>7 DEF Chats
  <2> QED
    BY <2>3, <2>4, <2>8, SameVotesTrusted
<1> QED
  BY <1>4, <1>5, <1>6, <1>7

\* A vote of node m for a hash it has proposed, or that is backed, may be recorded.
LEMMA VoteTrusted ==
    ASSUME NEW sent, NEW n \in Nodes, NEW c \in Trusted(sent, n),
           NEW m \in Nodes, m # n, NEW h \in Hashes,
           m \in Proposers(sent, h) \/ Backed(sent, h)
    PROVE  /\ OthersWith(c, m, h) \in [Nodes -> Hashes]
           /\ OthersWith(c, m, h)[n] = NoHash
           /\ \A k \in Nodes : OthersWith(c, m, h)[k] # NoHash =>
                 \/ k \in Proposers(sent, OthersWith(c, m, h)[k])
                 \/ Backed(sent, OthersWith(c, m, h)[k])
           /\ [c EXCEPT !.stage.others = OthersWith(c, m, h)] \in Trusted(sent, n)
<1> DEFINE o  == OthersWith(c, m, h)
           st == [c.stage EXCEPT !.others = o]
           d  == [c EXCEPT !.stage = st]
<1>1. c \in Chats /\ c.stage \in Stages /\ c.stage.others \in [Nodes -> Hashes]
  BY DEF Trusted, Chats, Stages
<1>2. o \in [Nodes -> Hashes] /\ \A k \in Nodes : o[k] = IF k = m THEN h ELSE c.stage.others[k]
  BY <1>1 DEF OthersWith
<1> HIDE DEF o
<1>3. /\ o[n] = NoHash
      /\ \A k \in Nodes : o[k] # NoHash => k \in Proposers(sent, o[k]) \/ Backed(sent, o[k])
  BY <1>2 DEF Trusted
<1>4. /\ st \in Stages /\ st.others = o /\ st.tag = c.stage.tag
      /\ st.proposed = c.stage.proposed /\ st.final_hash = c.stage.final_hash
  BY <1>1, <1>2 DEF Stages
<1> HIDE DEF st
<1>5. d \in Chats /\ d.stage = st /\ d.finalized = c.finalized
  BY <1>1, <1>4 DEF Chats
<1>6. [c EXCEPT !.stage.others = o] = d
  BY DEF st
<1> HIDE DEF d
<1>7. d \in Trusted(sent, n)
  BY <1>3, <1>4, <1>5 DEF Trusted
<1> QED
  BY <1>2, <1>3, <1>6, <1>7 DEF o

\* Counting a vote keeps a copy trusted: what it makes final has a majority behind it.
LEMMA CountVoteTrusted ==
    ASSUME NEW sent, NEW n \in Nodes, NEW c \in Trusted(sent, n),
           NEW m \in Nodes, m # n, NEW h \in Hashes, h # NoHash, m \in Proposers(sent, h)
    PROVE  CountVote(c, m, h) \in Trusted(sent, n)
<1> DEFINE o == OthersWith(c, m, h)
<1>1. /\ o \in [Nodes -> Hashes] /\ o[n] = NoHash
      /\ \A k \in Nodes : o[k] # NoHash => k \in Proposers(sent, o[k]) \/ Backed(sent, o[k])
      /\ [c EXCEPT !.stage.others = o] \in Trusted(sent, n)
  BY VoteTrusted
<1>2. /\ Votes(o, h) \in Nat /\ Majority \in Nat
      /\ Votes(o, h) > Majority => Backed(sent, h)
      /\ Votes(o, h) >= Majority /\ n \in Proposers(sent, h) => Backed(sent, h)
  BY <1>1, CountedVotes, NodeSets
<1>3. CASE ~Enough(c, m, h)
  BY <1>1, <1>3 DEF CountVote
<1>4. CASE Enough(c, m, h) /\ WeMatch(c, h)
  <2>1. Backed(sent, h)
    <3>1. n \in Proposers(sent, h)
      BY <1>4 DEF WeMatch, Trusted
    <3>2. Votes(o, h) >= Majority
      BY <1>2, <1>4 DEF Enough
    <3> QED
      BY <1>2, <3>1, <3>2
  <2>2. PushToFinalized(c, c.stage.proposed) \in Trusted(sent, n)
    BY <1>4, <2>1, PushTrusted DEF WeMatch
  <2> QED
    BY <1>4, <2>2, ResetTrusted DEF CountVote
<1>5. CASE Enough(c, m, h) /\ ~WeMatch(c, h)
  <2>1. Backed(sent, h)
    BY <1>2, <1>5 DEF Enough
  <2> DEFINE we == c.stage.proposed # NoHash
             d  == [c EXCEPT !.stage = Recovering(h, we)]
  <2>2. d \in Chats /\ d.stage = Recovering(h, we) /\ d.finalized = c.finalized
    BY StageTypes DEF Trusted, Chats
  <2>3. CountVote(c, m, h) = d
    BY <1>5 DEF CountVote
  <2>4. we \in BOOLEAN
    OBVIOUS
  <2>5. /\ Recovering(h, we).final_hash = h /\ Recovering(h, we).proposed = NoHash
        /\ \A k \in Nodes : Recovering(h, we).others[k] = NoHash
    BY <2>4, StageTypes
  <2> HIDE DEF d, we
  <2> QED
    BY <2>1, <2>2, <2>3, <2>5 DEF Trusted
<1> QED
  BY <1>3, <1>4, <1>5

\* Accepting a backed block from SendBlock keeps a copy trusted.
LEMMA AcceptTrusted ==
    ASSUME NEW sent, NEW n \in Nodes, NEW c \in Trusted(sent, n),
           NEW m \in Nodes, m # n, NEW b \in Hashes, Backed(sent, b)
    PROVE  /\ AcceptAgainstProposal(c, m, b) \in Trusted(sent, n)
           /\ AcceptRecovered(c, b) \in Trusted(sent, n)
<1> DEFINE d == PushToFinalized(c, b)
           e == [d EXCEPT !.current_block = @ \ b]
<1>1. d \in Trusted(sent, n) /\ d \in Chats
  BY PushTrusted DEF Trusted
<1>2. AcceptAgainstProposal(c, m, b) \in Trusted(sent, n)
  BY <1>1, VoteTrusted, ResetTrusted DEF AcceptAgainstProposal
<1> HIDE DEF d
<1>3. d.current_block \ b \in Hashes
  BY <1>1 DEF Chats, Hashes
<1>4. e \in Chats /\ e.finalized = d.finalized /\ e.stage = d.stage
  BY <1>1, <1>3 DEF Chats
<1>5. e \in Trusted(sent, n)
  BY <1>1, <1>4, SameVotesTrusted
<1>6. AcceptRecovered(c, b) \in {c, e}
  BY DEF AcceptRecovered, d
<1> QED
  BY <1>2, <1>5, <1>6

-----------------------------------------------------------------------------
(* Streams stay honest *)

\* Honest streams stay honest when more proposals have been sent.
LEMMA StreamsMono ==
    ASSUME NEW sent, NEW more, sent \subseteq more, NEW streams, HonestStreams(sent, streams)
    PROVE  HonestStreams(more, streams)
<1>1. \A m \in Nodes : Honest(sent, m) \subseteq Honest(more, m)
  BY HonestMono
<1>2. \A m, n \in Nodes : streams[m][n] \in Seq(Honest(more, m))
  BY <1>1, SeqMonotonic DEF HonestStreams
<1> QED
  BY <1>2 DEF HonestStreams

\* Replacing one stream by an honest one, which may not be a node's stream to itself.
LEMMA SetStream ==
    ASSUME NEW sent, NEW streams, HonestStreams(sent, streams),
           NEW m \in Nodes, NEW n \in Nodes, m # n, NEW s \in Seq(Honest(sent, m))
    PROVE  HonestStreams(sent, [streams EXCEPT ![m][n] = s])
<1>1. Honest(sent, m) \subseteq Requests
  BY DEF Honest
<1>2. s \in Seq(Requests)
  BY <1>1, SeqMonotonic
<1> QED
  BY <1>2 DEF HonestStreams

\* Taking the next request from an honest stream gives an honest request and honest streams.
LEMMA TakenHonest ==
    ASSUME NEW sent, HonestStreams(sent, net), NEW m \in Nodes, NEW n \in Nodes,
           net[m][n] # <<>>
    PROVE  m # n /\ Next1(m, n) \in Honest(sent, m) /\ HonestStreams(sent, Taken(m, n))
<1>1. m # n /\ net[m][n] \in Seq(Honest(sent, m))
  BY DEF HonestStreams
<1>2. Tail(net[m][n]) \in Seq(Honest(sent, m)) /\ net[m][n][1] \in Honest(sent, m)
  <2>1. Len(net[m][n]) \in Nat \ {0}
    BY <1>1, EmptySeq
  <2> QED
    BY <1>1, <2>1, HeadTailProperties, ElementOfSeq
<1> QED
  BY <1>1, <1>2, SetStream DEF Taken, Next1

\* Sending honest requests to all the others keeps the streams honest.
LEMMA FanOutHonest ==
    ASSUME NEW sent, NEW streams, HonestStreams(sent, streams),
           NEW n \in Nodes, NEW reqs \in Seq(Honest(sent, n))
    PROVE  HonestStreams(sent, FanOut(streams, n, reqs))
<1> DEFINE row == [m \in Nodes |-> IF m = n THEN streams[n][m] ELSE streams[n][m] \o reqs]
<1>1. \A m \in Nodes : row[m] \in Seq(Honest(sent, n))
  BY ConcatProperties DEF HonestStreams
<1>2. Honest(sent, n) \subseteq Requests
  BY DEF Honest
<1>3. \A m \in Nodes : row[m] \in Seq(Requests)
  BY <1>1, <1>2, SeqMonotonic
<1>4. row \in [Nodes -> Seq(Requests)] /\ row[n] = <<>>
  BY <1>3 DEF HonestStreams
<1> HIDE DEF row
<1>5. FanOut(streams, n, reqs) = [streams EXCEPT ![n] = row]
  BY DEF FanOut, row, HonestStreams
<1> QED
  BY <1>1, <1>4, <1>5 DEF HonestStreams

-----------------------------------------------------------------------------
(* The invariant is inductive *)

\* The part of the invariant about the nodes and the streams, for a step after which the
\* proposals in more have been sent and at most the copy of node n has changed.
LEMMA OneCopyChanges ==
    ASSUME QuorumInv, NEW more, proposals \subseteq more, NEW n \in Nodes,
           NEW c \in Trusted(more, n), chat' = [chat EXCEPT ![n] = c]
    PROVE  /\ chat' \in [Nodes -> Chats]
           /\ \A m \in Nodes : chat'[m] \in Trusted(more, m)
           /\ HonestStreams(more, net)
<1>1. c \in Chats
  BY DEF Trusted
<1>2. \A m \in Nodes : chat[m] \in Trusted(more, m)
  BY TrustedMono DEF QuorumInv
<1>3. HonestStreams(more, net)
  BY StreamsMono DEF QuorumInv
<1> QED
  BY <1>1, <1>2, <1>3 DEF QuorumInv

\* The proposal a chat action sends is recorded, and honest.
LEMMA RecordedProposal ==
    ASSUME QuorumInv, NEW n \in Nodes, NEW req \in ChatActions, RecordProposal(n, req)
    PROVE  /\ proposals \subseteq proposals' /\ proposals' \subseteq Proposals
           /\ Closes(chat[n], req) => n \in Proposers(proposals', chat[n].current_block)
           /\ ProposalsOf(n, req) \in Seq(Honest(proposals', n))
<1> DEFINE c == chat[n]
           p == [by |-> n, epoch |-> restarts[n], number |-> c.block_number,
                 hash |-> c.current_block]
<1>1. c \in Chats /\ c.block_number \in Nat /\ c.current_block \in Hashes
      /\ restarts[n] \in Nat /\ proposals \subseteq Proposals
  BY BoundAssumption DEF QuorumInv, Chats
<1>2. CASE ~Closes(c, req)
  BY <1>1, <1>2, EmptySeq DEF RecordProposal, ProposalsOf
<1>3. CASE Closes(c, req)
  <2>1. c.current_block # NoHash
    BY <1>1, <1>3, FullBlock DEF Closes
  <2>2. proposals' = proposals \cup {p}
    BY <1>3 DEF RecordProposal
  <2>3. p \in Proposals
    BY <1>1, <2>1 DEF Proposals
  <2>4. n \in Proposers(proposals', c.current_block)
    <3>1. p \in proposals' /\ p.by = n /\ p.hash = c.current_block
      BY <2>2
    <3> HIDE DEF p
    <3> QED
      BY <3>1 DEF Proposers
  <2>5. ProposeReq(c.block_number, c.current_block) \in Honest(proposals', n)
    <3> DEFINE r == ProposeReq(c.block_number, c.current_block)
    <3>1. r \in Requests /\ r.type = "ProposeMsgBlock" /\ r.hash = c.current_block
      BY <1>1 DEF ProposeReq, Requests
    <3> QED
      BY <2>1, <2>4, <3>1 DEF Honest
  <2>6. ProposalsOf(n, req) = <<ProposeReq(c.block_number, c.current_block)>>
    BY <1>3 DEF ProposalsOf
  <2>7. ProposalsOf(n, req) \in Seq(Honest(proposals', n))
    BY <2>5, <2>6
  <2> QED
    BY <1>1, <2>2, <2>3, <2>4, <2>7
<1> QED
  BY <1>2, <1>3

\* No copy and no stream has anything to back in the beginning.
LEMMA InitQuorum == Init => QuorumInv
<1> SUFFICES ASSUME Init PROVE QuorumInv
  OBVIOUS
<1>1. \A n \in Nodes : NoChat \in Trusted({}, n) /\ NoChat \in Chats
  BY NewChatTrusted DEF Trusted
<1>2. HonestStreams({}, net)
  BY EmptySeq DEF Init, HonestStreams
<1> QED
  BY <1>1, <1>2, BoundAssumption DEF Init, QuorumInv

\* A client's CreateChat keeps the invariant.
LEMMA CreateChatQuorum ==
    ASSUME QuorumInv, NEW u \in Users, NEW e \in Nodes, CreateChat(u, e)
    PROVE  QuorumInv'
<1>1. /\ chat' = [chat EXCEPT ![e] = NewChat(u)] /\ net' = FanOut(net, e, <<CreateChatReq(u)>>)
      /\ UNCHANGED <<up, nonce, losses, restarts, proposals>>
  BY DEF CreateChat
<1>2. NewChat(u) \in Trusted(proposals, e)
  BY NewChatTrusted
<1>3. CreateChatReq(u) \in Honest(proposals, e)
  BY DEF CreateChatReq, Honest, Requests
<1>4. HonestStreams(proposals, net')
  <2>1. <<CreateChatReq(u)>> \in Seq(Honest(proposals, e))
    BY <1>3
  <2> QED
    BY <1>1, <2>1, FanOutHonest DEF QuorumInv
<1> QED
  BY <1>1, <1>2, <1>4, OneCopyChanges DEF QuorumInv

\* A client's action on its entry node, with the proposals it causes, keeps the invariant.
LEMMA PerformQuorum ==
    ASSUME QuorumInv, NEW u \in Users, NEW e \in Nodes, NEW req \in ChatActions,
           req.by = u, req.type # "LargeMessage" => req \in Requests,
           PerformChatAction(u, e, req)
    PROVE  QuorumInv'
<1> DEFINE own == IF Succeeds(chat[e], req) THEN <<req>> ELSE <<>>
           c   == Perform(chat[e], req)
<1>1. /\ nonce' = [nonce EXCEPT ![u] = @ + 1] /\ nonce[u] < MaxNonce
      /\ chat' = [chat EXCEPT ![e] = c]
      /\ net' = FanOut(net, e, ProposalsOf(e, req) \o own)
      /\ RecordProposal(e, req) /\ UNCHANGED <<up, losses, restarts>>
  BY DEF PerformChatAction, QuorumInv
<1>2. /\ proposals \subseteq proposals' /\ proposals' \subseteq Proposals
      /\ Closes(chat[e], req) => e \in Proposers(proposals', chat[e].current_block)
      /\ ProposalsOf(e, req) \in Seq(Honest(proposals', e))
  BY <1>1, RecordedProposal
<1>3. c \in Trusted(proposals', e)
  <2>1. chat[e] \in Trusted(proposals', e)
    BY <1>2, TrustedMono DEF QuorumInv
  <2> QED
    BY <1>2, <2>1, PerformTrusted
<1>4. own \in Seq(Honest(proposals', e))
  <2>1. CASE Succeeds(chat[e], req)
    <3>1. req.type \in {"AddUser", "SendMessage"}
      BY <2>1 DEF Succeeds, ChatActions
    <3>2. req \in Honest(proposals', e)
      BY <3>1 DEF Honest
    <3> QED
      BY <2>1, <3>2
  <2>2. CASE ~Succeeds(chat[e], req)
    BY <2>2, EmptySeq
  <2> QED
    BY <2>1, <2>2
<1>5. ProposalsOf(e, req) \o own \in Seq(Honest(proposals', e))
  BY <1>2, <1>4, ConcatProperties
<1> HIDE DEF own, c
<1>6. /\ chat' \in [Nodes -> Chats] /\ \A m \in Nodes : chat'[m] \in Trusted(proposals', m)
      /\ HonestStreams(proposals', net)
  BY <1>1, <1>2, <1>3, OneCopyChanges
<1>7. HonestStreams(proposals', net')
  BY <1>1, <1>5, <1>6, FanOutHonest
<1>8. nonce' \in [Users -> 0 .. MaxNonce]
  BY <1>1, BoundAssumption DEF QuorumInv
<1> QED
  BY <1>1, <1>2, <1>6, <1>7, <1>8 DEF QuorumInv

\* A replicated CreateChat keeps the invariant.
LEMMA ReceiveCreateChatQuorum ==
    ASSUME QuorumInv, NEW m \in Nodes, NEW n \in Nodes, ReceiveCreateChat(m, n)
    PROVE  QuorumInv'
<1> DEFINE c == IF chat[n].exists THEN chat[n] ELSE NewChat(Next1(m, n).id)
<1>1. /\ net[m][n] # <<>> /\ Next1(m, n).type = "CreateChat" /\ net' = Taken(m, n)
      /\ chat' = [chat EXCEPT ![n] = c]
      /\ UNCHANGED <<up, nonce, losses, restarts, proposals>>
  BY DEF ReceiveCreateChat, Arrives, QuorumInv
<1>2. Next1(m, n) \in Honest(proposals, m) /\ HonestStreams(proposals, net')
  BY <1>1, TakenHonest DEF QuorumInv
<1>3. Next1(m, n).id \in Users
  BY <1>1, <1>2 DEF Honest, Requests
<1>4. c \in Trusted(proposals, n)
  BY <1>3, NewChatTrusted DEF QuorumInv
<1> HIDE DEF c
<1> QED
  BY <1>1, <1>2, <1>4, OneCopyChanges DEF QuorumInv

\* A replicated action, with the proposals it causes, keeps the invariant.
LEMMA ReceiveChatActionQuorum ==
    ASSUME QuorumInv, NEW m \in Nodes, NEW n \in Nodes, ReceiveChatAction(m, n)
    PROVE  QuorumInv'
<1> DEFINE req == Next1(m, n)
           c   == Perform(chat[n], req)
<1>1. /\ net[m][n] # <<>> /\ req.type \in {"AddUser", "SendMessage"}
      /\ chat' = [chat EXCEPT ![n] = c]
      /\ net' = FanOut(Taken(m, n), n, ProposalsOf(n, req))
      /\ RecordProposal(n, req) /\ UNCHANGED <<up, nonce, losses, restarts>>
  BY DEF ReceiveChatAction, Arrives, QuorumInv
<1>2. req \in Honest(proposals, m)
  BY <1>1, TakenHonest DEF QuorumInv
<1>3. req \in ChatActions
  BY <1>1, <1>2 DEF Honest, Requests, ChatActions
<1>4. /\ proposals \subseteq proposals' /\ proposals' \subseteq Proposals
      /\ Closes(chat[n], req) => n \in Proposers(proposals', chat[n].current_block)
      /\ ProposalsOf(n, req) \in Seq(Honest(proposals', n))
  BY <1>1, <1>3, RecordedProposal
<1>5. c \in Trusted(proposals', n)
  <2>1. chat[n] \in Trusted(proposals', n)
    BY <1>4, TrustedMono DEF QuorumInv
  <2> QED
    BY <1>3, <1>4, <2>1, PerformTrusted
<1> HIDE DEF c
<1>6. /\ chat' \in [Nodes -> Chats] /\ \A k \in Nodes : chat'[k] \in Trusted(proposals', k)
      /\ HonestStreams(proposals', net)
  BY <1>1, <1>4, <1>5, OneCopyChanges
<1>7. HonestStreams(proposals', Taken(m, n))
  BY <1>1, <1>6, TakenHonest
<1>8. HonestStreams(proposals', net')
  BY <1>1, <1>4, <1>7, FanOutHonest
<1> QED
  BY <1>1, <1>4, <1>6, <1>8 DEF QuorumInv

\* A vote that arrives keeps the invariant, whether it is counted, late or answered.
LEMMA ReceiveProposeQuorum ==
    ASSUME QuorumInv, NEW m \in Nodes, NEW n \in Nodes, ReceiveProposeMsgBlock(m, n)
    PROVE  QuorumInv'
<1> DEFINE req   == Next1(m, n)
           old   == chat[n]
           vote  == CountVote(old, m, req.hash)
           reply == SendBlockReq(req.number, old.finalized[1])
           s     == Append(Taken(m, n)[n][m], reply)
<1>1. /\ net[m][n] # <<>> /\ req.type = "ProposeMsgBlock"
      /\ chat' = chat \/ chat' = [chat EXCEPT ![n] = vote]
      /\ \/ net' = Taken(m, n)
         \/ old.finalized # <<>> /\ net' = [Taken(m, n) EXCEPT ![n][m] = s]
      /\ UNCHANGED <<up, nonce, losses, restarts, proposals>>
  BY DEF ReceiveProposeMsgBlock, Arrives, AnswersWithBlock, QuorumInv
<1>2. m # n /\ req \in Honest(proposals, m) /\ HonestStreams(proposals, Taken(m, n))
  BY <1>1, TakenHonest DEF QuorumInv
<1>3. /\ req.number \in Nat /\ req.hash \in Hashes /\ req.hash # NoHash
      /\ m \in Proposers(proposals, req.hash)
  BY <1>1, <1>2 DEF Honest, Requests
<1>4. old \in Trusted(proposals, n)
  BY DEF QuorumInv
<1>5. vote \in Trusted(proposals, n)
  BY <1>2, <1>3, <1>4, CountVoteTrusted
<1>6. ASSUME old.finalized # <<>> PROVE reply \in Honest(proposals, n)
  <2>1. old.finalized \in Seq(BackedHashes(proposals))
    BY <1>4 DEF Trusted
  <2>2. old.finalized[1] \in BackedHashes(proposals)
    BY <1>6, <2>1, EmptySeq, ElementOfSeq
  <2>3. /\ reply \in Requests /\ reply.type = "SendBlock" /\ reply.block = old.finalized[1]
    BY <1>3, <2>2 DEF SendBlockReq, Requests, BackedHashes
  <2> QED
    BY <2>2, <2>3 DEF Honest, BackedHashes
<1> HIDE DEF vote, reply
<1>7. HonestStreams(proposals, net')
  <2>1. Taken(m, n)[n][m] \in Seq(Honest(proposals, n))
    BY <1>2 DEF HonestStreams
  <2>2. ASSUME old.finalized # <<>> PROVE s \in Seq(Honest(proposals, n))
    BY <1>6, <2>1, <2>2, AppendProperties
  <2> HIDE DEF s
  <2> QED
    BY <1>1, <1>2, <2>2, SetStream
<1>8. /\ chat' \in [Nodes -> Chats]
      /\ \A k \in Nodes : chat'[k] \in Trusted(proposals, k)
  <2>1. CASE chat' = chat
    BY <2>1 DEF QuorumInv
  <2>2. CASE chat' = [chat EXCEPT ![n] = vote]
    BY <1>5, <2>2, OneCopyChanges
  <2> QED
    BY <1>1, <2>1, <2>2
<1> QED
  BY <1>1, <1>7, <1>8 DEF QuorumInv

\* A block that arrives keeps the invariant.
LEMMA ReceiveSendBlockQuorum ==
    ASSUME QuorumInv, NEW m \in Nodes, NEW n \in Nodes, ReceiveSendBlock(m, n)
    PROVE  QuorumInv'
<1> DEFINE req == Next1(m, n)
           old == chat[n]
           A   == AcceptAgainstProposal(old, m, req.block)
           R   == AcceptRecovered(old, req.block)
<1>1. /\ net[m][n] # <<>> /\ req.type = "SendBlock" /\ net' = Taken(m, n)
      /\ \E c \in {old, A, R} : chat' = [chat EXCEPT ![n] = c]
      /\ UNCHANGED <<up, nonce, losses, restarts, proposals>>
  BY DEF ReceiveSendBlock, Arrives, QuorumInv
<1>2. m # n /\ req \in Honest(proposals, m) /\ HonestStreams(proposals, net')
  BY <1>1, TakenHonest DEF QuorumInv
<1>3. req.block \in Hashes /\ Backed(proposals, req.block)
  BY <1>1, <1>2 DEF Honest, Requests
<1>4. old \in Trusted(proposals, n)
  BY DEF QuorumInv
<1>5. A \in Trusted(proposals, n) /\ R \in Trusted(proposals, n)
  BY <1>2, <1>3, <1>4, AcceptTrusted
<1>6. PICK c \in Trusted(proposals, n) : chat' = [chat EXCEPT ![n] = c]
  BY <1>1, <1>4, <1>5
<1> QED
  BY <1>1, <1>2, <1>6, OneCopyChanges DEF QuorumInv

\* Panics, losses and restarts keep the invariant.
LEMMA FailureQuorum ==
    ASSUME QuorumInv, NEW m \in Nodes, NEW n \in Nodes,
           Panic(m, n) \/ Lose(m, n) \/ Restart(n)
    PROVE  QuorumInv'
<1>1. CASE Panic(m, n)
  <2>1. /\ net[m][n] # <<>> /\ net' = Taken(m, n) /\ up' = [up EXCEPT ![n] = FALSE]
        /\ UNCHANGED <<chat, nonce, losses, restarts, proposals>>
    BY <1>1 DEF Panic, Arrives
  <2>2. HonestStreams(proposals, net')
    BY <2>1, TakenHonest DEF QuorumInv
  <2> QED
    BY <2>1, <2>2 DEF QuorumInv
<1>2. CASE Lose(m, n)
  <2>1. /\ net[m][n] # <<>> /\ net' = Taken(m, n) /\ losses < MaxLosses /\ losses' = losses + 1
        /\ UNCHANGED <<chat, up, nonce, restarts, proposals>>
    BY <1>2 DEF Lose
  <2>2. HonestStreams(proposals, net')
    BY <2>1, TakenHonest DEF QuorumInv
  <2>3. losses' \in 0 .. MaxLosses
    BY <2>1, BoundAssumption DEF QuorumInv
  <2> QED
    BY <2>1, <2>2, <2>3 DEF QuorumInv
<1>3. CASE Restart(n)
  <2>1. /\ restarts[n] < MaxRestarts /\ restarts' = [restarts EXCEPT ![n] = @ + 1]
        /\ up' = [up EXCEPT ![n] = TRUE] /\ chat' = [chat EXCEPT ![n] = NoChat]
        /\ net' = [k \in Nodes |-> [net[k] EXCEPT ![n] = <<>>]]
        /\ UNCHANGED <<nonce, losses, proposals>>
    BY <1>3 DEF Restart
  <2>2. HonestStreams(proposals, net')
    BY <2>1, EmptySeq DEF HonestStreams, QuorumInv
  <2>3. NoChat \in Trusted(proposals, n)
    BY NewChatTrusted
  <2>4. restarts' \in [Nodes -> 0 .. MaxRestarts]
    BY <2>1, BoundAssumption DEF QuorumInv
  <2> QED
    BY <2>1, <2>2, <2>3, <2>4, OneCopyChanges DEF QuorumInv
<1> QED
  BY <1>1, <1>2, <1>3

\* Every action of a client keeps the invariant.
LEMMA ClientQuorum ==
    ASSUME QuorumInv, NEW u \in Users, NEW e \in Nodes,
           \/ \E id \in Users : AddUser(u, e, id)
           \/ SendMessage(u, e)
           \/ LargeMessage(u, e)
    PROVE  QuorumInv'
<1> DEFINE k == nonce[u] + 1
<1>1. k \in 1 .. MaxNonce
  <2>1. nonce[u] < MaxNonce
    BY Zenon DEF AddUser, SendMessage, LargeMessage, PerformChatAction
  <2> QED
    BY <2>1, BoundAssumption DEF QuorumInv
<1> HIDE DEF k
<1>2. ASSUME NEW id \in Users, AddUser(u, e, id) PROVE QuorumInv'
  <2>1. /\ AddUserReq(u, k, id) \in ChatActions /\ AddUserReq(u, k, id).by = u
        /\ AddUserReq(u, k, id) \in Requests
    BY <1>1 DEF AddUserReq, ChatActions, Requests
  <2> QED
    BY <1>2, <2>1, PerformQuorum DEF AddUser, k
<1>3. ASSUME SendMessage(u, e) PROVE QuorumInv'
  <2>1. /\ SendMessageReq(u, k) \in ChatActions /\ SendMessageReq(u, k).by = u
        /\ SendMessageReq(u, k) \in Requests
    BY <1>1 DEF SendMessageReq, ChatActions, Requests
  <2> QED
    BY <1>3, <2>1, PerformQuorum DEF SendMessage, k
<1>4. ASSUME LargeMessage(u, e) PROVE QuorumInv'
  <2>1. /\ LargeMessageReq(u, k) \in ChatActions /\ LargeMessageReq(u, k).by = u
        /\ LargeMessageReq(u, k).type = "LargeMessage"
    BY <1>1 DEF LargeMessageReq, ChatActions
  <2> QED
    BY <1>4, <2>1, PerformQuorum DEF LargeMessage, k
<1> QED
  BY <1>2, <1>3, <1>4

\* Every step keeps the invariant.
LEMMA NextQuorum == QuorumInv /\ [Next]_vars => QuorumInv'
<1> SUFFICES ASSUME QuorumInv, [Next]_vars PROVE QuorumInv'
  OBVIOUS
<1>1. CASE Next
  BY <1>1, CreateChatQuorum, ClientQuorum, ReceiveCreateChatQuorum, ReceiveChatActionQuorum,
     ReceiveProposeQuorum, ReceiveSendBlockQuorum, FailureQuorum DEF Next
<1>2. CASE UNCHANGED vars
  BY <1>2 DEF vars, QuorumInv, HonestStreams
<1> QED
  BY <1>1, <1>2

\* In every behaviour all copies are trusted and all streams honest, for every group size.
THEOREM QuorumInvariant == Spec => []QuorumInv
BY InitQuorum, NextQuorum, PTL DEF Spec

\* Every variable keeps its type, and no copy remembers more than BLOCK_HISTORY blocks.
THEOREM TypeCorrect == Spec => []TypeOK
<1>1. QuorumInv => TypeOK
  <2> SUFFICES ASSUME QuorumInv PROVE TypeOK
    OBVIOUS
  <2>1. \A n \in Nodes : Len(chat[n].finalized) <= BlockHistory
    BY DEF QuorumInv, Trusted
  <2>2. proposals \subseteq [by : Nodes, epoch : Nat, number : Nat, hash : Hashes]
    BY DEF QuorumInv, Proposals
  <2> QED
    BY <2>1, <2>2 DEF QuorumInv, TypeOK, HonestStreams
<1> QED
  BY <1>1, QuorumInvariant, PTL

\* Whatever push_message, ProposeMsgBlock and SendBlock put into a history, or wait for
\* in order to put it there, was proposed by a majority of the group, for every group and
\* every number of losses and restarts.
THEOREM QuorumBackedHolds == Spec => []QuorumBacked
<1>1. QuorumInv => QuorumBacked
  <2> SUFFICES ASSUME QuorumInv, NEW n \in Nodes
               PROVE  /\ \A i \in 1 .. Len(chat[n].finalized) :
                            Backed(proposals, chat[n].finalized[i])
                      /\ chat[n].stage.tag = "Recovering" =>
                            Backed(proposals, chat[n].stage.final_hash)
    BY DEF QuorumBacked
  <2>1. chat[n] \in Trusted(proposals, n)
    BY DEF QuorumInv
  <2>2. \A i \in 1 .. Len(chat[n].finalized) : chat[n].finalized[i] \in BackedHashes(proposals)
    BY <2>1, ElementOfSeq DEF Trusted
  <2> QED
    BY <2>1, <2>2 DEF Trusted, BackedHashes
<1> QED
  BY <1>1, QuorumInvariant, PTL

-----------------------------------------------------------------------------
(* One proposal per number *)

\* The copy will not propose a block under this number (again): its block number is
\* beyond it, or it has given up its block with that number and waits for the majority's.
Past(c, number) ==
    \/ number < c.block_number
    \/ /\ number = c.block_number
       /\ c.stage.tag = "Recovering" /\ c.stage.we_finalized

\* A node without the chat has not started to number blocks.
Blank(c) == ~c.exists => c.block_number = 0 /\ c.stage.tag = "Unfinalized"

NumberInv ==
    /\ OneProposalPerNumber
    /\ \A n \in Nodes : Blank(chat[n])
    /\ \A p \in proposals :
        /\ p.epoch <= restarts[p.by]
        /\ p.epoch = restarts[p.by] => Past(chat[p.by], p.number)

\* Closing a block whose number was not used up uses it up, and no number becomes unused.
LEMMA ClosePast ==
    ASSUME NEW c \in Chats, ~Fits(c), ~NotFinalized(c)
    PROVE  /\ ~Past(c, c.block_number)
           /\ Past(CloseBlock(c), c.block_number)
           /\ \A k \in Nat : Past(c, k) => Past(CloseBlock(c), k)
<1>1. c.stage \in Stages /\ c.block_number \in Nat
  BY DEF Chats
<1>2. ~(c.stage.tag = "Recovering" /\ c.stage.we_finalized)
  BY <1>1 DEF NotFinalized, Stages
<1>3. ~Past(c, c.block_number) /\ \A k \in Nat : Past(c, k) => k < c.block_number
  BY <1>1, <1>2 DEF Past
<1>4. Past(CloseBlock(c), c.block_number) /\ CloseBlock(c).block_number >= c.block_number
  <2>1. CASE CloseBlock(c) = FinalizeCurrentBlock(c)
    <3>1. FinalizeCurrentBlock(c).block_number = c.block_number + 1
      BY DEF FinalizeCurrentBlock, PushToFinalized, Chats
    <3> QED
      BY <1>1, <2>1, <3>1 DEF Past
  <2>2. CASE CloseBlock(c) = ProposeOrDiscard(c) /\ c.stage.tag = "Unfinalized"
    <3>1. ProposeOrDiscard(c).block_number = c.block_number + 1
      BY <2>2 DEF ProposeOrDiscard, Chats
    <3> QED
      BY <1>1, <2>2, <3>1 DEF Past
  <2>3. CASE CloseBlock(c) = ProposeOrDiscard(c) /\ c.stage.tag = "Recovering"
    <3> DEFINE d == [c EXCEPT !.stage.we_finalized = TRUE, !.current_block = {}]
    <3>1. ProposeOrDiscard(c) = d
      BY <2>3 DEF ProposeOrDiscard
    <3>2. d.block_number = c.block_number /\ d.stage = [c.stage EXCEPT !.we_finalized = TRUE]
      BY DEF Chats
    <3>3. d.stage.tag = "Recovering" /\ d.stage.we_finalized
      BY <1>1, <2>3, <3>2 DEF Stages
    <3> QED
      BY <1>1, <2>3, <3>1, <3>2, <3>3 DEF Past
  <2> QED
    BY <1>1, <2>1, <2>2, <2>3 DEF CloseBlock, Stages
<1>5. CloseBlock(c).block_number \in Int
  <2>1. CASE CloseBlock(c) = FinalizeCurrentBlock(c)
    BY <1>1, <2>1 DEF FinalizeCurrentBlock, PushToFinalized, Chats
  <2>2. CASE CloseBlock(c) = ProposeOrDiscard(c)
    BY <1>1, <2>2 DEF ProposeOrDiscard, Chats
  <2> QED
    BY <2>1, <2>2 DEF CloseBlock
<1> QED
  BY <1>1, <1>3, <1>4, <1>5 DEF Past

\* A change that touches neither the block number nor the stage of a recovering copy.
LEMMA SamePast ==
    ASSUME NEW c \in Chats, NEW d, d.block_number = c.block_number,
           c.stage.tag = "Recovering" => d.stage = c.stage
    PROVE  \A k \in Nat : Past(c, k) => Past(d, k)
BY DEF Past

\* An action on a copy uses a number up exactly when it proposes a block under it.
LEMMA PerformPast ==
    ASSUME NEW c \in Chats, NEW req \in ChatActions
    PROVE  /\ \A k \in Nat : Past(c, k) => Past(Perform(c, req), k)
           /\ Perform(c, req) = c \/ Perform(c, req).exists
           /\ Closes(c, req) => /\ ~Past(c, c.block_number)
                                /\ Past(Perform(c, req), c.block_number)
<1> DEFINE d == [c EXCEPT !.members[req.by] = req.nonce]
<1>1. /\ d \in Chats /\ d.block_number = c.block_number /\ d.stage = c.stage
      /\ d.current_block = c.current_block /\ d.exists = c.exists
  <2>1. req.by \in Users /\ req.nonce \in Nat
    BY BoundAssumption DEF ChatActions
  <2>2. [c.members EXCEPT ![req.by] = req.nonce] \in [Users -> Nat \cup {NotMember}]
    BY <2>1 DEF Chats
  <2> QED
    BY <2>2 DEF Chats
<1>2. \A k : Past(d, k) <=> Past(c, k)
  BY <1>1 DEF Past
<1> HIDE DEF d
<1>3. CASE ~Succeeds(c, req)
  <2>1. Perform(c, req) = c \/ (Perform(c, req) = d /\ c.exists)
    BY <1>3 DEF Perform, Permitted, d
  <2> QED
    BY <1>1, <1>2, <1>3, <2>1 DEF Closes
<1>4. CASE Succeeds(c, req) /\ req.type = "AddUser"
  <2> DEFINE e == [d EXCEPT !.members[req.id] = 0]
  <2>1. Perform(c, req) = e
    BY <1>4 DEF Perform, Succeeds, d
  <2>2. e.block_number = d.block_number /\ e.stage = d.stage /\ e.exists = d.exists
    BY <1>1 DEF Chats
  <2>3. c.exists
    BY <1>4 DEF Succeeds, Permitted
  <2> HIDE DEF e
  <2> QED
    BY <1>1, <1>2, <1>4, <2>1, <2>2, <2>3 DEF Past, Closes
<1>5. CASE Succeeds(c, req) /\ req.type # "AddUser"
  <2> DEFINE e == IF Fits(d) THEN d ELSE CloseBlock(d)
             g == [e EXCEPT !.current_block = @ \cup {<<req.by, req.nonce - 1>>}]
  <2>1. Perform(c, req) = g
    BY <1>5 DEF Perform, Succeeds, PushMessage, d
  <2>2. req.type = "SendMessage" /\ ~NotFinalized(d) /\ (Fits(d) <=> Fits(c))
    BY <1>1, <1>5 DEF Succeeds, NotFinalized, Fits, ChatActions
  <2>3. g.block_number = e.block_number /\ g.stage = e.stage /\ g.exists = d.exists
    <3>1. CASE Fits(d)
      BY <1>1, <3>1 DEF Chats
    <3>2. CASE ~Fits(d) /\ CloseBlock(d) = FinalizeCurrentBlock(d)
      BY <1>1, <3>2 DEF FinalizeCurrentBlock, PushToFinalized, Chats
    <3>3. CASE ~Fits(d) /\ CloseBlock(d) = ProposeOrDiscard(d)
      BY <1>1, <3>3 DEF ProposeOrDiscard, Chats
    <3> QED
      BY <3>1, <3>2, <3>3 DEF CloseBlock
  <2>4. \A k : Past(g, k) <=> Past(e, k)
    BY <2>3 DEF Past
  <2>5. \A k \in Nat : Past(d, k) => Past(e, k)
    BY <1>1, <2>2, ClosePast
  <2>6. ASSUME ~Fits(c) PROVE ~Past(d, d.block_number) /\ Past(e, d.block_number)
    BY <1>1, <2>2, <2>6, ClosePast
  <2>7. c.exists
    BY <1>5 DEF Succeeds, Permitted
  <2> HIDE DEF e, g
  <2> QED
    BY <1>1, <1>2, <2>1, <2>3, <2>4, <2>5, <2>6, <2>7 DEF Closes
<1> QED
  BY <1>3, <1>4, <1>5

\* Neither votes nor blocks of the other nodes make a number unused again.
LEMMA VotePast ==
    ASSUME NEW c \in Chats, NEW m, NEW h
    PROVE  /\ c.stage.tag = "Unfinalized" => \A k \in Nat : Past(c, k) => Past(CountVote(c, m, h), k)
           /\ c.stage.tag = "Unfinalized" =>
                 \A k \in Nat : Past(c, k) => Past(AcceptAgainstProposal(c, m, h), k)
           /\ \A k \in Nat : Past(c, k) => Past(AcceptRecovered(c, h), k)
<1>1. CountVote(c, m, h).block_number = c.block_number
  BY DEF CountVote, PushToFinalized, Chats
<1>2. AcceptAgainstProposal(c, m, h).block_number = c.block_number
  BY DEF AcceptAgainstProposal, PushToFinalized, Chats
<1>3. /\ AcceptRecovered(c, h).block_number = c.block_number
      /\ AcceptRecovered(c, h).stage = c.stage
  BY DEF AcceptRecovered, PushToFinalized, Chats
<1>4. c.stage.tag = "Unfinalized" => c.stage.tag # "Recovering"
  OBVIOUS
<1> QED
  BY <1>1, <1>2, <1>3, <1>4, SamePast

\* Steps that send no proposal and change at most one copy.
LEMMA QuietStep ==
    ASSUME NumberInv, QuorumInv, NEW n \in Nodes, NEW d, chat' = [chat EXCEPT ![n] = d],
           \A k \in Nat : Past(chat[n], k) => Past(d, k), Blank(d),
           UNCHANGED <<restarts, proposals>>
    PROVE  NumberInv'
<1>1. OneProposalPerNumber'
  BY DEF NumberInv, OneProposalPerNumber
<1>2. ASSUME NEW p \in proposals
      PROVE  p.epoch = restarts[p.by] => Past(chat'[p.by], p.number)
  <2>1. p.by \in Nodes /\ p.number \in Nat /\ (p.epoch = restarts[p.by] => Past(chat[p.by], p.number))
    BY DEF QuorumInv, Proposals, NumberInv
  <2> QED
    BY <2>1 DEF QuorumInv
<1>3. \A m \in Nodes : Blank(chat'[m])
  BY DEF NumberInv, QuorumInv
<1> QED
  BY <1>1, <1>2, <1>3 DEF NumberInv

\* A chat action at node n: what it proposes, it has not proposed before.
LEMMA ProposingStep ==
    ASSUME NumberInv, QuorumInv, NEW n \in Nodes, NEW req \in ChatActions,
           chat' = [chat EXCEPT ![n] = Perform(chat[n], req)], RecordProposal(n, req),
           UNCHANGED restarts
    PROVE  NumberInv'
<1> DEFINE c == chat[n]
           d == Perform(c, req)
           new == [by |-> n, epoch |-> restarts[n], number |-> c.block_number,
                   hash |-> c.current_block]
<1>1. c \in Chats /\ c.block_number \in Nat /\ chat \in [Nodes -> Chats]
      /\ restarts[n] \in Nat
  BY BoundAssumption DEF QuorumInv, Chats
<1>2. (\A k \in Nat : Past(c, k) => Past(d, k)) /\ Blank(d)
  BY <1>1, PerformPast DEF NumberInv, Blank
<1>3. CASE ~Closes(c, req)
  <2>1. proposals' = proposals
    BY <1>3 DEF RecordProposal
  <2> QED
    BY <1>2, <2>1, QuietStep
<1>4. CASE Closes(c, req)
  <2>1. proposals' = proposals \cup {new}
    BY <1>4 DEF RecordProposal
  <2>2. ~Past(c, c.block_number) /\ Past(d, c.block_number)
    BY <1>1, <1>4, PerformPast
  <2>3. /\ new.by = n /\ new.epoch = restarts[n] /\ new.number = c.block_number
    OBVIOUS
  <2> HIDE DEF d, new
  <2>4. chat'[n] = d /\ \A k \in Nodes \ {n} : chat'[k] = chat[k]
    BY <1>1 DEF d
  <2>5. ASSUME NEW p \in proposals
        PROVE  /\ p.by \in Nodes /\ p.number \in Nat /\ p.epoch <= restarts[p.by]
               /\ p.epoch = restarts[p.by] => Past(chat[p.by], p.number)
    BY DEF QuorumInv, Proposals, NumberInv
  <2>6. ASSUME NEW p \in proposals
        PROVE  ~(p.by = n /\ p.epoch = restarts[n] /\ p.number = c.block_number)
    BY <2>2, <2>5
  <2>7. OneProposalPerNumber'
    BY <2>1, <2>3, <2>6 DEF NumberInv, OneProposalPerNumber
  <2>8. ASSUME NEW p \in proposals'
        PROVE  p.epoch <= restarts[p.by] /\ (p.epoch = restarts[p.by] => Past(chat'[p.by], p.number))
    BY <1>1, <1>2, <2>1, <2>2, <2>3, <2>4, <2>5 DEF d
  <2>9. \A m \in Nodes : Blank(chat'[m])
    BY <1>2, <2>4 DEF NumberInv
  <2> QED
    BY <2>7, <2>8, <2>9 DEF NumberInv
<1> QED
  BY <1>3, <1>4

\* Creating the chat on a node that does not have it forgets no proposal.
LEMMA FreshPast ==
    ASSUME NEW c \in Chats, ~c.exists, Blank(c)
    PROVE  \A k \in Nat : ~Past(c, k)
BY DEF Blank, Past, Chats

\* Copies without a chat are blank, and so are new ones.
LEMMA NewChatBlank == Blank(NoChat) /\ \A u \in Users : Blank(NewChat(u))
<1>1. Blank(NoChat)
  BY DEF Blank, NoChat, DefaultStage
<1>2. \A u \in Users : NewChat(u).exists
  BY DEF NewChat, NoChat
<1> QED
  BY <1>1, <1>2 DEF Blank

\* What a client does keeps one proposal per number.
LEMMA ClientNumber ==
    ASSUME NumberInv, QuorumInv, NEW u \in Users, NEW e \in Nodes,
           \/ CreateChat(u, e)
           \/ \E id \in Users : AddUser(u, e, id)
           \/ SendMessage(u, e)
           \/ LargeMessage(u, e)
    PROVE  NumberInv'
<1> DEFINE k == nonce[u] + 1
<1>1. ASSUME NEW req \in ChatActions, PerformChatAction(u, e, req) PROVE NumberInv'
  <2>1. /\ chat' = [chat EXCEPT ![e] = Perform(chat[e], req)] /\ RecordProposal(e, req)
        /\ UNCHANGED restarts
    BY <1>1 DEF PerformChatAction, QuorumInv
  <2> QED
    BY <2>1, ProposingStep
<1>2. ASSUME nonce[u] < MaxNonce PROVE k \in 1 .. MaxNonce
  BY <1>2, BoundAssumption DEF QuorumInv
<1>3. ASSUME CreateChat(u, e) PROVE NumberInv'
  <2>1. /\ chat' = [chat EXCEPT ![e] = NewChat(u)] /\ ~chat[e].exists
        /\ UNCHANGED <<restarts, proposals>>
    BY <1>3 DEF CreateChat
  <2>2. \A j \in Nat : ~Past(chat[e], j)
    BY <2>1, FreshPast DEF NumberInv, QuorumInv
  <2> QED
    BY <2>1, <2>2, NewChatBlank, QuietStep
<1>4. ASSUME NEW id \in Users, AddUser(u, e, id) PROVE NumberInv'
  <2>1. nonce[u] < MaxNonce
    BY <1>4, Zenon DEF AddUser, PerformChatAction
  <2>2. AddUserReq(u, k, id) \in ChatActions
    BY <1>2, <2>1 DEF AddUserReq, ChatActions
  <2> QED
    BY <1>1, <1>4, <2>2 DEF AddUser
<1>5. ASSUME SendMessage(u, e) PROVE NumberInv'
  <2>1. nonce[u] < MaxNonce
    BY <1>5, Zenon DEF SendMessage, PerformChatAction
  <2>2. SendMessageReq(u, k) \in ChatActions
    BY <1>2, <2>1 DEF SendMessageReq, ChatActions
  <2> QED
    BY <1>1, <1>5, <2>2 DEF SendMessage
<1>6. ASSUME LargeMessage(u, e) PROVE NumberInv'
  <2>1. nonce[u] < MaxNonce
    BY <1>6, Zenon DEF LargeMessage, PerformChatAction
  <2>2. LargeMessageReq(u, k) \in ChatActions
    BY <1>2, <2>1 DEF LargeMessageReq, ChatActions
  <2> QED
    BY <1>1, <1>6, <2>2 DEF LargeMessage
<1> QED
  BY <1>3, <1>4, <1>5, <1>6

\* What arrives from the other nodes keeps one proposal per number.
LEMMA ReceiveNumber ==
    ASSUME NumberInv, QuorumInv, NEW m \in Nodes, NEW n \in Nodes,
           \/ ReceiveCreateChat(m, n)
           \/ ReceiveChatAction(m, n)
           \/ ReceiveProposeMsgBlock(m, n)
           \/ ReceiveSendBlock(m, n)
    PROVE  NumberInv'
<1> DEFINE c == chat[n]
           req == Next1(m, n)
<1>1. /\ c \in Chats /\ Blank(c) /\ chat = [chat EXCEPT ![n] = c]
      /\ \A k \in Nat : Past(c, k) => Past(c, k)
  BY DEF QuorumInv, NumberInv
<1>2. net[m][n] # <<>> /\ req \in Requests
  <2>1. net[m][n] # <<>>
    BY DEF ReceiveCreateChat, ReceiveChatAction, ReceiveProposeMsgBlock, ReceiveSendBlock, Arrives
  <2> QED
    BY <2>1, TakenHonest DEF QuorumInv, Honest
<1>3. CASE ReceiveCreateChat(m, n)
  <2> DEFINE d == IF c.exists THEN c ELSE NewChat(req.id)
  <2>1. /\ req.type = "CreateChat" /\ chat' = [chat EXCEPT ![n] = d]
        /\ UNCHANGED <<restarts, proposals>>
    BY <1>3 DEF ReceiveCreateChat, Arrives, QuorumInv
  <2>2. req.id \in Users
    BY <1>2, <2>1 DEF Requests
  <2>3. (\A k \in Nat : Past(c, k) => Past(d, k)) /\ Blank(d)
    BY <1>1, <2>2, FreshPast, NewChatBlank
  <2> HIDE DEF d
  <2> QED
    BY <2>1, <2>3, QuietStep
<1>4. CASE ReceiveChatAction(m, n)
  <2>1. /\ req.type \in {"AddUser", "SendMessage"} /\ chat' = [chat EXCEPT ![n] = Perform(c, req)]
        /\ RecordProposal(n, req) /\ UNCHANGED restarts
    BY <1>4 DEF ReceiveChatAction, Arrives, QuorumInv
  <2>2. req \in ChatActions
    BY <1>2, <2>1 DEF Requests, ChatActions
  <2> QED
    BY <2>1, <2>2, ProposingStep
<1>5. CASE ReceiveProposeMsgBlock(m, n)
  <2> DEFINE d == CountVote(c, m, req.hash)
  <2>1. /\ \/ chat' = [chat EXCEPT ![n] = c]
           \/ c.exists /\ c.stage.tag = "Unfinalized" /\ chat' = [chat EXCEPT ![n] = d]
        /\ UNCHANGED <<restarts, proposals>>
    BY <1>1, <1>5 DEF ReceiveProposeMsgBlock
  <2>2. c.stage.tag = "Unfinalized" => \A k \in Nat : Past(c, k) => Past(d, k)
    BY <1>1, VotePast
  <2>3. c.exists => Blank(d)
    <3>1. d.exists = c.exists
      BY <1>1 DEF CountVote, PushToFinalized, Chats
    <3> QED
      BY <3>1 DEF Blank
  <2> HIDE DEF d, c
  <2> QED
    BY <1>1, <2>1, <2>2, <2>3, QuietStep DEF c
<1>6. CASE ReceiveSendBlock(m, n)
  <2> DEFINE A == AcceptAgainstProposal(c, m, req.block)
             R == AcceptRecovered(c, req.block)
  <2>1. /\ \/ chat' = [chat EXCEPT ![n] = c]
           \/ c.exists /\ chat' = [chat EXCEPT ![n] = R]
           \/ c.exists /\ c.stage.tag = "Unfinalized" /\ chat' = [chat EXCEPT ![n] = A]
        /\ UNCHANGED <<restarts, proposals>>
    BY <1>1, <1>6 DEF ReceiveSendBlock, Chats, Stages
  <2>2. /\ c.stage.tag = "Unfinalized" => \A k \in Nat : Past(c, k) => Past(A, k)
        /\ \A k \in Nat : Past(c, k) => Past(R, k)
    BY <1>1, VotePast
  <2>3. c.exists => Blank(A) /\ Blank(R)
    <3>1. A.exists = c.exists
      BY <1>1 DEF AcceptAgainstProposal, PushToFinalized, Chats
    <3>2. R.exists = c.exists
      BY <1>1 DEF AcceptRecovered, PushToFinalized, Chats
    <3> QED
      BY <3>1, <3>2 DEF Blank
  <2> HIDE DEF A, R, c
  <2> QED
    BY <1>1, <2>1, <2>2, <2>3, QuietStep DEF c
<1> QED
  BY <1>3, <1>4, <1>5, <1>6

\* A restarted node begins a new epoch, in which it has proposed nothing.
LEMMA RestartNumber ==
    ASSUME NumberInv, QuorumInv, NEW n \in Nodes, Restart(n)
    PROVE  NumberInv'
<1>1. /\ restarts' = [restarts EXCEPT ![n] = @ + 1] /\ chat' = [chat EXCEPT ![n] = NoChat]
      /\ UNCHANGED proposals /\ restarts \in [Nodes -> 0 .. MaxRestarts]
      /\ chat \in [Nodes -> Chats]
  BY DEF Restart, QuorumInv
<1>2. ASSUME NEW p \in proposals
      PROVE  /\ p.epoch <= restarts'[p.by]
             /\ p.epoch = restarts'[p.by] => Past(chat'[p.by], p.number)
  <2>1. /\ p.by \in Nodes /\ p.epoch \in Nat /\ p.epoch <= restarts[p.by]
        /\ p.epoch = restarts[p.by] => Past(chat[p.by], p.number)
    BY DEF QuorumInv, Proposals, NumberInv
  <2>2. CASE p.by = n
    BY <1>1, <2>1, <2>2, BoundAssumption
  <2>3. CASE p.by # n
    BY <1>1, <2>1, <2>3
  <2> QED
    BY <2>2, <2>3
<1>3. \A m \in Nodes : Blank(chat'[m])
  BY <1>1, NewChatBlank DEF NumberInv
<1>4. OneProposalPerNumber'
  BY <1>1 DEF NumberInv, OneProposalPerNumber
<1> QED
  BY <1>1, <1>2, <1>3, <1>4 DEF NumberInv

\* Every step keeps one proposal per number.
LEMMA NextNumber == QuorumInv /\ NumberInv /\ [Next]_vars => NumberInv'
<1> SUFFICES ASSUME QuorumInv, NumberInv, [Next]_vars PROVE NumberInv'
  OBVIOUS
<1>1. ASSUME UNCHANGED <<chat, restarts, proposals>> PROVE NumberInv'
  BY <1>1 DEF NumberInv, OneProposalPerNumber
<1>2. ASSUME NEW m \in Nodes, NEW n \in Nodes, Panic(m, n) \/ Lose(m, n) PROVE NumberInv'
  BY <1>1, <1>2 DEF Panic, Lose
<1>3. CASE UNCHANGED vars
  BY <1>1, <1>3 DEF vars
<1>4. CASE Next
  BY <1>2, <1>4, ClientNumber, ReceiveNumber, RestartNumber DEF Next
<1> QED
  BY <1>3, <1>4

\* No incarnation of a node proposes two blocks under one number, whatever the order in
\* which messages, votes and blocks reach it.
THEOREM OneProposalHolds == Spec => []OneProposalPerNumber
<1>1. Init => NumberInv
  BY NewChatBlank DEF Init, NumberInv, OneProposalPerNumber
<1>2. NumberInv => OneProposalPerNumber
  BY DEF NumberInv
<1> QED
  BY <1>1, <1>2, NextNumber, QuorumInvariant, PTL DEF Spec

-----------------------------------------------------------------------------
(* No message is taken twice *)

\* What NoReplay says of one copy.
Unused(c) ==
    /\ c.current_block \cap c.stage.proposed = {}
    /\ \A msg \in c.current_block \cup c.stage.proposed : msg[2] < c.members[msg[1]]

\* A copy with the same members whose two blocks hold no more than before.
LEMMA FewerUnused ==
    ASSUME NEW c, Unused(c), NEW d, d.members = c.members,
           d.current_block \cup d.stage.proposed \subseteq c.current_block \cup c.stage.proposed,
           d.current_block \cap d.stage.proposed = {}
    PROVE  Unused(d)
BY DEF Unused

\* Votes and blocks of the other nodes bring no message back.
LEMMA VoteUnused ==
    ASSUME NEW c \in Chats, Unused(c), NEW m, NEW h
    PROVE  /\ Unused(CountVote(c, m, h))
           /\ Unused(AcceptAgainstProposal(c, m, h))
           /\ Unused(AcceptRecovered(c, h))
<1> DEFINE v == CountVote(c, m, h)
           a == AcceptAgainstProposal(c, m, h)
           r == AcceptRecovered(c, h)
<1>1. /\ v.members = c.members /\ v.current_block = c.current_block
      /\ v.stage.proposed \in {c.stage.proposed, NoHash}
  BY DEF CountVote, PushToFinalized, DefaultStage, Recovering, Chats, Stages
<1>2. /\ a.members = c.members /\ a.current_block = c.current_block
      /\ a.stage.proposed \in {c.stage.proposed, NoHash}
  BY DEF AcceptAgainstProposal, PushToFinalized, DefaultStage, Chats, Stages
<1>3. /\ r.members = c.members /\ r.current_block \subseteq c.current_block
      /\ r.stage = c.stage
  BY DEF AcceptRecovered, PushToFinalized, Chats
<1>4. c.current_block \cap c.stage.proposed = {}
  BY DEF Unused
<1> HIDE DEF v, a, r
<1>5. Unused(v)
  BY <1>1, <1>4, FewerUnused DEF NoHash
<1>6. Unused(a)
  BY <1>2, <1>4, FewerUnused DEF NoHash
<1>7. Unused(r)
  BY <1>3, <1>4, FewerUnused
<1> QED
  BY <1>5, <1>6, <1>7 DEF v, a, r

\* Closing a block moves its messages on: the block being voted on, if there were one,
\* would have kept the full block open (NotFinalized).
LEMMA CloseUnused ==
    ASSUME NEW c \in Chats, Unused(c), ~Fits(c), ~NotFinalized(c)
    PROVE  Unused(CloseBlock(c)) /\ CloseBlock(c).members = c.members
<1> DEFINE d == CloseBlock(c)
<1>1. /\ d.members = c.members /\ d.current_block = {}
      /\ d.stage.proposed \in {NoHash, c.current_block, c.stage.proposed}
  <2>1. CASE d = FinalizeCurrentBlock(c)
    BY <2>1 DEF FinalizeCurrentBlock, PushToFinalized, DefaultStage, Chats
  <2>2. CASE d = ProposeOrDiscard(c)
    BY <2>2 DEF ProposeOrDiscard, Chats, Stages
  <2> QED
    BY <2>1, <2>2 DEF CloseBlock
<1> HIDE DEF d
<1> QED
  BY <1>1, FewerUnused DEF NoHash, d

\* The nonce of a new message is used up with it, and no earlier message has that nonce.
LEMMA PerformUnused ==
    ASSUME NEW c \in Chats, Unused(c), NEW req \in ChatActions
    PROVE  Unused(Perform(c, req))
<1> DEFINE d == [c EXCEPT !.members[req.by] = req.nonce]
<1>1. /\ req.by \in Users /\ req.nonce \in 1 .. MaxNonce
      /\ req.type \in {"AddUser", "SendMessage", "LargeMessage"}
      /\ req.type = "AddUser" => req.id \in Users
  BY DEF ChatActions
<1>2. /\ c.members \in [Users -> Nat \cup {NotMember}] /\ c.current_block \subseteq Messages
      /\ c.stage.proposed \subseteq Messages
  BY DEF Chats, Stages, Hashes
<1>3. \A msg \in Messages : msg = <<msg[1], msg[2]>> /\ msg[1] \in Users /\ msg[2] \in Nat
  BY BoundAssumption DEF Messages
<1>4. CASE ~Permitted(c, req)
  BY <1>4 DEF Perform
<1>5. CASE Permitted(c, req)
  <2>1. /\ d \in Chats /\ d.members = [c.members EXCEPT ![req.by] = req.nonce]
        /\ d.current_block = c.current_block /\ d.stage = c.stage
    <3>1. [c.members EXCEPT ![req.by] = req.nonce] \in [Users -> Nat \cup {NotMember}]
      BY <1>1, <1>2, BoundAssumption
    <3> QED
      BY <1>1, <3>1 DEF Chats
  <2>2. c.members[req.by] < req.nonce /\ c.members[req.by] # NotMember
    BY <1>5 DEF Permitted
  <2> HIDE DEF d
  <2>3. /\ \A msg \in c.current_block \cup c.stage.proposed : msg[2] < d.members[msg[1]]
        /\ d.members \in [Users -> Nat \cup {NotMember}]
    BY <1>1, <1>2, <1>3, <2>1, <2>2, BoundAssumption DEF Unused, NotMember
  <2>4. Unused(d)
    BY <2>1, <2>3 DEF Unused
  <2>5. CASE ~Succeeds(c, req)
    BY <1>5, <2>4, <2>5 DEF Perform, d
  <2>6. CASE Succeeds(c, req) /\ req.type = "AddUser"
    <3> DEFINE e == [d EXCEPT !.members[req.id] = 0]
    <3>1. c.members[req.id] = NotMember /\ req.id \in Users
      BY <1>1, <2>6 DEF Succeeds
    <3>2. /\ e.members = [d.members EXCEPT ![req.id] = 0]
          /\ e.current_block = c.current_block /\ e.stage = c.stage
      BY <2>1 DEF Chats
    <3> HIDE DEF e
    <3>3. \A msg \in c.current_block \cup c.stage.proposed : msg[1] # req.id
      BY <1>2, <1>3, <3>1 DEF Unused, NotMember
    <3>4. \A msg \in c.current_block \cup c.stage.proposed : msg[2] < e.members[msg[1]]
      BY <1>2, <1>3, <2>3, <3>2, <3>3
    <3>5. Unused(e)
      BY <3>2, <3>4 DEF Unused
    <3> QED
      BY <1>5, <2>6, <3>5 DEF Perform, d, e
  <2>7. CASE Succeeds(c, req) /\ req.type # "AddUser"
    <3> DEFINE msg == <<req.by, req.nonce - 1>>
               e   == IF Fits(d) THEN d ELSE CloseBlock(d)
               g   == [e EXCEPT !.current_block = @ \cup {msg}]
    <3>1. ~NotFinalized(d)
      BY <1>1, <2>1, <2>7 DEF Succeeds, NotFinalized, Fits
    <3>2. /\ Unused(e) /\ e.members = d.members
          /\ e.current_block \cup e.stage.proposed \subseteq c.current_block \cup c.stage.proposed
      <4>1. CASE Fits(d)
        BY <2>1, <2>4, <4>1
      <4>2. CASE ~Fits(d)
        <5>1. CloseBlock(d).current_block \cup CloseBlock(d).stage.proposed
                 \subseteq d.current_block \cup d.stage.proposed
          <6>1. CASE CloseBlock(d) = FinalizeCurrentBlock(d)
            BY <2>1, <6>1 DEF FinalizeCurrentBlock, PushToFinalized, DefaultStage, Chats, NoHash
          <6>2. CASE CloseBlock(d) = ProposeOrDiscard(d)
            BY <2>1, <6>2 DEF ProposeOrDiscard, Chats, Stages
          <6> QED
            BY <6>1, <6>2 DEF CloseBlock
        <5> QED
          BY <2>1, <2>4, <3>1, <4>2, <5>1, CloseUnused
      <4> QED
        BY <4>1, <4>2
    <3>3. g.members = e.members /\ g.current_block = e.current_block \cup {msg} /\ g.stage = e.stage
      <4>1. CASE Fits(d)
        BY <2>1, <4>1 DEF Chats
      <4>2. CASE ~Fits(d)
        BY <2>1, <4>2 DEF CloseBlock, FinalizeCurrentBlock, ProposeOrDiscard, PushToFinalized, Chats
      <4> QED
        BY <4>1, <4>2
    <3>4. Perform(c, req) = g
      BY <1>5, <2>7 DEF Perform, PushMessage, d
    <3> HIDE DEF e, g
    <3>5. msg \notin c.current_block \cup c.stage.proposed
      <4>1. c.members[req.by] <= req.nonce - 1
        BY <1>1, <1>2, <2>2, BoundAssumption DEF NotMember
      <4> QED
        BY <1>1, <1>2, <4>1, BoundAssumption DEF Unused, NotMember
    <3>6. msg[2] < d.members[msg[1]]
      BY <1>1, <1>2, <2>1, BoundAssumption
    <3> QED
      BY <3>2, <3>3, <3>4, <3>5, <3>6 DEF Unused
  <2> QED
    BY <2>5, <2>6, <2>7
<1> QED
  BY <1>4, <1>5

\* A chat that does not exist and a new one hold no message.
LEMMA NewChatUnused == Unused(NoChat) /\ \A u \in Users : Unused(NewChat(u))
<1>1. /\ NoChat.current_block = {} /\ NoChat.stage = DefaultStage
      /\ \A u \in Users : NewChat(u).current_block = {} /\ NewChat(u).stage = DefaultStage
  BY DEF NoChat, NewChat
<1> QED
  BY <1>1, StageTypes DEF Unused, NoHash

\* A step that changes one copy, to one without a repeated message.
LEMMA OneCopyUnused ==
    ASSUME NoReplay, chat \in [Nodes -> Chats], NEW n \in Nodes, NEW d, Unused(d),
           chat' = [chat EXCEPT ![n] = d]
    PROVE  NoReplay'
<1>1. \A k \in Nodes : chat'[k] = IF k = n THEN d ELSE chat[k]
  OBVIOUS
<1>2. \A k \in Nodes : Unused(chat'[k])
  BY <1>1 DEF NoReplay, Unused
<1> QED
  BY <1>2 DEF NoReplay, Unused

\* No step makes a copy take a message twice.
LEMMA NextUnused == QuorumInv /\ NoReplay /\ [Next]_vars => NoReplay'
<1> SUFFICES ASSUME QuorumInv, NoReplay, [Next]_vars PROVE NoReplay'
  OBVIOUS
<1> USE DEF QuorumInv
<1>1. chat \in [Nodes -> Chats] /\ \A n \in Nodes : chat[n] \in Chats /\ Unused(chat[n])
  BY DEF NoReplay, Unused
<1>2. ASSUME UNCHANGED chat PROVE NoReplay'
  BY <1>2 DEF NoReplay
<1>3. ASSUME NEW n \in Nodes, NEW req \in ChatActions,
             chat' = [chat EXCEPT ![n] = Perform(chat[n], req)]
      PROVE  NoReplay'
  BY <1>1, <1>3, PerformUnused, OneCopyUnused
<1>4. ASSUME NEW u \in Users, NEW e \in Nodes, CreateChat(u, e) PROVE NoReplay'
  <2>1. chat' = [chat EXCEPT ![e] = NewChat(u)]
    BY <1>4 DEF CreateChat
  <2> QED
    BY <1>1, <2>1, NewChatUnused, OneCopyUnused
<1>5. ASSUME NEW u \in Users, NEW e \in Nodes, NEW id \in Users,
             AddUser(u, e, id) \/ SendMessage(u, e) \/ LargeMessage(u, e)
      PROVE  NoReplay'
  <2> DEFINE k == nonce[u] + 1
  <2>1. nonce[u] < MaxNonce
    BY <1>5, Zenon DEF AddUser, SendMessage, LargeMessage, PerformChatAction
  <2>2. k \in 1 .. MaxNonce
    BY <2>1, BoundAssumption
  <2>3. /\ AddUserReq(u, k, id) \in ChatActions /\ SendMessageReq(u, k) \in ChatActions
        /\ LargeMessageReq(u, k) \in ChatActions
    BY <2>2 DEF AddUserReq, SendMessageReq, LargeMessageReq, ChatActions
  <2>4. ASSUME NEW req \in ChatActions, PerformChatAction(u, e, req) PROVE NoReplay'
    BY <1>1, <1>3, <2>4 DEF PerformChatAction
  <2> QED
    BY <1>5, <2>3, <2>4 DEF AddUser, SendMessage, LargeMessage
<1>6. ASSUME NEW m \in Nodes, NEW n \in Nodes, ReceiveCreateChat(m, n) \/ ReceiveChatAction(m, n)
      PROVE  NoReplay'
  <2> DEFINE req == Next1(m, n)
  <2>1. net[m][n] # <<>>
    BY <1>6 DEF ReceiveCreateChat, ReceiveChatAction, Arrives
  <2>2. req \in Requests
    BY <2>1, TakenHonest DEF Honest
  <2>3. CASE ReceiveCreateChat(m, n)
    <3>1. /\ req.type = "CreateChat"
          /\ chat' = [chat EXCEPT ![n] = IF chat[n].exists THEN chat[n] ELSE NewChat(req.id)]
      BY <1>1, <2>3 DEF ReceiveCreateChat, Arrives
    <3>2. req.id \in Users
      BY <2>2, <3>1 DEF Requests
    <3> QED
      BY <1>1, <3>1, <3>2, NewChatUnused, OneCopyUnused
  <2>4. CASE ReceiveChatAction(m, n)
    <3>1. /\ req.type \in {"AddUser", "SendMessage"}
          /\ chat' = [chat EXCEPT ![n] = Perform(chat[n], req)]
      BY <1>1, <2>4 DEF ReceiveChatAction, Arrives
    <3>2. req \in ChatActions
      BY <2>2, <3>1 DEF Requests, ChatActions
    <3> QED
      BY <1>3, <3>1, <3>2
  <2> QED
    BY <1>6, <2>3, <2>4
<1>7. ASSUME NEW m \in Nodes, NEW n \in Nodes,
             ReceiveProposeMsgBlock(m, n) \/ ReceiveSendBlock(m, n)
      PROVE  NoReplay'
  <2>1. PICK h : \/ chat' = chat
                 \/ chat' = [chat EXCEPT ![n] = chat[n]]
                 \/ chat' = [chat EXCEPT ![n] = CountVote(chat[n], m, h)]
                 \/ chat' = [chat EXCEPT ![n] = AcceptAgainstProposal(chat[n], m, h)]
                 \/ chat' = [chat EXCEPT ![n] = AcceptRecovered(chat[n], h)]
    BY <1>7 DEF ReceiveProposeMsgBlock, ReceiveSendBlock
  <2> QED
    BY <1>1, <1>2, <2>1, VoteUnused, OneCopyUnused
<1>8. ASSUME NEW n \in Nodes, Restart(n) PROVE NoReplay'
  BY <1>1, <1>8, NewChatUnused, OneCopyUnused DEF Restart
<1>9. ASSUME NEW m \in Nodes, NEW n \in Nodes, Panic(m, n) \/ Lose(m, n) PROVE NoReplay'
  BY <1>2, <1>9 DEF Panic, Lose
<1>10. CASE UNCHANGED vars
  BY <1>2, <1>10 DEF vars
<1>11. CASE Next
  BY <1>4, <1>5, <1>6, <1>7, <1>8, <1>9, <1>11 DEF Next
<1> QED
  BY <1>10, <1>11

\* A copy never takes a message twice, although a request may reach it late, after a
\* restart, or when the nonce is already used up by an action that failed.
THEOREM NoReplayHolds == Spec => []NoReplay
<1>1. Init => NoReplay
  <2> SUFFICES ASSUME Init PROVE NoReplay
    OBVIOUS
  <2> QED
    BY NewChatUnused DEF Init, NoReplay, Unused
<1> QED
  BY <1>1, NextUnused, QuorumInvariant, PTL DEF Spec
=============================================================================
