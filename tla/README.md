# Verification of the orion network

TLA+ models, TLC configurations and TLAPS proofs for the parts of the repository that carry
its own logic: the replicated chats, profiles and mailboxes of the servers, the replication of
client requests, rpc and the streams below it, onion paths, the client's node, the two contracts
on the chain, the routing table, how servers follow the chain, and the data structures and
codecs these rest on. All source paths below are relative to the repository.

## 1. The system

Users hold chats and mailboxes on a network of *servers* (`nodes/server`). A server has to
stake on a chain (`contracts/node_staker`); all servers read the list of staked nodes from
there and keep it in a sorted *routing table* (`core/dht`). A chat or a profile is a *topic*,
and the `REPLICATION_FACTOR + 1` nodes closest to the hash of its name are its *replication
group*. A client reaches any node of the group through an onion path (`core/onion`), that
node executes the request and sends it to the others by `core/rpc`, on streams that
`core/streaming` opens. User names and public keys are registered in a second contract
(`contracts/user_manager`).

| Component | State | Operations | Interacts with | What is hard | What makes it correct |
|---|---|---|---|---|---|
| chat handlers (`handlers/chat.rs`) | per chat: members with nonces, current block, stage of the last block (own proposal and votes, or recovering), finalized blocks | CreateChat, PerformChatAction, ProposeMsgBlock, SendBlock, FetchMessages | every handler may send rpc requests to the group | votes overtake blocks, lost votes, restarts without storage, panics in branches left open | copies agree, only majority blocks are final, no message twice, votes and recoveries end |
| replication (`handlers/replicated.rs`, `handlers.rs`) | suspended handlers: own response, calls under way, matches | execute, resume | rpc events, the wrapped handler, the client's stream | late, lost and disagreeing answers; the group changes while a request waits | answers have a majority, every request is answered |
| restoring (`handlers/retry.rs`) | calls under way, collected blocks | execute, resume | wraps a handler below replication | lost answers, the topic changes meanwhile | the request is executed on the newest state |
| profiles and mail (`handlers/profile.rs`) | profiles with vault, mailbox and two nonces; who is online where | CreateProfile, SetVault, ReadMail, SendMail, fetches | client streams, other servers | presence goes stale, mail arrives while a push is under way | no mail lost, no old vault restored |
| event loop (`main.rs`) | client streams with subscriptions, routing table, storage | handle_event, handle_client_message, handle_stake_event | everything above | list and events of the chain overlap or leave a gap | the table is the set of staked nodes |
| node staker (`contracts/node_staker`) | mapping of stakes, list of identities, balance | join, vote, reclaim, list | emits the events servers follow | list and mapping in step, signed votes, slashes by shifting | solvent, votes paid, list exact |
| user manager (`contracts/user_manager`) | four mappings between accounts, names and keys | register, pick, give up, transfer | clients look names up | changing keys while owning a name | mappings inverse to each other |
| routing table (`core/dht`) | sorted vector of routes | insert, remove, closest | filled by the event loop | wrap-around of the ring | closest routes in order, each once |
| rpc (`core/rpc`) | pending requests and responses, streams with an open call, cleaning of what failed | request, respond, poll | replication above, streaming below | requests dropped while a stream is opened, errors that nobody takes | a request is written once, its outcome is final, kept requests are answered |
| streaming (`core/streaming`) | connections, dials, stream requests and their resolution | create_stream, connection and handler events | rpc, onion | dials that fail, two connections to one peer, streams opened from both sides | each stream request has one dial or stream and is resolved once |
| onion (`core/onion`) | routed streams, pending connections, streams that wait for a dial | open_path, push_stream_request, upgrades, relaying | clients and relays | limits, closing of one of two connections, time outs of upgrades | paths do not cross, a client is told once and of the right end, slots come back |
| packet streams (`utils/component-utils/stream.rs`) | ring buffer, read state | write, flush, read | rpc and onion | wrap-around, partial writes | bytes leave in order |
| client node (`nodes/client/src/node.rs`) | key shares, vault, streams and the topics they serve, pending subscriptions and path requests | `Node::new`, the loop over commands, streams and swarm | servers, the tasks of the page | jobs that wait for a path, streams that break, a page that changes chats meanwhile | each chat is covered, order of a topic's jobs, the selected chat is heard |
| client state (`nodes/client/src/main.rs`, `chat.rs`) | nonces of actions and of the vault | actions, saving, login | the node's requests | refusals, answers that are lost, two tasks at once | a lone action is taken, a saved vault is what the user has |
| error correction (`utils/berkleamp-welch`) | shares | encode, rebuild, decode | storage (not called yet) | lost and wrong shares at the same time | the data that was encoded comes back |
| codec (`utils/component-utils/codec.rs`, `utils/codec-derive`) | none | encode, decode | everything that is sent | lengths and numbers at their limits, bytes from a peer | what was written is what is read, and nothing after it is touched |

The hazards this leads to are listed, each at its line, under `hazards` in `PROJECT.json`.

## 2. Modules

**ChatBlocks** models one chat and its replication group. `chat[n]` is `Chat` of
`handlers/chat.rs` field by field; `net[m][n]` is the rpc stream from `m` to `n`, a queue. A
message is the pair of its sender and its nonce; a block is the *set* of its messages, and so
is its hash, because `hash_block` sorts the message hashes before it combines them. The empty
set is the zero hash. There is one action per handler: a client's `CreateChat` and
`PerformChatAction` (with AddUser, SendMessage and a message too large to be stored) on the
entry node, and `Receive...` for the same requests, proposals and blocks at the other nodes.
What a handler sends is put on the streams in the same step, in the order of the code:
proposals first, since `send_block_proposals` runs inside the handler, then the replicated
request. `Panic` is the underflow of `last_finalized_block` and the `todo!` branches. `Lose`
is a request that rpc drops, `Restart` the loss of the storage, which is in memory only.

**Replication** models `Repl` and the nest of suspended handlers for any wrapped handler:
what it computes is a choice, here and on the other nodes. `call[r][p]` is the state of the
one rpc call that asks `p` to execute `r`. `NewReplicating` includes what rpc may do with a
request (a full buffer refuses it, a stream that is just being opened drops it). `Overflow` is
the panic of the fixed-size vector of calls when the group was computed without this node.

**MajorityCall** is the abstract specification of a replicated request: nodes are asked, each
votes at most once, and the client is told once, of a result only if a majority voted for it.
Replication implements it (`PromiseKept`); the mapping makes the answers that were counted,
early and late ones, the votes.

**Mailboxes** is one profile with its vault, mailbox and two nonces on a group of nodes:
`CreateProfile`, `SetVault`, `FetchVault`, `ReadMail` and `SendMail` under replication
(`replicated.rs`) and restoring (`retry.rs`), which wraps them: a node without the profile first
asks the others for theirs and takes the newest vault. A job is one suspended request with the
calls it waits for. `online` is presence; the recipient subscribes, moves to another node and
goes away without telling. The mail of the model is one message, so what matters is where copies
of it are: in which mailboxes, pushed, read.

**Streaming** models the behaviour of `core/streaming` with its handlers: connections, dials,
requests for streams, incoming streams. **Rpc** extends it with the calls of `core/rpc`: pending
requests and responses, streams with and without a call on them, what a failing stream leaves
behind. Peers answer, or break what they have.

**Onion** models the behaviour and the handlers of `core/onion`: a client opens a path through
relays, each of which unwraps one layer and either connects on or accepts. Encryption is
wrapping: a layer is opened only by the node it is for. `dialing[n]` is what the swarm of `n`
dials: a second dial of the same peer is refused and not reported, so that what waits for the peer
depends on the first one, which may be that of another behaviour (`foreign[n]`, `OtherDials`,
`OtherDialFails`); dials of the boot addresses are refused by nothing (`OtherConnects`).
Connections close, servers deny those of servers they do not know after the
onion behaviour recorded them (`Denied`, `DeadConn`), upgrades fail or time out, channels idle.
**Relaying** is the copying of bytes on one channel (`forward_from`), with its cache of what was
not taken.

**ClientBoot** is `Node::new`: collecting key shares until there are enough nodes, the profile
stream, the vault, and the streams that cover the chats of the vault. **ClientNode** continues
with the node's loop: requests, subscriptions, searches for a topic's replicas, path events and
broken streams, and the tasks of the page that use it; servers read requests in the order in which
they arrive, answer them or never do, and push events. **ClientState** has the numbers under which the client signs its
actions and saves its vault: refusals that tell the right nonce, lost answers, logins.

**UserManager** and **NodeStaker** have one action per message of the contracts; a failing
assertion reverts the message, so that it is a guard. Balances keep their width
(`BalanceBits`), as the slash is a shift. `change_addr` is no message of the contract.

**RoutingTable** has the vector of routes, `bulk_insert`, `insert` and `remove` as actions, and
`closest_low` as an operator: the two iterators that run into each other around the ring are
four indices (`Walk`, `NextLeft`, `NextRight`, `Advance`).

**Membership** composes NodeStaker with servers: the chain executes messages on its best
block and finalizes them later; a server reads the list, subscribes, handles the events of
final blocks one by one, misses some when reading fails, and restarts. An identity stakes for any
node id, one that is no key or one that has a stake already; `table[s][e]` is the number of routes
to `e`, since the list is put in with its repetitions. A list with an id that is no key keeps the
server from starting (`ListUnpacks`), an event about one is ignored.

**Reading** is `FetchMessages` on one copy: a reader follows the cursor it is given while blocks
are closed, agreed on and replaced. **Messages** is `retain_messages`, which takes messages out
of a block in place, and `unpack_messages`. **PacketWriter** is the ring buffer that packets are
written to and flushed from in pieces.

**Galois** is the field of bytes with its tables, matrices and polynomials, **Fec** the error
correction over it: data is encoded, shares are lost and changed, then rebuilt or decoded. These
are the real 256 elements and the real polynomial; the tables that the build script writes and
the matrices of `Fec` are variables. **WireCodec** has the encoding and decoding of each kind
of value, among them what `derive(Codec)` makes of structs and enums; numbers have fewer bits.

The **MC** modules give the constants that a configuration cannot express, and symmetries.
**MCStructures** puts the data structures and Membership side by side, **MCCalls** Replication and
Rpc: the parts share no state, and a behaviour is one of one of them.

## 3. Runs

| Run | Checks | Shows |
|---|---|---|
| chat_one_entry | TypeOK, OneProposalPerNumber, BlockAgreement, VoteEnds | three nodes, four actions of a client of one entry node, no losses: however streams interleave, copies that are not recovering agree, and votes end |
| chat_failures | QuorumBacked, NoReplay | two users on two entry nodes, one of which restarts, and a lost request: no minority block becomes final, no message is taken twice |
| chat_agreement (violation) | BlockAgreement | two entry nodes, nothing lost: a vote without a number is counted for another block, copies finalize different blocks under one number |
| calls | MajorityBacked, AgreedIsAnswered, PromiseKept, StreamsAccounted, WrittenOnce, OutcomeIsFinal, RequestAnswered | replication: factor 4 and five other nodes, up to two lost calls; every behaviour is one of MajorityCall. Rpc: two calls to a peer with two connections, a call of the peer, two faults |
| repl_ends (violation) | RequestEnds | with exactly half of the others agreeing the client is never answered |
| mail | AckedVaultDurable, ToldMailArrived, RestoringIsFed, NoncesGoForward | any two of five requests at any of three nodes, with the profile everywhere, nowhere, or missing on one node |
| mail_twice (violation) | NoMailTwice | the node that stores mail for a recipient that has gone is sent the mail again |
| onion | Slots, PathsDoNotCross, EndToEnd, NothingForgotten, ToldOnce, PathReported | two paths over the same relays, or one path with two faults and a dial of another behaviour |
| onion_limit (violation) | StreamLimit | a relay holds one stream more than `max_streams` |
| client | BootCovers, NoOvertaking, SelectedIsHeard, DispatchEnds | four nodes, a profile and three chats, three uses by tasks, or a fault, or events |
| structures | NamesConsistent, ClosestInOrder, PagesFollow, KeptExactly, WriterInOrder, ForwardsInOrder, LoneActionTaken, VaultSaved, DataRestored, ReadsWhatWasWritten, ListMatchesStakes, Solvent, TablesMatchStakes | the parts of MCStructures, each against a definition of what it stands for; among them two identities that join three times for a node or for an id that is no key, are rated and leave, and a server |
| fec_blame (violation) | CheatersFound | `decode` that is asked to report wrong shares reports all |

Every property of a passing run has a mutant in `PROJECT.json`: a definition next to the one
it changes, named after the mistake, with which TLC finds the property violated.

**Bounds.** Each bound is a constant with a comment.

- *Chats.* Three nodes (`RF = 2`) are the smallest group with a majority that is not everybody,
  with blocks of one message and a history of one or two blocks, so that blocks are closed,
  finalized and forgotten within two to four actions of a client (`MaxNonce`). One loss and one
  restart already separate the copies; the theorems do not depend on any of these bounds.
- *Replication* is checked with the real replication factor.
- *Mail.* Three nodes are an entry, the node of the recipient and a third one. Two requests
  overlap in every way; the faults are a lost call or a restart.
- *Rpc.* One peer, since nothing is shared between peers but the map of streams. Two
  connections, because closing one of them is what goes wrong; two faults, so that a
  failure can hit what a first one left behind.
- *Onion.* Three servers in a row are the shortest path whose ends do not know each other. The
  limit is 0 and 1, where the first and the second path meet it. Two faults reach a failed dial of
  another behaviour, or a denied connection, and what comes after it.
- *Client.* No node replicates all chats, so covering them takes several streams; a start has
  either three uses, or fewer with faults and events (`MCStarts`).
- *Members.* Servers are independent of each other, so one is enough; two identities suffice for
  two stakes on one node, and for the list's `swap_remove` to move an entry, and stakes of 3 with slashes of 2 and 4 reach both the
  partial and the full slash.
- *Structures.* Sixteen ids have all the wrap-arounds of the ring. A buffer of seven bytes with
  packets of two and three meets its end in every position. Six shares, two of them required,
  make room for two wrong ones. Numbers of five bits in digits of two have, as the real ones, a
  last digit that is not full.

Deadlock is not checked where clients, joins or time run out by a bound.

**What is assumed in the sequential parts.** `WriterInOrder` and `ForwardsInOrder` hold under
preconditions of the code that the modules name, because outside of them bytes are lost (see
*Behaviour to know of*). `DataRestored` says for which shares the data comes back, which is less
than the code aims at.

**Fairness.** Weak fairness throughout, never of clients, losses, restarts or faults.

- `ChatBlocks!FairSpec`: handling what is on a stream. `Replication!ReplFairness`: executing a request
  and taking an answer. The `poll` of the server drains clients, swarm and stake events in a loop
  until each is pending (`nodes/server/src/main.rs:517-532`).
- `Rpc!Fairness`: the swarm polls its behaviours, dials succeed or fail, a peer that was asked
  answers unless something broke.
- `Onion!Spec`: dials end, those of other behaviours too, and so do upgrades, for which the swarm
  allows ten seconds. Nothing else is fair: relays may stall for ever.
- `ClientNode!Spec`: the branches of the node's `select!` are taken in turn, listeners are polled,
  servers read what arrives. That a server answers, or that a path is reported, is not assumed: a
  vote of the replicators may never end (`repl_ends`), an answer may not fit, and what `PathReported`
  excepts is not reported. `DispatchEnds` says what the client does itself to end a request.

**Findings.** The five violation runs are disagreements with the repository's own documents,
quoted under `findings` in `PROJECT.json`: votes without numbers, half of the group agreeing,
mail stored twice, a stream more than the limit, right shares blamed with the wrong ones.

**What the properties except.** Several properties name a case in which the code does lose
something, and hold outside of it: they show that the case is the only one, and do not catch it.
These are lost proposals and calls (`VoteEnds`, `AgreedIsAnswered`, `RestoringIsFed`), requests that
rpc drops (`RequestAnswered`), peers in `cut` (`NothingForgotten`, `PathReported`), the second caching of
a channel (`ForwardsInOrder`), the three ways of writing a packet (`WriterInOrder`), the gap before a
subscription and the reclaimed second stake (`TablesMatchStakes`), strays (`SelectedIsHeard`),
requests lost outside the client (`DispatchEnds`), concurrent actions (`LoneActionTaken`), a login
that races a save (`VaultSaved`), panics of the page (`BootCovers`) and two missing data shares
(`DataRestored`). The notes of the hazards say it for each.

## 4. Proofs

All theorems hold for every value of the constants that the named assumptions admit.

| Module | Theorems that state a property of a run |
|---|---|
| ChatBlocksProofs | TypeCorrect, QuorumBackedHolds, OneProposalHolds, NoReplayHolds |
| ReplicationProofs | MajorityBackedHolds, PromiseKeptHolds (also TypeCorrect, NoMajorityIsCertainHolds) |
| MailboxProofs | AckedVaultDurableHolds, ToldMailArrivedHolds, RestoringIsFedHolds, NoncesGoForwardHolds |
| RpcProofs | StreamsAccountedHolds, WrittenOnceHolds, OutcomeIsFinalHolds |
| OnionProofs | SlotsHolds, PathsDoNotCrossHolds, EndToEndHolds, NothingForgottenHolds, ToldOnceHolds |
| MembershipProofs | ListMatchesHolds, SolventHolds, TablesMatchHolds |
| ClientProofs | BootCoversHolds, NoOvertakingHolds, SelectedIsHeardHolds |
| StructureProofs | ForwardsInOrderHolds, WriterInOrderHolds, VaultSavedHolds, LoneActionTakenHolds, PagesFollowHolds, NamesConsistentHolds |

Each inductive invariant below was an invariant of the run of its component before it was proved.

*ChatBlocksProofs.* Assumptions: the group is finite with `RF + 1` nodes, blocks and history
are not empty, bounds are natural numbers. `QuorumBacked` is not inductive: a vote in `others`
may be left over from another block, so what has to be known is where each vote came from.
`QuorumInv` says that every copy is `Trusted` (each stored vote was proposed by the node it is
stored for or is for a block already backed by a majority; each finalized block is backed; a
proposal on file has been sent) and every stream `Honest` (a proposal on it was made by its
sender, a block on it is backed). The set of proposals is a parameter of both, and they only
grow with it. Votes of others and the node's own proposal are disjoint, and counting both
gives a majority of proposers (`CountedVotes`). From it follow `TypeCorrect` and
`QuorumBackedHolds`. `OneProposalHolds` uses `NumberInv`: every number a node proposed under
since its last restart is `Past`, that is, below its block number or that of the block it has
given up while recovering; closing a block is the only step that proposes, and makes a number
`Past` that was not. For `NoReplayHolds` each copy is `Unused`: every message in the current or
the proposed block has a nonce below its sender's, and the two blocks are disjoint. Votes and
blocks of other nodes only take messages out of the two, and a message put in has the nonce that
the member has next.

*ReplicationProofs.* Assumptions: finitely many peers, `Oks`, `Errs` and `Nothing` are
different. `AllGood` says for each request that the nodes waited for are those asked and not
yet answered, that `matched` is the number of answers equal to the node's own, and what was
told is justified. One lemma per kind of step keeps it for one request; `TypeCorrect`,
`MajorityBackedHolds` and `NoMajorityIsCertainHolds` follow. `PromiseKeptHolds` is the refinement:
under `AllGood`, each step of Replication is a step of MajorityCall or leaves its variables alone.

*MailboxProofs.* Assumptions: the group is finite and has more than one node, the numbers in
requests to create, set and read are naturals (`Nonce` is unsigned). `MailInv` says of every
handler and every call what is true of the copies: an answer Ok on its way means that its sender
has the mail, or a vault that is not older; an entry that replicates has its own copy, and
`matched` is at most the number of nodes that were asked, have answered and have a copy, plus the
copies that restarts may have taken (`CountedBy`). It is kept because every step but a restart is
a `CopiesStep`: no vault is replaced by an older one, no stored or pushed mail is taken back. That
is one lemma per handler (`HandleFacts`), one for restoring (`NewestFacts`), and is also what
`NoncesGoForwardHolds` says. A restart takes one copy and is counted (`CountLess`).
`RestoringIsFedHolds` adds `FedAll`, the property for every handler: running a handler ends its
waiting, asking sends as many calls as it waits for, and a call that is handled either feeds
another handler's wait by its answer or nobody's.

*RpcProofs.* `StreamingInv` says of each peer what `StreamsAccounted` does, and that a peer
without a connection has no request queued at its handlers; without this, a new connection would
find requests that no dial was made for. Each step moves a request from one count to another. For
Rpc, `WrittenOnce` becomes inductive with `WaitingUnwritten`: a call that is new or waits has not
been written.

*OnionProofs.* Assumptions: routes are three different servers none of which is the client.
`ToldInv` (a path that is waited for has no outcome) is enough for `ToldOnce`,
and `SlotsInv` counts, at the two places where a stream is admitted, what the code counts.
`PathInv` adds `StreamsInv`: *every* stream is where its place on the route says, and carries
the packet of that place (`AllMade` with `StreamType`, `HopOf`, `PacketOf`), every stream that
waits is at the node it went to, and every channel joins a stream with its source. So the secret
on both sides is that of the first stream. For `EndToEndHolds`, `EndInv` says that every "ok",
on its way back or told, is `Confirmed` by an inbound stream at the destination with the same
secret. `NothingForgottenHolds` needs `SeenInv`: tries are `Numbered`, so that a new one never
overwrites an old one; connected nodes know of the connection, and a server has an entry for a
connection that is none, unless one of theirs was closed or denied; and where a dial is what is
under way, no connection was known, so that the end of the dial asks for the streams, reports, or
puts the pair into `cut`.

*MembershipProofs.* `StakerInv` (types, list, solvency): removing an identity removes one stake
of the full amount and pays at most that (`SlashBounds`). Among the assumptions are the
values of `2 ^ n` up to the width of a balance, which the provers cannot derive.
`TablesMatchHolds` composes it with the servers. Nothing is assumed of who stakes for which id
(`MemberAssumption`), so the argument counts:
a server has no more routes to a node than the node has stakes now and reclaims the server is still
to be told of, and it has a route to a staked node about which no event is to come, unless the last
one was a reclaim (`TableTells`, `RightAbout`). An event that adds a route keeps the count because a
node that joined is staked or its reclaim follows in the log (`LogTells`).

*ClientProofs.* Assumptions: finitely many peers, at least one path, every topic has a
replicator, `NoStream` is neither a path nor a stream. `BootInv` says for each phase which
paths and streams there are. When paths are opened for the chats, each chat is `Covered`: by the
stream of the profile, by a path, or by a stream that a path has become. This rests on a lemma
about `PathTo`: no two peers that were picked get the same path. For the running client `RunInv` puts the jobs of
a topic in line: numbers grow along what waits in front of the node and along what waits for a
path, and the former are greater (`RequestsInLine`); a topic for which a path is opened has no
stream and no other path (`Searches`), so that nothing of this topic can be written before the
path is open, and then all is, in order. `NoOvertakingHolds` follows. For `SelectedIsHeardHolds`,
what was written waits no more (`Written`), commands of a topic are in order on each stream
(`StreamsInLine`), and a listener's subscription is the last of its topic (`Owners`): so a
server that has handled it has it in its table and no older one comes after it (`Heard`).
`Closed` follows a closed subscription until the node has handled the closing.

*StructureProofs.* Relaying: what was sent, the cache and what was not read yet are in line
(`BytesInLine`). PacketWriter: the bytes that wait lie between `start` and `end`, either
`Straight` or `Around` the end of the buffer. ClientState: numbers of the vault only go up and
the last state of the vault is to be sent, in the last save under way, or stored (`VaultInv`). An
action has one request or one answer on its way (`OneTry`); the number a lone one was refused for
is still that of the chat, and its second try has a greater one (`Lone`). Reading, with blocks
that hold at least one message (`BLOCK_SIZE`): unless the copy was altered, the list is that of
the closed blocks, newest first (`InStep`), so that the difference of two numbers finds the block
(`BlockAt`), and a reading lies `Within` the block it began with, which only grows. UserManager:
`NamesInv` (types and `NamesConsistent` with its two halves) is inductive; neither half is alone,
because a transfer moves a name in all mappings at once.

**Only model-checked.** Liveness (`VoteEnds`, `AgreedIsAnswered`, `RequestAnswered`, `PathReported`,
`DispatchEnds`), which depends on fairness. What is defined by recursion or folds over data:
`ClosestInOrder`, `DataRestored`, `ReadsWhatWasWritten`, `KeptExactly`. `BlockAgreement`, which
holds with one entry node only: votes are not tied to a block number, so its argument is about
the order of whole executions, and it is checked for three nodes.

## 5. Behaviour to know of

Met while the code was modelled. The models do what the code does; the properties are stated so
that they hold of it, or the run's bounds leave the case out where this list says so.

- *Chats.* A recovering copy waits for a block that is sent only in answer to a late proposal of
  its own (`chat.rs:207`), so recovery need not end. A copy slower than the majority in its first
  block underflows (`chat.rs:405`) in a debug build. Restoring of a chat collects blocks and does
  nothing with them.
- *Reading.* When a block has been read to its beginning the cursor moves to the newer number
  (`cursor.block += 1`, `chat.rs:251`), so older blocks are not reached; a replaced block may have
  its messages in another order.
- *Replication.* A node that leaves the group while a request waits overflows the vector of calls.
- *Mail.* A restoring node is given the mail with the profile and then stores it again.
  `pop_pushed_mail` clears the whole mailbox (`profile.rs:125`), also what arrived since.
- *Chain.* A join between reading the list and subscribing is not seen. Two identities may stake
  for the same node id. A server that read such a list has two routes to the node; one that followed
  the events has one, and drops the node when either stake is reclaimed. Anybody can stake for an id
  that is no key, and from then on no server can start (`main.rs:324-329`). A negative vote costs
  the voter as much as a positive one.
- *Rpc and streaming.* A request made while a stream to the peer is being resolved is dropped
  silently. A failed dial leaves its entry in `dial_requests`. Errors of failed responses are
  queued and drained by nobody; the part of `clean_failed_requests` that looks for pending
  requests never finds any.
- *Onion.* A dial that is refused because another behaviour dials the peer is ignored, and when that
  dial fails nothing that waits is reported (`behaviour.rs:253-257`), though `report_unreachable` "must
  be called when a peer cannot be found, otherwise a pending connection information is leaked"
  (`behaviour.rs:183`). On a server the onion behaviour records a connection before the dht denies it
  (`main.rs:228-243`, order of the fields 638-644): no close is reported for it, and streams are asked
  for on a connection that is none. A relay ignores a failed dial upgrade and keeps
  its entry in `pending_connections`, though `handler.rs:116` counts on an error of the stream. The
  close of one of two connections removes the peer's entry. The client's `stream.read`
  (`handler.rs:366`) may return less than the packet. `pick_route` asserts two nodes and needs
  three.
- *Packet streams.* With sinks that take part of a slice, PacketWriter reorders or loses bytes, or
  panics, when a packet exactly fills the room before `start`, is written while the buffer is
  wrapped, or while the vector is longer than what waits. `forward_from` does not reset `written`
  when its cache is cleared (`behaviour.rs:459`), so a second partial write skips bytes.
- *Client.* Chats of the profile stream's node are not counted as covered and get a second stream.
  Closing a subscription that still waits for its path is ignored. A path that fails panics the
  page; the end of the profile stream ends the node, and a request written to another broken
  stream waits for ever. An error of FetchVault is taken for a missing profile; a vault that
  cannot be decrypted is replaced by an empty one. `dispatch_chat_action` takes any error of the
  first try other than InvalidAction for success; two actions after a login may retry with one
  nonce. FETCH_LOCK's guard is dropped at once (`chat.rs:113`), so that fetches overlap.
- *Error correction.* `rebuild` overwrites shares while later ones are still computed from them
  (`fec.rs:145`): with two data shares missing the result is wrong. After one byte was corrected
  all shares have been renumbered (`fec.rs:195`), so a second damaged byte makes `exp` run for
  about 2^64 / 255 rounds, and all of them are reported as invalid. The debug assertion in `invert_matrix_with` (`math.rs:68`) fails with
  fewer wrong shares than could be corrected. The slices for vector units xor the old value in
  `mul_slice_in_place` (`galois.rs:112`).
- *Codec.* `u128` is cut to 64 bits (none is sent). A list of elements that take no bytes is
  refused when it is longer than what follows. Narrow integers are truncated when read.
- *Storage formats and merkle tree.* Uncalled: `Codec::default` of storage-spec asserts;
  `from_base` needs a power of two of leaves, and proofs fit only a combination that commutes.

## 6. Not modelled, and the plan

Next: PacketReader and the key share protocol, which are small; hardened chats and invitations
of the client.

Not modelled, and why:

- the vendored Falcon and the Kyber wrapper, about half of the lines of the workspace: numerical
  code over polynomials of hundreds of coefficients, out of TLC's reach, and not this
  program's own logic; proofs and key exchange that call it are opaque values;
- the macro for contracts, configuration and generated chain types: they declare or generate code;
- `core/storage-spec`, the merkle tree, and the satelite and storage nodes: nothing calls them, or
  they are stubs;
- the client's user interface, the browser's database, the visualiser and the websocket shim:
  rendering, input and output.

`PROJECT.json` lists every component with its status.
