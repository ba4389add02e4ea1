----------------------------- MODULE Mailboxes -----------------------------
(***************************************************************************)
(* The profile of one user on the nodes that replicate it: creating it,    *)
(* replacing the vault, sending mail to the user, reading the mail         *)
(* (nodes/server/src/handlers/profile.rs), and restoring a profile that a  *)
(* node does not have (handlers/retry.rs), below the replication of        *)
(* requests (handlers/replicated.rs).                                      *)
(*                                                                         *)
(* A request is handled by the node it was sent to, its entry, and then by *)
(* the other nodes of the group.  job[o][n] is the handler of request o on *)
(* node n, the entry's or a replica's, with the calls it waits for.  Only  *)
(* the recipient's streams are kept, at most one at a time: a node knows   *)
(* the user to be online through a stream of its own ("client", or "stale" *)
(* when that stream is gone) or through the node that last replicated a    *)
(* reading of the mail to it.                                              *)
(*                                                                         *)
(* Signatures are valid, the group does not change (both are modelled in   *)
(* other modules), mails have one unit of size, and a vault is its         *)
(* version.  Calls that fail are never reported by rpc, so a failed call   *)
(* is a lost one; rpc accepts every call (Rpc and Replication have full    *)
(* buffers).                                                               *)
(***************************************************************************)
EXTENDS Integers, Sequences, SequencesExt, FiniteSets, FiniteSetsExt

CONSTANTS
    Group, NoNode,      \* the replication group, and none of it
    Ops,                \* the requests: [kind, arg]
    Starts,             \* [missing, faults]: nodes without the profile at first, and a bound on
                        \* lost calls and restarts from there
    BoxCap,             \* MAIL_BOX_CAP
    MaxOps, MaxConnects \* bounds

ReplFactor == Cardinality(Group) - 1

ASSUME MailboxesAssumption ==
    /\ IsFiniteSet(Group) /\ Cardinality(Group) > 1 /\ NoNode \notin Group
    /\ \A o \in Ops : /\ o.kind \in {"create", "vault", "fetch", "mail", "read"}
                      /\ o.kind \in {"create", "vault", "read"} => o.arg \in Nat      \* a nonce
    /\ Starts \subseteq [missing : SUBSET Group, faults : Nat]
    /\ {BoxCap, MaxOps, MaxConnects} \subseteq Nat

VARIABLES
    profiles,           \* profiles[n]: the profile on n, or NoProfile
    online,             \* online[n]: where n last saw the user
    here, subscribed,   \* the node the user has a stream to, and whether it is subscribed
    entry,              \* entry[o]: the node the request was sent to, or NoNode
    job,                \* job[o][n]: the handler of request o on node n
    calls,              \* calls and answers between nodes that are on their way
    pushed,             \* history: mails written to a subscribed stream of the user
    stored,             \* history, stored[n]: mails that n put in its mailbox
    faults, connects,   \* how many more faults there may be, and connects so far
    lost, reboots       \* history: how many faults there were

mailVars == <<profiles, online, here, subscribed, entry, job, calls, pushed, stored, faults,
          connects, lost, reboots>>

-----------------------------------------------------------------------------

Profile(version, action, mail) == [vault_version |-> version, mail_action |-> action,
                                   mail |-> mail]
NoProfile == Profile(-1, -1, <<>>)

Result(kind, mail) == [kind |-> kind, mail |-> mail]
NoResult           == Result("none", <<>>)

\* A handler: its stage, who asked, the nodes it waits for, how many answered alike, and the
\* result it replicates or has told.
Handler(stage, origin, waits, matched, res) ==
    [stage |-> stage, origin |-> origin, waits |-> waits, matched |-> matched, res |-> res]
Idle == Handler("idle", "server", {}, 0, NoResult)

Call(kind, o, from, to, body) == [kind |-> kind, op |-> o, from |-> from, to |-> to,
                                  body |-> body]

Others(n) == Group \ {n}
Mails     == {o.arg : o \in {x \in Ops : x.kind = "mail"}}

MailInit == /\ \E s \in Starts :
                  /\ profiles = [n \in Group |-> IF n \in s.missing THEN NoProfile
                                                 ELSE Profile(0, 0, <<>>)]
                  /\ faults = s.faults
            /\ online = [n \in Group |-> "offline"]
            /\ here = NoNode /\ subscribed = FALSE
            /\ entry = [o \in Ops |-> NoNode]
            /\ job = [o \in Ops |-> [n \in Group |-> Idle]]
            /\ calls = {}
            /\ pushed = {} /\ stored = [n \in Group |-> {}]
            /\ lost = 0 /\ reboots = 0 /\ connects = 0

-----------------------------------------------------------------------------
(* The handlers, on a node with profile p that saw the user at presence on.  *)
(* An outcome is the profile and presence they leave, the result, whether    *)
(* the mail was put in the mailbox or pushed to the user, and the node that  *)
(* is asked to push it.                                                      *)

Outcome(p, on, res) == [profile |-> p, presence |-> on, res |-> res,
                        pushes |-> FALSE, stores |-> FALSE, ask |-> NoNode]
Accepted(p, on)       == Outcome(p, on, Result("ok", <<>>))
Rejected(p, on, kind) == Outcome(p, on, Result(kind, <<>>))

CreateProfile(nonce, p, on) ==
    IF p = NoProfile THEN Accepted(Profile(nonce, nonce, <<>>), on)
    ELSE IF p.vault_version < nonce THEN Accepted([p EXCEPT !.vault_version = nonce], on)
    ELSE Rejected(p, on, "exists")

SetVault(nonce, p, on) ==
    IF p = NoProfile THEN Rejected(p, on, "notfound")
    ELSE IF nonce > p.vault_version THEN Accepted([p EXCEPT !.vault_version = nonce], on)
    ELSE Rejected(p, on, "invalid")

FetchVault(p, on) == IF p = NoProfile THEN Rejected(p, on, "notfound") ELSE Accepted(p, on)

\* Reading empties the mailbox, and the node remembers who asked.
ReadMail(nonce, p, on, origin, from) ==
    IF p = NoProfile THEN Rejected(p, on, "notfound")
    ELSE IF nonce <= p.mail_action THEN Rejected(p, on, "invalid")
    ELSE Outcome([p EXCEPT !.mail_action = nonce, !.mail = <<>>],
                 CASE origin = "server" -> from [] origin = "self" -> "client"
                   [] origin = "left" -> "stale",
                 Result("ok", p.mail))

Stored(m, p, on) == [Accepted([p EXCEPT !.mail = Append(@, m)], on) EXCEPT !.stores = TRUE]

\* Mutant of PushNotification: a stream that is gone takes the mail.
PushNotificationStale(on) == [taken |-> TRUE, reaches |-> on = "client" /\ subscribed]

\* The stream takes the mail when it is still there and subscribed, and then it reaches the user.
PushNotification(on) == [taken   |-> on = "client" /\ subscribed,
                         reaches |-> on = "client" /\ subscribed]

Full(p) == Len(p.mail) + 1 >= BoxCap

SendMail(m, p, on, origin) ==
    IF p = NoProfile THEN Rejected(p, on, "notfound")
    ELSE IF Full(p) THEN Rejected(p, on, "full")
    ELSE IF on = "offline" THEN Stored(m, p, on)
    ELSE IF on \in {"client", "stale"}
      THEN IF on = "client" /\ origin = "self" THEN Rejected(p, on, "self")
           ELSE IF PushNotification(on).taken
             THEN [Rejected(p, on, "direct") EXCEPT !.pushes = PushNotification(on).reaches]
           ELSE Stored(m, p, "offline")
    ELSE IF origin = "server" THEN Stored(m, p, "offline")
    ELSE [Stored(m, p, on) EXCEPT !.ask = on]

HandleRequest(o, p, on, origin, from) ==
    CASE o.kind = "create" -> CreateProfile(o.arg, p, on)
      [] o.kind = "vault"  -> SetVault(o.arg, p, on)
      [] o.kind = "fetch"  -> FetchVault(p, on)
      [] o.kind = "read"   -> ReadMail(o.arg, p, on, origin, from)
      [] o.kind = "mail"   -> SendMail(o.arg, p, on, origin)

-----------------------------------------------------------------------------
(* Running the handler of request o on node n, which has profile p           *)

\* The entry of a request tells the client, or replicates a result that is Ok first.
Replicated(o, res) == o.kind # "fetch" /\ res.kind = "ok"

AfterEntry(o, n, origin, res) ==
    IF Replicated(o, res) THEN Handler("replicating", origin, Others(n), 0, res)
                          ELSE Handler("told", origin, {}, 0, res)

Replicas(o, n, res) ==
    {Call("call", o, n, m, NoResult) : m \in IF Replicated(o, res) THEN Others(n) ELSE {}}

\* In the entry or, for "server", in a replica; kept are the calls that stay on their way.
Run(o, n, p, origin, from, kept) ==
    LET out == HandleRequest(o, p, online[n], origin, from)
    IN  /\ profiles' = [profiles EXCEPT ![n] = out.profile]
        /\ online' = [online EXCEPT ![n] = out.presence]
        /\ pushed' = IF out.pushes THEN pushed \cup {o.arg} ELSE pushed
        /\ stored' = IF out.stores THEN [stored EXCEPT ![n] = @ \cup {o.arg}] ELSE stored
        /\ \/ /\ origin = "server"
              /\ job' = [job EXCEPT ![o][n] = Idle]
              /\ calls' = kept \cup {Call("answer", o, n, from, out.res)}
           \/ /\ origin # "server" /\ out.ask # NoNode
              /\ job' = [job EXCEPT ![o][n] = Handler("direct", origin, {out.ask}, 0, out.res)]
              /\ calls' = kept \cup {Call("call", o, n, out.ask, NoResult)}
           \/ /\ origin # "server" /\ out.ask = NoNode
              /\ job' = [job EXCEPT ![o][n] = AfterEntry(o, n, origin, out.res)]
              /\ calls' = kept \cup Replicas(o, n, out.res)

\* Retry: a node without the profile first asks all others for it.
Execute(o, n, origin, from, kept) ==
    IF profiles[n] # NoProfile \/ o.kind = "create"
      THEN Run(o, n, profiles[n], origin, from, kept)
      ELSE /\ job' = [job EXCEPT ![o][n] =
                         Handler("restoring", origin, Others(n), 0, NoResult)]
           /\ calls' = kept \cup {Call("fetch", o, n, m, NoResult) : m \in Others(n)}
           /\ UNCHANGED <<profiles, online, pushed, stored>>

-----------------------------------------------------------------------------
(* Steps of the nodes *)

unchangedByNodes == UNCHANGED <<here, subscribed, faults, connects, lost, reboots>>

\* A client sends a request to a node.  The user reads its mail over its own stream.
Submit(o, n, origin) ==
    /\ entry[o] = NoNode
    /\ Cardinality({x \in Ops : entry[x] # NoNode}) < MaxOps
    /\ o.kind = "read" => origin = "self"
    /\ o.kind \in {"create", "vault", "fetch"} => origin = "client"
    /\ origin = "self" => here = n
    /\ entry' = [entry EXCEPT ![o] = n]
    /\ Execute(o, n, origin, n, calls)
    /\ unchangedByNodes

\* A node handles the call of another one.
HandleCall(c) ==
    /\ c.kind = "call"
    /\ Execute(c.op, c.to, "server", c.from, calls \ {c})
    /\ UNCHANGED entry /\ unchangedByNodes

FetchFullProfile(c) ==
    /\ c.kind = "fetch"
    /\ calls' = (calls \ {c}) \cup {Call("fetched", c.op, c.to, c.from, profiles[c.to])}
    /\ UNCHANGED <<profiles, online, entry, job, pushed, stored>> /\ unchangedByNodes

\* Mutant of Newest: the profile that arrives last is taken.
NewestLast(fetched, p) == IF fetched = NoProfile THEN p ELSE fetched

\* A fetched profile is taken when it is newer than the one that may be there by now.
Newest(fetched, p) == IF fetched.vault_version > p.vault_version THEN fetched ELSE p

\* Mutant of AllAnswered: the last answer is not noticed.
AllAnsweredNever(waits) == waits = {} /\ ReplFactor = 0

\* Restoring goes on when every node that was asked has answered.
AllAnswered(waits) == waits = {}

\* An answer while restoring; with the last one the request itself is handled.
Restore(c) ==
    LET n == c.to
        h == job[c.op][n]
        p == Newest(c.body, profiles[n])
        waits == h.waits \ {c.from}
    IN  /\ c.kind = "fetched"
        /\ h.stage = "restoring"
        /\ IF AllAnswered(waits)
             THEN Run(c.op, n, p, h.origin, entry[c.op], calls \ {c})
             ELSE /\ profiles' = [profiles EXCEPT ![n] = p]
                  /\ job' = [job EXCEPT ![c.op][n].waits = waits]
                  /\ calls' = calls \ {c}
                  /\ UNCHANGED <<online, pushed, stored>>
        /\ UNCHANGED entry /\ unchangedByNodes

\* The node the user was last seen at answers: when it pushed the mail the mailbox here is
\* emptied, otherwise the presence is cleared and the mail is replicated.
DirectAnswer(c) ==
    LET n == c.to
        h == job[c.op][n]
    IN  /\ c.kind = "answer"
        /\ h.stage = "direct"
        /\ \/ /\ c.body.kind = "direct"
              /\ profiles' = [profiles EXCEPT ![n].mail = <<>>]
              /\ job' = [job EXCEPT ![c.op][n] = Handler("told", h.origin, {}, 0, c.body)]
              /\ calls' = calls \ {c}
              /\ UNCHANGED online
           \/ /\ c.body.kind # "direct"
              /\ online' = [online EXCEPT ![n] = "offline"]
              /\ job' = [job EXCEPT ![c.op][n] = AfterEntry(c.op, n, h.origin, h.res)]
              /\ calls' = (calls \ {c}) \cup Replicas(c.op, n, h.res)
              /\ UNCHANGED profiles
        /\ UNCHANGED <<entry, pushed, stored>> /\ unchangedByNodes

\* Mutant of MailMajority: half of the others is enough.
MajorityHalf(matched) == matched >= ReplFactor \div 2

MailMajority(matched) == matched > ReplFactor \div 2

ReplAnswer(c) ==
    LET h == job[c.op][c.to]
        matched == h.matched + (IF c.body = h.res THEN 1 ELSE 0)
        waits == h.waits \ {c.from}
    IN  /\ c.kind = "answer"
        /\ h.stage = "replicating" /\ c.from \in h.waits
        /\ job' = [job EXCEPT ![c.op][c.to] =
              IF MailMajority(matched) THEN Handler("told", h.origin, {}, matched, h.res)
              ELSE IF Cardinality(waits) + matched < ReplFactor \div 2
                THEN Handler("told", h.origin, {}, matched, Result("nomajority", <<>>))
              ELSE Handler("replicating", h.origin, waits, matched, h.res)]
        /\ calls' = calls \ {c}
        /\ UNCHANGED <<profiles, online, entry, pushed, stored>> /\ unchangedByNodes

\* An answer nobody waits for.
Unexpected(c) ==
    /\ c.kind = "answer" /\ job[c.op][c.to].stage \in {"told", "lost"}
    /\ calls' = calls \ {c}
    /\ UNCHANGED <<profiles, online, entry, job, pushed, stored>> /\ unchangedByNodes

-----------------------------------------------------------------------------
(* The user, the network and the nodes *)

Connect(n) == /\ here = NoNode /\ connects < MaxConnects
              /\ here' = n /\ connects' = connects + 1
              /\ UNCHANGED <<profiles, online, subscribed, entry, job, calls, pushed, stored, faults,
                             lost, reboots>>

Subscribe == /\ here # NoNode /\ ~subscribed
             /\ subscribed' = TRUE
             /\ UNCHANGED <<profiles, online, here, entry, job, calls, pushed, stored, faults,
                            connects, lost, reboots>>

\* What a node keeps of the stream is its id, which no later stream has.
Leave == /\ here # NoNode
         /\ here' = NoNode /\ subscribed' = FALSE
         /\ online' = [online EXCEPT ![here] = IF @ = "client" THEN "stale" ELSE @]
         /\ job' = [o \in Ops |-> [n \in Group |->
                       [job[o][n] EXCEPT !.origin = IF @ = "self" THEN "left" ELSE @]]]
         /\ UNCHANGED <<profiles, entry, calls, pushed, stored, faults, connects, lost, reboots>>

\* A call or its answer is lost: rpc drops it, or its stream fails.
LoseCall(c) == /\ faults > 0 /\ faults' = faults - 1 /\ lost' = lost + 1
               /\ calls' = calls \ {c}
               /\ UNCHANGED <<profiles, online, here, subscribed, entry, job, pushed, stored, reboots,
                              connects>>

\* A node restarts with nothing in memory.
RestartNode(n) ==
    /\ faults > 0 /\ faults' = faults - 1 /\ reboots' = reboots + 1
    /\ profiles' = [profiles EXCEPT ![n] = NoProfile]
    /\ online' = [online EXCEPT ![n] = "offline"]
    /\ here' = IF here = n THEN NoNode ELSE here
    /\ subscribed' = (subscribed /\ here # n)
    /\ job' = [o \in Ops |-> [job[o] EXCEPT ![n] =
                  IF entry[o] = n /\ @.stage # "told" THEN Handler("lost", "server", {}, 0, NoResult)
                  ELSE IF entry[o] = n THEN @ ELSE Idle]]
    /\ calls' = {c \in calls : n \notin {c.from, c.to}}
    /\ UNCHANGED <<entry, pushed, stored, lost, connects>>

NodeStep == \E c \in calls : \/ HandleCall(c) \/ FetchFullProfile(c) \/ Restore(c)
                             \/ DirectAnswer(c) \/ ReplAnswer(c) \/ Unexpected(c)

MailNext == \/ \E o \in Ops, n \in Group, origin \in {"client", "self"} : Submit(o, n, origin)
            \/ NodeStep
            \/ \E n \in Group : Connect(n) \/ RestartNode(n)
            \/ Subscribe \/ Leave
            \/ \E c \in calls : LoseCall(c)

MailSpec == MailInit /\ [][MailNext]_mailVars

-----------------------------------------------------------------------------

Told(o, kind) == /\ entry[o] # NoNode
                 /\ job[o][entry[o]].stage = "told" /\ job[o][entry[o]].res.kind = kind

\* Once a client was told that its vault is set, a majority of the group and the entry have
\* that vault or a newer one, and keep it: no request that is replicated later, and no profile
\* that a restoring node fetched before, brings an older one back.  Only restarts take copies.
AckedVaultDurable ==
    \A o \in Ops : o.kind \in {"create", "vault"} /\ Told(o, "ok") =>
        Cardinality({n \in Group : profiles[n].vault_version >= o.arg}) + reboots
            >= ReplFactor \div 2 + 2

\* A sender that is told Ok has its mail put in the mailboxes of a majority and of the entry,
\* though the recipient may come, go and read meanwhile; one that is told SentDirectly has it
\* written to a stream of the recipient, though presence is remembered by nodes that the
\* recipient left.
ToldMailArrived ==
    \A o \in Ops : o.kind = "mail" =>
        /\ Told(o, "ok") => Cardinality({n \in Group : o.arg \in stored[n]}) >= ReplFactor \div 2 + 2
        /\ Told(o, "direct") => o.arg \in pushed

\* While a node keeps a profile its vault is never replaced by an older one, and the number
\* that protects reading mail from being replayed falls only together with the whole profile,
\* when restoring brings in a newer vault.
NoncesGoForward ==
    [][\A n \in Group : profiles[n] # NoProfile /\ profiles'[n] # NoProfile =>
          /\ profiles'[n].vault_version >= profiles[n].vault_version
          /\ profiles'[n].mail_action < profiles[n].mail_action
                => profiles'[n].vault_version > profiles[n].vault_version]_mailVars

\* A request that waits for its profile to be restored waits only for answers that are on their
\* way, unless a call was lost or a node restarted: as answering needs nothing but the node that
\* was asked, nodes that restore the same profile from each other never wait for ever.
RestoringIsFed ==
    lost + reboots = 0 =>
        \A o \in Ops, n \in Group : job[o][n].stage = "restoring" =>
            /\ job[o][n].waits # {}
            /\ \A m \in job[o][n].waits : \E c \in calls :
                  /\ c.op = o
                  /\ \/ c.kind = "fetch" /\ c.from = n /\ c.to = m
                     \/ c.kind = "fetched" /\ c.from = m /\ c.to = n

\* What the whitepaper says of mail to a user who is not online any more: the node that was
\* asked to push it keeps it, and it is sent to the rest of the group.  No mailbox gets a mail
\* twice.
NoMailTwice == \A n \in Group : IsInjective(profiles[n].mail)
=============================================================================
