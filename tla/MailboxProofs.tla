--------------------------- MODULE MailboxProofs ---------------------------
(***************************************************************************)
(* Proofs about the profile of a user on its replicas (Mailboxes), for any *)
(* group of nodes, any requests and any number of faults.                  *)
(***************************************************************************)
EXTENDS Mailboxes, FiniteSetTheorems, TLAPS

-----------------------------------------------------------------------------
(* Types.                                                                   *)

Args     == {o.arg : o \in Ops}
Profiles == {NoProfile} \cup [vault_version : Nat, mail_action : Nat, mail : Seq(Args)]
Results  == [kind : {"none", "ok", "exists", "notfound", "invalid", "full", "self", "direct", "nomajority"},
             mail : Seq(Args)]
Presences == Group \cup {"offline", "client", "stale"}
Stages   == {"idle", "restoring", "direct", "replicating", "told", "lost"}
Origins  == {"server", "client", "self", "left"}
Handlers == [stage : Stages, origin : Origins, waits : SUBSET Group, matched : Nat, res : Results]

MailTypes ==
    /\ profiles \in [Group -> Profiles]
    /\ online \in [Group -> Presences]
    /\ entry \in [Ops -> Group \cup {NoNode}]
    /\ job \in [Ops -> [Group -> Handlers]]
    /\ DOMAIN stored = Group
    /\ reboots \in Nat /\ lost \in Nat
    /\ here \in Group \cup {NoNode}

-----------------------------------------------------------------------------
(* What a node has done of a request, and how many have.                    *)

Lasting(o) == o.kind \in {"create", "vault", "mail"}

\* The node has the mail, or a vault that is not older.
Has(n, o) == IF o.kind = "mail" THEN o.arg \in stored[n] ELSE profiles[n].vault_version >= o.arg

Having(o) == {n \in Group : Has(n, o)}

\* Copies of a vault that restarts may have taken.
Gone(o) == IF o.kind = "mail" THEN 0 ELSE reboots

\* h, a handler of the entry e of request o, does not count more than there is, when the nodes H
\* have what it asks for, g of them may have lost it, and these mails have reached the user.
CountedBy(o, e, h, H, g, arrived) ==
    /\ h.stage \in {"direct", "replicating"} => h.res.kind = "ok"
    /\ Lasting(o) =>
          /\ h.stage \in {"direct", "replicating"} => e \in H
          /\ h.stage = "replicating" =>
                /\ h.waits \subseteq Others(e)
                /\ h.matched <= Cardinality(H \ (h.waits \cup {e})) + g
          /\ h.stage = "told" /\ h.res.kind = "ok" => Cardinality(H) + g >= ReplFactor \div 2 + 2
    /\ o.kind = "mail" /\ h.stage = "told" /\ h.res.kind = "direct" => o.arg \in arrived

Counted(o, e, h) == CountedBy(o, e, h, Having(o), Gone(o), pushed)

\* Nodes that are not the entry answer for it.
HandlerOK(o, n, h) ==
    /\ n # entry[o] => h.origin = "server" /\ h.stage \in {"idle", "restoring"}
    /\ o.kind = "read" => h.origin # "client"
    /\ h.stage \in {"idle", "restoring"} \/ Counted(o, n, h)

\* What is on its way between the entry and the others; an answer is true.
CallOK(c) ==
    /\ c = Call(c.kind, c.op, c.from, c.to, c.body)
    /\ c.kind \in {"call", "answer", "fetch", "fetched"}
    /\ c.op \in Ops /\ c.from \in Group /\ c.to \in Group /\ entry[c.op] # NoNode
    /\ c.kind = "call" => c.from = entry[c.op]
    /\ c.kind = "fetched" => c.body \in Profiles
    /\ c.kind = "answer" =>
          /\ c.to = entry[c.op] /\ c.body \in Results
          /\ Lasting(c.op) /\ c.body.kind = "ok" => c.from \in Having(c.op)
          /\ c.op.kind = "mail" /\ c.body.kind = "direct" => c.op.arg \in pushed

MailInv ==
    /\ MailTypes
    /\ \A o \in Ops, n \in Group : HandlerOK(o, n, job[o][n])
    /\ \A c \in calls : CallOK(c)

\* What every step but a restart does to the copies: nothing is taken back.
Forward(p, q) ==
    /\ q.vault_version >= p.vault_version
    /\ q.mail_action < p.mail_action => q.vault_version > p.vault_version

CopiesStep ==
    /\ \A n \in Group : Forward(profiles[n], profiles'[n]) /\ stored[n] \subseteq stored'[n]
    /\ pushed \subseteq pushed'
    /\ reboots' = reboots

\* The entry of a request stays what it is.
EntryStep ==
    /\ entry' \in [Ops -> Group \cup {NoNode}]
    /\ \A o \in Ops : entry[o] # NoNode => entry'[o] = entry[o]

-----------------------------------------------------------------------------
(* Counting.                                                                *)

LEMMA NodesFacts ==
    /\ IsFiniteSet(Group) /\ Cardinality(Group) \in Nat /\ ReplFactor \in Nat /\ ReplFactor \div 2 \in Nat
    /\ NoNode \notin Group
    /\ \A H \in SUBSET Group : IsFiniteSet(H) /\ Cardinality(H) \in Nat
<1>1. IsFiniteSet(Group) /\ NoNode \notin Group /\ Cardinality(Group) > 1
  BY MailboxesAssumption
<1>2. Cardinality(Group) \in Nat
  BY <1>1, FS_CardinalityType
<1>3. ASSUME NEW H \in SUBSET Group PROVE IsFiniteSet(H)
  BY <1>1, FS_Subset
<1>4. ASSUME NEW H \in SUBSET Group PROVE Cardinality(H) \in Nat
  BY <1>3, FS_CardinalityType
<1>5. ReplFactor \in Nat /\ ReplFactor \div 2 \in Nat
  BY <1>1, <1>2 DEF ReplFactor
<1> QED
  BY <1>1, <1>2, <1>3, <1>4, <1>5

LEMMA CardMonotone ==
    ASSUME NEW H \in SUBSET Group, NEW K \in SUBSET H
    PROVE  Cardinality(K) <= Cardinality(H)
<1>1. IsFiniteSet(H)
  BY NodesFacts
<1> QED
  BY <1>1, FS_Subset

LEMMA CardWithout ==
    ASSUME NEW H \in SUBSET Group, NEW n
    PROVE  Cardinality(H \ {n}) = IF n \in H THEN Cardinality(H) - 1 ELSE Cardinality(H)
<1>1. IsFiniteSet(H)
  BY NodesFacts
<1> QED
  BY <1>1, FS_RemoveElement

\* More copies are counted as well.
LEMMA CountMore ==
    ASSUME NEW o, NEW e, NEW h \in Handlers, NEW H \in SUBSET Group, NEW K \in SUBSET Group,
           NEW g \in Nat, NEW r, NEW s, Lasting(o) => H \subseteq K, r \subseteq s,
           CountedBy(o, e, h, H, g, r)
    PROVE  CountedBy(o, e, h, K, g, s)
<1>1. CASE ~Lasting(o)
  BY <1>1 DEF CountedBy
<1>2. CASE Lasting(o)
  <2>1. Cardinality(H) <= Cardinality(K)
    BY <1>2, CardMonotone
  <2>2. Cardinality(H \ (h.waits \cup {e})) <= Cardinality(K \ (h.waits \cup {e}))
    <3>1. (H \ (h.waits \cup {e})) \in SUBSET (K \ (h.waits \cup {e}))
      BY <1>2
    <3> QED
      BY <3>1, CardMonotone
  <2>3. Cardinality(H) \in Nat /\ Cardinality(K) \in Nat /\ ReplFactor \div 2 \in Nat
        /\ Cardinality(H \ (h.waits \cup {e})) \in Nat /\ Cardinality(K \ (h.waits \cup {e})) \in Nat
    BY NodesFacts
  <2>4. h.matched \in Nat
    BY DEF Handlers
  <2> DEFINE ch == Cardinality(H)
             ck == Cardinality(K)
             dh == Cardinality(H \ (h.waits \cup {e}))
             dk == Cardinality(K \ (h.waits \cup {e}))
             half == ReplFactor \div 2
  <2>5. h.stage = "told" /\ h.res.kind = "ok" => ck + g >= half + 2
    <3>1. h.stage = "told" /\ h.res.kind = "ok" => ch + g >= half + 2
      BY <1>2 DEF CountedBy
    <3>2. ch \in Nat /\ ck \in Nat /\ half \in Nat /\ ch <= ck
      BY <2>1, <2>3
    <3> HIDE DEF ch, ck, half
    <3> QED
      BY <3>1, <3>2
  <2>6. h.stage = "replicating" => h.matched <= dk + g
    <3>1. h.stage = "replicating" => h.matched <= dh + g
      BY <1>2 DEF CountedBy
    <3>2. dh \in Nat /\ dk \in Nat /\ dh <= dk
      BY <2>2, <2>3
    <3> HIDE DEF dh, dk
    <3> QED
      BY <3>1, <3>2, <2>4
  <2> QED
    BY <1>2, <2>5, <2>6 DEF CountedBy
<1> QED
  BY <1>1, <1>2

\* A restart of n takes at most its copy, which is counted as one that may be gone.
LEMMA CountLess ==
    ASSUME NEW o, NEW e, NEW n, NEW h \in Handlers, NEW H \in SUBSET Group, NEW K \in SUBSET Group,
           NEW g \in Nat, NEW r, H \ {n} \subseteq K,
           h.stage \in {"direct", "replicating"} => e # n,
           CountedBy(o, e, h, H, g, r)
    PROVE  CountedBy(o, e, h, K, g + 1, r)
<1> DEFINE X == h.waits \cup {e}
           ch == Cardinality(H)
           ck == Cardinality(K)
           dh == Cardinality(H \ X)
           dk == Cardinality(K \ X)
           half == ReplFactor \div 2
<1>1. ch <= ck + 1
  <2>1. Cardinality(H \ {n}) <= ck
    BY CardMonotone
  <2>2. Cardinality(H \ {n}) >= ch - 1
    BY CardWithout, NodesFacts
  <2>3. Cardinality(H \ {n}) \in Nat /\ ch \in Nat /\ ck \in Nat
    BY NodesFacts
  <2> HIDE DEF ch, ck
  <2> QED
    BY <2>1, <2>2, <2>3
<1>2. dh <= dk + 1
  <2>1. Cardinality((H \ X) \ {n}) <= dk
    <3>1. (H \ X) \ {n} \in SUBSET (K \ X) /\ K \ X \in SUBSET Group
      OBVIOUS
    <3> HIDE DEF X
    <3> QED
      BY <3>1, CardMonotone
  <2>2. Cardinality((H \ X) \ {n}) >= dh - 1
    <3>1. H \ X \in SUBSET Group
      OBVIOUS
    <3> HIDE DEF X
    <3>2. Cardinality((H \ X) \ {n}) = IF n \in H \ X THEN dh - 1 ELSE dh
      BY <3>1, CardWithout
    <3>3. dh \in Nat
      BY <3>1, NodesFacts
    <3> HIDE DEF dh
    <3> QED
      BY <3>2, <3>3
  <2>3. Cardinality((H \ X) \ {n}) \in Nat /\ dh \in Nat /\ dk \in Nat
    BY NodesFacts
  <2> HIDE DEF dh, dk
  <2> QED
    BY <2>1, <2>2, <2>3
<1>3. ch \in Nat /\ ck \in Nat /\ dh \in Nat /\ dk \in Nat /\ half \in Nat /\ h.matched \in Nat
  BY NodesFacts DEF Handlers
<1>4. Lasting(o) /\ h.stage = "told" /\ h.res.kind = "ok" => ck + (g + 1) >= half + 2
  <2>1. Lasting(o) /\ h.stage = "told" /\ h.res.kind = "ok" => ch + g >= half + 2
    BY DEF CountedBy
  <2> HIDE DEF ch, ck, half
  <2> QED
    BY <2>1, <1>1, <1>3
<1>5. Lasting(o) /\ h.stage = "replicating" => h.matched <= dk + (g + 1)
  <2>1. Lasting(o) /\ h.stage = "replicating" => h.matched <= dh + g
    BY DEF CountedBy
  <2> HIDE DEF dh, dk
  <2> QED
    BY <2>1, <1>2, <1>3
<1> QED
  BY <1>4, <1>5 DEF CountedBy

\* One more answer, of a node that was waited for and has it.
LEMMA CountAnswer ==
    ASSUME NEW e \in Group, NEW H \in SUBSET Group, NEW waits \in SUBSET Others(e), NEW m \in waits,
           m \in H
    PROVE  Cardinality(H \ ((waits \ {m}) \cup {e})) = Cardinality(H \ (waits \cup {e})) + 1
<1>1. H \ ((waits \ {m}) \cup {e}) = (H \ (waits \cup {e})) \cup {m} /\ m \notin H \ (waits \cup {e})
  BY DEF Others
<1>2. IsFiniteSet(H \ (waits \cup {e}))
  BY NodesFacts
<1> QED
  BY <1>1, <1>2, FS_AddElement

\* What is counted with the entry is a majority of the group.
LEMMA CountMajority ==
    ASSUME NEW e \in Group, NEW H \in SUBSET Group, NEW waits, e \in H, NEW g \in Nat,
           NEW matched \in Nat, MailMajority(matched),
           matched <= Cardinality(H \ (waits \cup {e})) + g
    PROVE  Cardinality(H) + g >= ReplFactor \div 2 + 2
<1> DEFINE ch == Cardinality(H)
           dh == Cardinality(H \ (waits \cup {e}))
           half == ReplFactor \div 2
<1>1. dh <= ch - 1
  <2>1. Cardinality(H \ {e}) = ch - 1
    BY CardWithout
  <2>2. H \ (waits \cup {e}) \in SUBSET (H \ {e}) /\ H \ {e} \in SUBSET Group
    OBVIOUS
  <2>3. dh <= Cardinality(H \ {e})
    BY <2>2, CardMonotone
  <2> QED
    BY <2>1, <2>3
<1>2. ch \in Nat /\ dh \in Nat /\ half \in Nat /\ matched > half
  BY NodesFacts DEF MailMajority
<1>3. matched <= dh + g
  OBVIOUS
<1>4. ch + g >= half + 2
  <2> HIDE DEF ch, dh, half
  <2> QED
    BY <1>1, <1>2, <1>3
<1> QED
  BY <1>4

-----------------------------------------------------------------------------
(* The handlers.                                                            *)

\* What a handler leaves: the profile has not gone back, and Ok or SentDirectly is true.
OutcomeOK(o, p, out) ==
    /\ out.profile \in Profiles /\ Forward(p, out.profile)
    /\ out.presence \in Presences /\ out.res \in Results /\ out.ask \in Group \cup {NoNode}
    /\ o.kind \in {"create", "vault"} /\ out.res.kind = "ok" => out.profile.vault_version >= o.arg
    /\ o.kind = "mail" /\ out.res.kind = "ok" => out.stores
    /\ o.kind = "mail" /\ out.res.kind = "direct" => out.pushes
    /\ out.ask # NoNode => o.kind = "mail" /\ out.res.kind = "ok"

LEMMA OpsFacts ==
    ASSUME NEW o \in Ops
    PROVE  /\ o.kind \in {"create", "vault", "fetch", "mail", "read"} /\ o.arg \in Args
           /\ o.kind \in {"create", "vault", "read"} => o.arg \in Nat
<1>1. o.arg \in Args
  BY DEF Args
<1>2. o.kind \in {"create", "vault", "fetch", "mail", "read"}
  BY MailboxesAssumption
<1>3. o.kind \in {"create", "vault", "read"} => o.arg \in Nat
  BY MailboxesAssumption
<1> QED
  BY <1>1, <1>2, <1>3

LEMMA ProfileFacts ==
    ASSUME NEW p \in Profiles
    PROVE  /\ p.vault_version \in Int /\ p.mail_action \in Int /\ p.mail \in Seq(Args)
           /\ Forward(p, p)
           /\ p = NoProfile \/ p \in [vault_version : Nat, mail_action : Nat, mail : Seq(Args)]
           /\ p = NoProfile => p.vault_version = -1 /\ p.mail_action = -1
           /\ p # NoProfile => p.vault_version \in Nat /\ p.mail_action \in Nat
<1>1. p = NoProfile \/ p \in [vault_version : Nat, mail_action : Nat, mail : Seq(Args)]
  BY DEF Profiles
<1>2. NoProfile.vault_version = -1 /\ NoProfile.mail_action = -1 /\ NoProfile.mail = <<>>
  BY DEF NoProfile, Profile
<1>3. <<>> \in Seq(Args) /\ -1 \in Int
  OBVIOUS
<1>4. p.vault_version \in Int /\ p.mail_action \in Int /\ p.mail \in Seq(Args)
  <2>1. CASE p = NoProfile
    BY <2>1, <1>2, <1>3
  <2>2. CASE p \in [vault_version : Nat, mail_action : Nat, mail : Seq(Args)]
    BY <2>2
  <2> QED
    BY <1>1, <2>1, <2>2
<1> QED
  BY <1>1, <1>2, <1>4 DEF Forward

LEMMA CreateFacts ==
    ASSUME NEW o \in Ops, NEW p \in Profiles, NEW on \in Presences, o.kind = "create"
    PROVE  OutcomeOK(o, p, CreateProfile(o.arg, p, on))
<1>1. o.arg \in Nat
  BY OpsFacts
<1>2. CASE p = NoProfile
  BY <1>1, <1>2, ProfileFacts
     DEF CreateProfile, Accepted, Outcome, Result, OutcomeOK, Profiles, Profile, Forward, Results
<1>3. CASE p # NoProfile /\ p.vault_version < o.arg
  BY <1>1, <1>3, ProfileFacts
     DEF CreateProfile, Accepted, Outcome, Result, OutcomeOK, Profiles, Forward, Results
<1>4. CASE p # NoProfile /\ ~(p.vault_version < o.arg)
  BY <1>1, <1>4, ProfileFacts
     DEF CreateProfile, Rejected, Outcome, Result, OutcomeOK, Results
<1> QED
  BY <1>2, <1>3, <1>4

LEMMA VaultFacts ==
    ASSUME NEW o \in Ops, NEW p \in Profiles, NEW on \in Presences, o.kind = "vault"
    PROVE  OutcomeOK(o, p, SetVault(o.arg, p, on))
<1>1. o.arg \in Nat
  BY OpsFacts
<1>2. CASE p = NoProfile
  BY <1>1, <1>2, ProfileFacts DEF SetVault, Rejected, Outcome, Result, OutcomeOK, Results
<1>3. CASE p # NoProfile /\ o.arg > p.vault_version
  BY <1>1, <1>3, ProfileFacts
     DEF SetVault, Accepted, Outcome, Result, OutcomeOK, Profiles, Forward, Results
<1>4. CASE p # NoProfile /\ ~(o.arg > p.vault_version)
  BY <1>1, <1>4, ProfileFacts DEF SetVault, Rejected, Outcome, Result, OutcomeOK, Results
<1> QED
  BY <1>2, <1>3, <1>4

LEMMA FetchFacts ==
    ASSUME NEW o \in Ops, NEW p \in Profiles, NEW on \in Presences, o.kind = "fetch"
    PROVE  OutcomeOK(o, p, FetchVault(p, on))
BY ProfileFacts DEF FetchVault, Accepted, Rejected, Outcome, Result, OutcomeOK, Results

LEMMA ReadFacts ==
    ASSUME NEW o \in Ops, NEW p \in Profiles, NEW on \in Presences, NEW origin \in Origins,
           NEW from \in Group, o.kind = "read", origin # "client"
    PROVE  OutcomeOK(o, p, ReadMail(o.arg, p, on, origin, from))
<1>1. o.arg \in Nat
  BY OpsFacts
<1>2. CASE p = NoProfile
  BY <1>1, <1>2, ProfileFacts DEF ReadMail, Rejected, Outcome, Result, OutcomeOK, Results
<1>3. CASE p # NoProfile /\ o.arg <= p.mail_action
  BY <1>1, <1>3, ProfileFacts DEF ReadMail, Rejected, Outcome, Result, OutcomeOK, Results
<1>4. CASE p # NoProfile /\ ~(o.arg <= p.mail_action)
  <2> DEFINE seen == CASE origin = "server" -> from [] origin = "self" -> "client"
                       [] origin = "left" -> "stale"
             q    == [p EXCEPT !.mail_action = o.arg, !.mail = <<>>]
  <2>1. seen \in Presences
    BY DEF Presences, Origins
  <2>2. p \in [vault_version : Nat, mail_action : Nat, mail : Seq(Args)]
        /\ p.vault_version \in Nat /\ p.mail_action \in Nat
    BY <1>4, ProfileFacts
  <2>3. /\ q \in [vault_version : Nat, mail_action : Nat, mail : Seq(Args)]
        /\ q.vault_version = p.vault_version /\ q.mail_action = o.arg
    <3> DEFINE r == [p EXCEPT !.mail_action = o.arg]
    <3>1. /\ r \in [vault_version : Nat, mail_action : Nat, mail : Seq(Args)]
          /\ r.vault_version = p.vault_version /\ r.mail_action = o.arg
      BY <1>1, <2>2
    <3>2. q = [r EXCEPT !.mail = <<>>]
      OBVIOUS
    <3>3. <<>> \in Seq(Args)
      OBVIOUS
    <3> HIDE DEF r, q
    <3> QED
      BY <3>1, <3>2, <3>3
  <2>4. q \in Profiles /\ Forward(p, q)
    BY <1>1, <1>4, <2>2, <2>3 DEF Profiles, Forward
  <2>5. ReadMail(o.arg, p, on, origin, from) = Outcome(q, seen, Result("ok", p.mail))
    BY <1>4 DEF ReadMail
  <2>6. Result("ok", p.mail) \in Results
    BY ProfileFacts DEF Result, Results
  <2> HIDE DEF seen, q
  <2> QED
    BY <2>1, <2>4, <2>5, <2>6 DEF Outcome, OutcomeOK
<1> QED
  BY <1>2, <1>3, <1>4

LEMMA StoredFacts ==
    ASSUME NEW o \in Ops, NEW p \in Profiles, NEW on \in Presences, o.kind = "mail", p # NoProfile
    PROVE  /\ OutcomeOK(o, p, Stored(o.arg, p, on))
           /\ on \in Group => OutcomeOK(o, p, [Stored(o.arg, p, on) EXCEPT !.ask = on])
<1> DEFINE q == [p EXCEPT !.mail = Append(@, o.arg)]
<1>1. q \in Profiles /\ Forward(p, q)
  <2>1. p \in [vault_version : Nat, mail_action : Nat, mail : Seq(Args)]
        /\ p.vault_version \in Nat /\ p.mail_action \in Nat /\ p.mail \in Seq(Args)
    BY ProfileFacts
  <2>2. q = [vault_version |-> p.vault_version, mail_action |-> p.mail_action,
             mail |-> Append(p.mail, o.arg)]
    BY <2>1
  <2>3. Append(p.mail, o.arg) \in Seq(Args)
    BY <2>1, OpsFacts
  <2> QED
    BY <2>1, <2>2, <2>3 DEF Profiles, Forward
<1>2. Stored(o.arg, p, on) = [profile |-> q, presence |-> on, res |-> Result("ok", <<>>),
                                 pushes |-> FALSE, stores |-> TRUE, ask |-> NoNode]
  <2> HIDE DEF q
  <2>1. Stored(o.arg, p, on) = [Outcome(q, on, Result("ok", <<>>)) EXCEPT !.stores = TRUE]
    BY Zenon DEF Stored, Accepted, q
  <2> QED
    BY <2>1 DEF Outcome
<1>3. Result("ok", <<>>) \in Results
  BY DEF Result, Results
<1>4. OutcomeOK(o, p, Stored(o.arg, p, on))
  <2> HIDE DEF q
  <2> QED
    BY <1>1, <1>2, <1>3 DEF OutcomeOK, Result
<1>5. ASSUME on \in Group PROVE OutcomeOK(o, p, [Stored(o.arg, p, on) EXCEPT !.ask = on])
  <2> DEFINE s   == Stored(o.arg, p, on)
             out == [s EXCEPT !.ask = on]
  <2>1. DOMAIN s = {"profile", "presence", "res", "pushes", "stores", "ask"}
    BY <1>2
  <2>2. out.profile = s.profile /\ out.presence = s.presence /\ out.res = s.res
        /\ out.stores = s.stores /\ out.pushes = s.pushes /\ out.ask = on
    <3> HIDE DEF s
    <3> QED
      BY <2>1
  <2>3. s.res.kind = "ok"
    BY <1>2 DEF Result
  <2> HIDE DEF s, out
  <2>4. OutcomeOK(o, p, s)
    BY <1>4 DEF s
  <2> QED
    BY <2>2, <2>3, <2>4, <1>5, Zenon DEF OutcomeOK, s, out
<1> QED
  BY <1>4, <1>5

LEMMA MailFacts ==
    ASSUME NEW o \in Ops, NEW p \in Profiles, NEW on \in Presences, NEW origin \in Origins,
           o.kind = "mail"
    PROVE  OutcomeOK(o, p, SendMail(o.arg, p, on, origin))
<1> DEFINE out == SendMail(o.arg, p, on, origin)
<1>1. ASSUME NEW kind \in {"notfound", "full", "self"} PROVE OutcomeOK(o, p, Rejected(p, on, kind))
  BY ProfileFacts DEF Rejected, Outcome, Result, OutcomeOK, Results
<1>2. PushNotification(on).taken =>
        OutcomeOK(o, p, [Rejected(p, on, "direct") EXCEPT !.pushes = PushNotification(on).reaches])
  BY ProfileFacts DEF Rejected, Outcome, Result, OutcomeOK, Results, PushNotification
<1>3. CASE p = NoProfile \/ Full(p)
  BY <1>1, <1>3 DEF SendMail
<1>4. CASE p # NoProfile /\ ~Full(p)
  <2>1. OutcomeOK(o, p, Stored(o.arg, p, on)) /\ OutcomeOK(o, p, Stored(o.arg, p, "offline"))
        /\ (on \in Group => OutcomeOK(o, p, [Stored(o.arg, p, on) EXCEPT !.ask = on]))
    BY <1>4, StoredFacts DEF Presences
  <2>2. on \notin {"offline", "client", "stale"} => on \in Group
    BY DEF Presences
  <2> QED
    BY <1>1, <1>2, <1>4, <2>1, <2>2 DEF SendMail
<1> QED
  BY <1>3, <1>4

LEMMA HandleFacts ==
    ASSUME NEW o \in Ops, NEW p \in Profiles, NEW on \in Presences, NEW origin \in Origins,
           NEW from \in Group, o.kind = "read" => origin # "client"
    PROVE  OutcomeOK(o, p, HandleRequest(o, p, on, origin, from))
<1>1. o.kind \in {"create", "vault", "fetch", "mail", "read"}
  BY OpsFacts
<1>2. /\ o.kind = "create" => HandleRequest(o, p, on, origin, from) = CreateProfile(o.arg, p, on)
      /\ o.kind = "vault" => HandleRequest(o, p, on, origin, from) = SetVault(o.arg, p, on)
      /\ o.kind = "fetch" => HandleRequest(o, p, on, origin, from) = FetchVault(p, on)
      /\ o.kind = "read" => HandleRequest(o, p, on, origin, from) = ReadMail(o.arg, p, on, origin, from)
      /\ o.kind = "mail" => HandleRequest(o, p, on, origin, from) = SendMail(o.arg, p, on, origin)
  BY DEF HandleRequest
<1> QED
  BY <1>1, <1>2, CreateFacts, VaultFacts, FetchFacts, ReadFacts, MailFacts

\* Restoring takes a profile only when it is newer.
LEMMA NewestFacts ==
    ASSUME NEW q \in Profiles, NEW p \in Profiles
    PROVE  Newest(q, p) \in Profiles /\ Forward(p, Newest(q, p))
BY ProfileFacts DEF Newest, Forward

-----------------------------------------------------------------------------
(* What a step leaves alone.                                                *)

LEMMA HavingFacts ==
    ASSUME MailTypes, NEW o \in Ops
    PROVE  Having(o) \in SUBSET Group /\ Gone(o) \in Nat
BY DEF Having, Gone, MailTypes

LEMMA HavingGrows ==
    ASSUME MailTypes, MailTypes', CopiesStep, NEW o \in Ops
    PROVE  /\ Lasting(o) => Having(o) \subseteq Having(o)'
           /\ Having(o)' \in SUBSET Group /\ Gone(o)' = Gone(o)
<1>1. Having(o)' \in SUBSET Group
  BY DEF Having
<1>2. Gone(o)' = Gone(o)
  BY DEF Gone, CopiesStep
<1>3. ASSUME Lasting(o), NEW n \in Group, Has(n, o) PROVE Has(n, o)'
  <2>1. CASE o.kind = "mail"
    BY <2>1, <1>3 DEF Has, CopiesStep
  <2>2. CASE o.kind # "mail"
    <3>1. o.arg \in Nat
      BY <1>3, <2>2, OpsFacts DEF Lasting
    <3>2. profiles[n] \in Profiles /\ profiles'[n] \in Profiles
      BY DEF MailTypes
    <3>3. profiles[n].vault_version \in Int /\ profiles'[n].vault_version \in Int
      BY <3>2, ProfileFacts
    <3>4. profiles'[n].vault_version >= profiles[n].vault_version
      BY DEF CopiesStep, Forward
    <3> QED
      BY <1>3, <2>2, <3>1, <3>3, <3>4 DEF Has
  <2> QED
    BY <2>1, <2>2
<1> QED
  BY <1>1, <1>2, <1>3 DEF Having

\* A handler of an entry still counts what is there.
LEMMA CountedKept ==
    ASSUME MailTypes, MailTypes', CopiesStep, NEW o \in Ops, NEW n \in Group, NEW h \in Handlers,
           Counted(o, n, h)
    PROVE  CountedBy(o, n, h, Having(o)', Gone(o)', pushed')
<1>1. CountedBy(o, n, h, Having(o), Gone(o), pushed)
  BY DEF Counted
<1>2. Having(o) \in SUBSET Group /\ Gone(o) \in Nat
  BY HavingFacts
<1>3. (Lasting(o) => Having(o) \subseteq Having(o)') /\ Having(o)' \in SUBSET Group
      /\ Gone(o)' = Gone(o)
  BY HavingGrows
<1>4. pushed \subseteq pushed'
  BY DEF CopiesStep
<1>5. CountedBy(o, n, h, Having(o)', Gone(o), pushed')
  BY <1>1, <1>2, <1>3, <1>4, CountMore
<1> QED
  BY <1>3, <1>5

LEMMA HandlerKept ==
    ASSUME MailInv, MailTypes', CopiesStep, EntryStep, NEW o \in Ops, NEW n \in Group,
           job'[o][n] = job[o][n]
    PROVE  HandlerOK(o, n, job[o][n])'
<1>1. HandlerOK(o, n, job[o][n]) /\ job[o][n] \in Handlers
  BY DEF MailInv, MailTypes
<1>2. PICK h \in Handlers : h = job[o][n]
  BY <1>1
<1>3. HandlerOK(o, n, h) /\ job'[o][n] = h
  BY <1>1, <1>2
<1>4. n # entry'[o] => n # entry[o]
  <2>1. entry[o] # NoNode => entry'[o] = entry[o]
    BY DEF EntryStep
  <2>2. n # NoNode
    BY NodesFacts
  <2> QED
    BY <2>1, <2>2
<1>5. h.stage \notin {"idle", "restoring"} =>
        CountedBy(o, n, h, Having(o)', Gone(o)', pushed')
  <2>1. h.stage \notin {"idle", "restoring"} => Counted(o, n, h)
    BY <1>3 DEF HandlerOK
  <2>2. MailTypes
    BY DEF MailInv
  <2> QED
    BY <2>1, <2>2, CountedKept
<1>6. /\ n # entry'[o] => h.origin = "server" /\ h.stage \in {"idle", "restoring"}
      /\ o.kind = "read" => h.origin # "client"
  BY <1>3, <1>4 DEF HandlerOK
<1> QED
  BY <1>3, <1>5, <1>6 DEF HandlerOK, Counted

LEMMA CallKept ==
    ASSUME MailInv, MailTypes', CopiesStep, EntryStep, NEW c \in calls
    PROVE  CallOK(c)'
<1>1. CallOK(c)
  BY DEF MailInv
<1>2. c.op \in Ops /\ entry[c.op] # NoNode
  BY <1>1 DEF CallOK
<1>3. entry'[c.op] = entry[c.op]
  BY <1>2 DEF EntryStep
<1>4. Lasting(c.op) => Having(c.op) \subseteq Having(c.op)'
  BY <1>2, HavingGrows DEF MailInv
<1>5. pushed \subseteq pushed'
  BY DEF CopiesStep
<1> QED
  BY <1>1, <1>2, <1>3, <1>4, <1>5 DEF CallOK

\* So a step that does not take copies is left with the handler it changes and the calls it adds.
LEMMA StepKeeps ==
    ASSUME MailInv, MailTypes', CopiesStep, EntryStep, NEW o \in Ops, NEW n \in Group,
           HandlerOK(o, n, job[o][n])',
           \A x \in Ops, m \in Group : job'[x][m] = job[x][m] \/ (x = o /\ m = n),
           \A c \in calls' : c \in calls \/ CallOK(c)'
    PROVE  MailInv'
<1>1. \A x \in Ops, m \in Group : HandlerOK(x, m, job[x][m])'
  <2> TAKE x \in Ops, m \in Group
  <2>1. CASE x = o /\ m = n
    BY <2>1
  <2>2. CASE job'[x][m] = job[x][m]
    BY <2>2, HandlerKept
  <2> QED
    BY <2>1, <2>2
<1>2. \A c \in calls' : CallOK(c)'
  BY CallKept
<1> QED
  BY <1>1, <1>2 DEF MailInv

-----------------------------------------------------------------------------
(* Running a handler.                                                       *)

LEMMA ForwardTrans ==
    ASSUME NEW p \in Profiles, NEW q \in Profiles, NEW r \in Profiles, Forward(p, q), Forward(q, r)
    PROVE  Forward(p, r)
<1>1. /\ p.vault_version \in Int /\ q.vault_version \in Int /\ r.vault_version \in Int
      /\ p.mail_action \in Int /\ q.mail_action \in Int /\ r.mail_action \in Int
  BY ProfileFacts
<1> QED
  BY <1>1 DEF Forward

\* What the entry is left with when the result is true for its own copy.
LEMMA EntryCounts ==
    ASSUME NEW o \in Ops, NEW n \in Group, NEW origin \in Origins, NEW res \in Results,
           NEW H \in SUBSET Group, NEW g \in Nat, NEW r,
           Lasting(o) /\ res.kind = "ok" => n \in H,
           o.kind = "mail" /\ res.kind = "direct" => o.arg \in r
    PROVE  /\ AfterEntry(o, n, origin, res) \in Handlers
           /\ AfterEntry(o, n, origin, res).origin = origin
           /\ CountedBy(o, n, AfterEntry(o, n, origin, res), H, g, r)
<1> DEFINE h == AfterEntry(o, n, origin, res)
<1>1. CASE Replicated(o, res)
  <2>1. h = [stage |-> "replicating", origin |-> origin, waits |-> Others(n), matched |-> 0,
             res |-> res]
    BY <1>1 DEF AfterEntry, Handler
  <2>2. h \in Handlers /\ h.stage = "replicating" /\ h.origin = origin /\ h.waits = Others(n)
        /\ h.matched = 0 /\ h.res.kind = "ok"
    BY <1>1, <2>1 DEF Handlers, Stages, Others, Replicated
  <2>3. Cardinality(H \ (Others(n) \cup {n})) \in Nat
    BY NodesFacts
  <2>4. 0 <= Cardinality(H \ (Others(n) \cup {n})) + g
    BY <2>3
  <2>5. h.matched <= Cardinality(H \ (h.waits \cup {n})) + g
    BY <2>2, <2>4
  <2> HIDE DEF h
  <2>6. Lasting(o) => n \in H
    BY <1>1 DEF Replicated
  <2>7. CountedBy(o, n, h, H, g, r)
    BY <2>2, <2>5, <2>6 DEF CountedBy
  <2> QED
    BY <2>2, <2>7 DEF h
<1>2. CASE ~Replicated(o, res)
  <2>1. h = [stage |-> "told", origin |-> origin, waits |-> {}, matched |-> 0, res |-> res]
    BY <1>2 DEF AfterEntry, Handler
  <2>2. h \in Handlers /\ h.stage = "told" /\ h.origin = origin /\ h.res = res
    BY <2>1 DEF Handlers, Stages
  <2>3. Lasting(o) => res.kind # "ok"
    BY <1>2 DEF Replicated, Lasting
  <2> HIDE DEF h
  <2>4. CountedBy(o, n, h, H, g, r)
    BY <2>2, <2>3 DEF CountedBy
  <2> QED
    BY <2>2, <2>4 DEF h
<1> QED
  BY <1>1, <1>2

LEMMA IdleFacts ==
    /\ NoResult \in Results /\ Idle \in Handlers
    /\ Idle.origin = "server" /\ Idle.stage = "idle"
<1>1. NoResult \in Results
  BY DEF NoResult, Result, Results
<1> QED
  BY <1>1 DEF Idle, Handler, Handlers, Stages, Origins

LEMMA CallFields ==
    ASSUME NEW kind, NEW o, NEW from, NEW to, NEW body, NEW c, c = Call(kind, o, from, to, body)
    PROVE  /\ c.kind = kind /\ c.op = o /\ c.from = from /\ c.to = to /\ c.body = body
           /\ c = Call(c.kind, c.op, c.from, c.to, c.body)
BY DEF Call

\* A call of the entry, one that asks for a profile, or its answer.
LEMMA CallMade ==
    ASSUME NEW o \in Ops, NEW from \in Group, NEW to \in Group, entry'[o] # NoNode, NEW c
    PROVE  /\ c = Call("call", o, from, to, NoResult) /\ from = entry'[o] => CallOK(c)'
           /\ c = Call("fetch", o, from, to, NoResult) => CallOK(c)'
<1>1. CASE c = Call("call", o, from, to, NoResult) /\ from = entry'[o]
  <2>1. c.kind = "call" /\ c.op = o /\ c.from = from /\ c.to = to
        /\ c = Call(c.kind, c.op, c.from, c.to, c.body)
    BY <1>1, CallFields
  <2> QED
    BY <1>1, <2>1 DEF CallOK
<1>2. CASE c = Call("fetch", o, from, to, NoResult)
  <2>1. c.kind = "fetch" /\ c.op = o /\ c.from = from /\ c.to = to
        /\ c = Call(c.kind, c.op, c.from, c.to, c.body)
    BY <1>2, CallFields
  <2> QED
    BY <1>2, <2>1 DEF CallOK
<1> QED
  BY <1>1, <1>2

LEMMA AnswerMade ==
    ASSUME NEW o \in Ops, NEW n \in Group, NEW to \in Group, to = entry'[o], NEW res \in Results,
           Lasting(o) /\ res.kind = "ok" => n \in Having(o)',
           o.kind = "mail" /\ res.kind = "direct" => o.arg \in pushed', NEW c,
           c = Call("answer", o, n, to, res)
    PROVE  CallOK(c)'
<1>1. c.kind = "answer" /\ c.op = o /\ c.from = n /\ c.to = to /\ c.body = res
      /\ c = Call(c.kind, c.op, c.from, c.to, c.body)
  BY CallFields
<1>2. entry'[o] # NoNode
  BY NodesFacts
<1>3. Lasting(c.op) /\ c.body.kind = "ok" => c.from \in Having(c.op)'
  BY <1>1
<1> QED
  BY <1>1, <1>2, <1>3 DEF CallOK

\* The conditions under which a node runs a handler for request o.
MayRun(o, n, origin, from) ==
    /\ from = entry'[o] /\ (origin # "server" => n = from)
    /\ o.kind = "read" => origin # "client"

RunScope == reboots' = reboots /\ lost' = lost /\ here' = here

\* What running it does to the node's copies.
LEMMA RunCopies ==
    ASSUME MailInv, EntryStep, RunScope, NEW o \in Ops, NEW n \in Group, NEW p \in Profiles,
           Forward(profiles[n], p), NEW origin \in Origins, NEW from \in Group, NEW kept,
           MayRun(o, n, origin, from), NEW out, out = HandleRequest(o, p, online[n], origin, from),
           Run(o, n, p, origin, from, kept)
    PROVE  /\ OutcomeOK(o, p, out)
           /\ profiles' \in [Group -> Profiles] /\ online' \in [Group -> Presences]
           /\ DOMAIN stored' = Group
           /\ CopiesStep
           /\ Lasting(o) /\ out.res.kind = "ok" => n \in Having(o)'
           /\ o.kind = "mail" /\ out.res.kind = "direct" => o.arg \in pushed'
<1>1. OutcomeOK(o, p, out)
  BY HandleFacts DEF MailInv, MailTypes, MayRun
<1>2. /\ profiles' = [profiles EXCEPT ![n] = out.profile]
      /\ online' = [online EXCEPT ![n] = out.presence]
      /\ pushed' = IF out.pushes THEN pushed \cup {o.arg} ELSE pushed
      /\ stored' = IF out.stores THEN [stored EXCEPT ![n] = @ \cup {o.arg}] ELSE stored
  BY DEF Run
<1>3. out.profile \in Profiles /\ Forward(p, out.profile) /\ out.presence \in Presences
  BY <1>1 DEF OutcomeOK
<1>4. profiles \in [Group -> Profiles] /\ online \in [Group -> Presences] /\ DOMAIN stored = Group
  BY DEF MailInv, MailTypes
<1>5. profiles' \in [Group -> Profiles] /\ online' \in [Group -> Presences]
  BY <1>2, <1>3, <1>4
<1>6. DOMAIN stored' = Group
  BY <1>2, <1>4
<1>7. pushed \subseteq pushed'
  BY <1>2
<1>8. \A m \in Group : stored[m] \subseteq stored'[m]
  BY <1>2, <1>4
<1>9. \A m \in Group : Forward(profiles[m], profiles'[m])
  <2> TAKE m \in Group
  <2>1. CASE m = n
    <3>1. profiles'[m] = out.profile
      BY <1>2, <1>4, <2>1
    <3>2. Forward(profiles[n], out.profile)
      BY <1>3, <1>4, ForwardTrans
    <3> QED
      BY <3>1, <3>2, <2>1
  <2>2. CASE m # n
    BY <1>2, <1>4, <2>2, ProfileFacts
  <2> QED
    BY <2>1, <2>2
<1>10. CopiesStep
  BY <1>7, <1>8, <1>9 DEF CopiesStep, RunScope
<1>11. Lasting(o) /\ out.res.kind = "ok" => n \in Having(o)'
  <2>1. CASE o.kind = "mail"
    <3>1. out.res.kind = "ok" => out.stores
      BY <1>1, <2>1 DEF OutcomeOK
    <3>2. out.stores => o.arg \in stored'[n]
      BY <1>2, <1>4
    <3> QED
      BY <2>1, <3>1, <3>2 DEF Having, Has
  <2>2. CASE o.kind # "mail"
    <3>1. Lasting(o) /\ out.res.kind = "ok" => out.profile.vault_version >= o.arg
      BY <1>1, <2>2 DEF OutcomeOK, Lasting
    <3>2. profiles'[n] = out.profile
      BY <1>2, <1>4
    <3> QED
      BY <2>2, <3>1, <3>2 DEF Having, Has
  <2> QED
    BY <2>1, <2>2
<1>12. o.kind = "mail" /\ out.res.kind = "direct" => o.arg \in pushed'
  BY <1>1, <1>2 DEF OutcomeOK
<1> QED
  BY <1>1, <1>5, <1>6, <1>10, <1>11, <1>12

\* The handler of one node is replaced.
LEMMA JobStep ==
    ASSUME MailTypes, NEW o \in Ops, NEW n \in Group, NEW h \in Handlers,
           job' = [job EXCEPT ![o][n] = h]
    PROVE  /\ job' \in [Ops -> [Group -> Handlers]] /\ job'[o][n] = h
           /\ \A x \in Ops, m \in Group : job'[x][m] = job[x][m] \/ (x = o /\ m = n)
BY DEF MailTypes

LEMMA RunKeeps ==
    ASSUME MailInv, EntryStep, RunScope, NEW o \in Ops, NEW n \in Group, NEW p \in Profiles,
           Forward(profiles[n], p), NEW origin \in Origins, NEW from \in Group,
           NEW kept \in SUBSET calls, MayRun(o, n, origin, from),
           Run(o, n, p, origin, from, kept)
    PROVE  MailInv' /\ CopiesStep
<1>1. PICK out : out = HandleRequest(o, p, online[n], origin, from)
  OBVIOUS
<1>2. /\ OutcomeOK(o, p, out)
      /\ profiles' \in [Group -> Profiles] /\ online' \in [Group -> Presences]
      /\ DOMAIN stored' = Group
      /\ CopiesStep
      /\ Lasting(o) /\ out.res.kind = "ok" => n \in Having(o)'
      /\ o.kind = "mail" /\ out.res.kind = "direct" => o.arg \in pushed'
  BY <1>1, RunCopies
<1>3. out.res \in Results /\ out.ask \in Group \cup {NoNode}
      /\ (out.ask # NoNode => o.kind = "mail" /\ out.res.kind = "ok")
  BY <1>2 DEF OutcomeOK
<1>4. /\ from = entry'[o] /\ (origin # "server" => n = entry'[o])
      /\ entry'[o] # NoNode /\ (o.kind = "read" => origin # "client")
  BY NodesFacts DEF MayRun
<1>5. Having(o)' \in SUBSET Group /\ Gone(o)' \in Nat
  BY DEF MailInv, MailTypes, Having, Gone, RunScope
<1>6. MailTypes
  BY DEF MailInv
<1>7. ASSUME NEW h \in Handlers, job' = [job EXCEPT ![o][n] = h],
             n # entry'[o] => h.origin = "server" /\ h.stage \in {"idle", "restoring"},
             o.kind = "read" => h.origin # "client",
             h.stage \in {"idle", "restoring"}
                \/ CountedBy(o, n, h, Having(o)', Gone(o)', pushed'),
             \A c \in calls' : c \in calls \/ CallOK(c)'
      PROVE  MailInv'
  <2>1. /\ job' \in [Ops -> [Group -> Handlers]] /\ job'[o][n] = h
        /\ \A x \in Ops, m \in Group : job'[x][m] = job[x][m] \/ (x = o /\ m = n)
    BY <1>6, <1>7, JobStep
  <2>2. MailTypes'
    BY <1>2, <1>6, <2>1 DEF MailTypes, RunScope, EntryStep
  <2>3. HandlerOK(o, n, job[o][n])'
    BY <1>7, <2>1 DEF HandlerOK, Counted
  <2> QED
    BY <1>2, <1>7, <2>1, <2>2, <2>3, StepKeeps
<1>8. CASE /\ origin = "server"
           /\ job' = [job EXCEPT ![o][n] = Idle]
           /\ calls' = kept \cup {Call("answer", o, n, from, out.res)}
  <2>1. CallOK(Call("answer", o, n, from, out.res))'
    BY <1>2, <1>3, <1>4, AnswerMade
  <2>2. \A c \in calls' : c \in calls \/ CallOK(c)'
    <3>1. \A c : c = Call("answer", o, n, from, out.res) => CallOK(c)'
      BY <1>2, <1>3, <1>4, AnswerMade
    <3> QED
      BY <1>8, <3>1
  <2> QED
    BY <1>2, <1>7, <1>8, <2>2, IdleFacts
<1>9. CASE /\ origin # "server" /\ out.ask # NoNode
           /\ job' = [job EXCEPT ![o][n] = Handler("direct", origin, {out.ask}, 0, out.res)]
           /\ calls' = kept \cup {Call("call", o, n, out.ask, NoResult)}
  <2> DEFINE h == Handler("direct", origin, {out.ask}, 0, out.res)
  <2>1. h \in Handlers /\ h.stage = "direct" /\ h.origin = origin /\ h.res.kind = "ok"
    BY <1>3, <1>9 DEF Handler, Handlers, Stages
  <2>2. \A c \in calls' : c \in calls \/ CallOK(c)'
    <3>1. \A c : c = Call("call", o, n, out.ask, NoResult) => CallOK(c)'
      BY <1>3, <1>4, <1>9, CallMade
    <3> QED
      BY <1>9, <3>1
  <2>3. job' = [job EXCEPT ![o][n] = h]
    BY <1>9
  <2> HIDE DEF h
  <2>4. CountedBy(o, n, h, Having(o)', Gone(o)', pushed')
    BY <1>2, <1>3, <1>9, <2>1 DEF CountedBy
  <2>5. MailInv'
    BY <1>4, <1>7, <1>9, <2>1, <2>2, <2>3, <2>4
  <2> QED
    BY <1>2, <2>5
<1>10. CASE /\ origin # "server" /\ out.ask = NoNode
            /\ job' = [job EXCEPT ![o][n] = AfterEntry(o, n, origin, out.res)]
            /\ calls' = kept \cup Replicas(o, n, out.res)
  <2> DEFINE h == AfterEntry(o, n, origin, out.res)
  <2>1. h \in Handlers /\ h.origin = origin
        /\ CountedBy(o, n, h, Having(o)', Gone(o)', pushed')
    <3>1. PICK res \in Results, H \in SUBSET Group, g \in Nat, a \in {pushed'} :
            res = out.res /\ H = Having(o)' /\ g = Gone(o)' /\ a = pushed'
      BY <1>3, <1>5
    <3>2. Lasting(o) /\ res.kind = "ok" => n \in H
      BY <1>2, <3>1
    <3>3. o.kind = "mail" /\ res.kind = "direct" => o.arg \in a
      BY <1>2, <3>1
    <3>4. /\ AfterEntry(o, n, origin, res) \in Handlers
          /\ AfterEntry(o, n, origin, res).origin = origin
          /\ CountedBy(o, n, AfterEntry(o, n, origin, res), H, g, a)
      BY <3>2, <3>3, EntryCounts
    <3> QED
      BY <3>1, <3>4
  <2>2. \A c \in calls' : c \in calls \/ CallOK(c)'
    <3>1. \A c \in Replicas(o, n, out.res) : \E m \in Group : c = Call("call", o, n, m, NoResult)
      BY DEF Replicas, Others
    <3>2. \A c : \A m \in Group : c = Call("call", o, n, m, NoResult) => CallOK(c)'
      BY <1>4, <1>10, CallMade
    <3> QED
      BY <1>10, <3>1, <3>2
  <2>3. job' = [job EXCEPT ![o][n] = h]
    BY <1>10
  <2> HIDE DEF h
  <2>4. MailInv'
    BY <1>4, <1>7, <1>10, <2>1, <2>2, <2>3
  <2> QED
    BY <1>2, <2>4
<1>11. \/ /\ origin = "server"
          /\ job' = [job EXCEPT ![o][n] = Idle]
          /\ calls' = kept \cup {Call("answer", o, n, from, out.res)}
       \/ /\ origin # "server" /\ out.ask # NoNode
          /\ job' = [job EXCEPT ![o][n] = Handler("direct", origin, {out.ask}, 0, out.res)]
          /\ calls' = kept \cup {Call("call", o, n, out.ask, NoResult)}
       \/ /\ origin # "server" /\ out.ask = NoNode
          /\ job' = [job EXCEPT ![o][n] = AfterEntry(o, n, origin, out.res)]
          /\ calls' = kept \cup Replicas(o, n, out.res)
  BY <1>1 DEF Run
<1> QED
  BY <1>8, <1>9, <1>10, <1>11

\* Asking the others for the profile first.
AskStep(o, n, origin, kept) ==
    /\ job' = [job EXCEPT ![o][n] = Handler("restoring", origin, Others(n), 0, NoResult)]
    /\ calls' = kept \cup {Call("fetch", o, n, m, NoResult) : m \in Others(n)}
    /\ UNCHANGED <<profiles, online, pushed, stored>>

LEMMA AskKeeps ==
    ASSUME MailInv, EntryStep, RunScope, NEW o \in Ops, NEW n \in Group, NEW origin \in Origins,
           NEW from \in Group, NEW kept \in SUBSET calls, MayRun(o, n, origin, from),
           AskStep(o, n, origin, kept)
    PROVE  MailInv' /\ CopiesStep
<1>1. PICK h \in Handlers : /\ h = Handler("restoring", origin, Others(n), 0, NoResult)
                            /\ h.stage = "restoring" /\ h.origin = origin
  <2>1. Handler("restoring", origin, Others(n), 0, NoResult) \in Handlers
    BY IdleFacts DEF Handler, Handlers, Stages, Others
  <2> QED
    BY <2>1 DEF Handler
<1>2. job' = [job EXCEPT ![o][n] = h] /\ UNCHANGED <<profiles, online, pushed, stored>>
  BY <1>1 DEF AskStep
<1>3. MailTypes
  BY DEF MailInv
<1>4. /\ job' \in [Ops -> [Group -> Handlers]] /\ job'[o][n] = h
      /\ \A x \in Ops, m \in Group : job'[x][m] = job[x][m] \/ (x = o /\ m = n)
  BY <1>2, <1>3, JobStep
<1>5. MailTypes'
  BY <1>2, <1>3, <1>4 DEF MailTypes, RunScope, EntryStep
<1>6. CopiesStep
  BY <1>2, <1>3, ProfileFacts DEF MailTypes, CopiesStep, RunScope
<1>7. entry'[o] # NoNode
  BY NodesFacts DEF MayRun
<1>8. \A c \in calls' : c \in calls \/ CallOK(c)'
  <2>1. \A c : \A m \in Group : c = Call("fetch", o, n, m, NoResult) => CallOK(c)'
    BY <1>7, CallMade
  <2> QED
    BY <2>1 DEF Others, AskStep
<1>9. HandlerOK(o, n, job[o][n])'
  BY <1>1, <1>4 DEF HandlerOK, MayRun
<1> QED
  BY <1>4, <1>5, <1>6, <1>8, <1>9, StepKeeps

LEMMA ExecuteKeeps ==
    ASSUME MailInv, EntryStep, RunScope, NEW o \in Ops, NEW n \in Group, NEW origin \in Origins,
           NEW from \in Group, NEW kept \in SUBSET calls, MayRun(o, n, origin, from),
           Execute(o, n, origin, from, kept)
    PROVE  MailInv' /\ CopiesStep
<1>1. profiles[n] \in Profiles
  BY DEF MailInv, MailTypes
<1>2. PICK p \in Profiles : p = profiles[n]
  BY <1>1
<1>3. CASE p # NoProfile \/ o.kind = "create"
  <2>1. Run(o, n, p, origin, from, kept)
    BY <1>2, <1>3 DEF Execute
  <2>2. Forward(profiles[n], p)
    BY <1>2, ProfileFacts
  <2> QED
    BY <2>1, <2>2, RunKeeps
<1>4. CASE ~(p # NoProfile \/ o.kind = "create")
  <2>1. AskStep(o, n, origin, kept)
    BY <1>2, <1>4 DEF Execute, AskStep
  <2> QED
    BY <2>1, AskKeeps
<1> QED
  BY <1>3, <1>4

-----------------------------------------------------------------------------
(* The steps.                                                               *)

LEMMA EntryUnchanged ==
    ASSUME MailInv, UNCHANGED entry
    PROVE  EntryStep
BY DEF MailInv, MailTypes, EntryStep

LEMMA SubmitKeeps ==
    ASSUME MailInv, NEW o \in Ops, NEW n \in Group, NEW origin \in {"client", "self"},
           Submit(o, n, origin)
    PROVE  MailInv' /\ CopiesStep
<1>1. entry \in [Ops -> Group \cup {NoNode}] /\ entry[o] = NoNode /\ entry' = [entry EXCEPT ![o] = n]
  BY DEF Submit, MailInv, MailTypes
<1>2. EntryStep
  BY <1>1 DEF EntryStep
<1>3. RunScope
  BY DEF Submit, unchangedByNodes, RunScope
<1>4. entry'[o] = n /\ (o.kind = "read" => origin = "self")
  BY <1>1 DEF Submit
<1>5. MayRun(o, n, origin, n)
  BY <1>4 DEF MayRun
<1>6. origin \in Origins /\ calls \in SUBSET calls
  BY DEF Origins
<1>7. Execute(o, n, origin, n, calls)
  BY DEF Submit
<1> QED
  BY <1>2, <1>3, <1>5, <1>6, <1>7, ExecuteKeeps

LEMMA HandleCallKeeps ==
    ASSUME MailInv, NEW c \in calls, HandleCall(c)
    PROVE  MailInv' /\ CopiesStep
<1>1. CallOK(c) /\ c.kind = "call"
  BY DEF HandleCall, MailInv
<1>2. c.op \in Ops /\ c.from \in Group /\ c.to \in Group /\ c.from = entry[c.op]
  BY <1>1 DEF CallOK
<1>3. UNCHANGED entry /\ RunScope /\ Execute(c.op, c.to, "server", c.from, calls \ {c})
  BY DEF HandleCall, unchangedByNodes, RunScope
<1>4. EntryStep
  BY <1>3, EntryUnchanged
<1>5. MayRun(c.op, c.to, "server", c.from)
  BY <1>2, <1>3 DEF MayRun
<1>6. "server" \in Origins /\ calls \ {c} \in SUBSET calls
  BY DEF Origins
<1> QED
  BY <1>2, <1>3, <1>4, <1>5, <1>6, ExecuteKeeps

\* Steps that change no handler and no copy.
LEMMA QuietKeeps ==
    ASSUME MailInv, UNCHANGED <<profiles, online, entry, job, pushed, stored, reboots>>,
           here' \in Group \cup {NoNode}, lost' \in Nat,
           \A c \in calls' : c \in calls \/ CallOK(c)'
    PROVE  MailInv' /\ CopiesStep
<1>1. EntryStep
  BY EntryUnchanged
<1>2. MailTypes /\ MailTypes'
  BY DEF MailInv, MailTypes
<1>3. CopiesStep
  BY <1>2, ProfileFacts DEF MailTypes, CopiesStep
<1>4. \A x \in Ops, m \in Group : HandlerOK(x, m, job[x][m])'
  BY <1>1, <1>2, <1>3, HandlerKept
<1>5. \A c \in calls' : CallOK(c)'
  BY <1>1, <1>2, <1>3, CallKept
<1> QED
  BY <1>2, <1>3, <1>4, <1>5 DEF MailInv

LEMMA FetchKeeps ==
    ASSUME MailInv, NEW c \in calls, FetchFullProfile(c)
    PROVE  MailInv' /\ CopiesStep
<1>1. CallOK(c) /\ c.kind = "fetch"
  BY DEF FetchFullProfile, MailInv
<1>2. c.op \in Ops /\ c.from \in Group /\ c.to \in Group /\ entry[c.op] # NoNode
  BY <1>1 DEF CallOK
<1>3. UNCHANGED <<profiles, online, entry, job, pushed, stored, reboots, here, lost>>
      /\ calls' = (calls \ {c}) \cup {Call("fetched", c.op, c.to, c.from, profiles[c.to])}
  BY DEF FetchFullProfile, unchangedByNodes
<1>4. profiles[c.to] \in Profiles /\ here \in Group \cup {NoNode} /\ lost \in Nat
  BY <1>2 DEF MailInv, MailTypes
<1>5. ASSUME NEW d, d = Call("fetched", c.op, c.to, c.from, profiles[c.to]) PROVE CallOK(d)'
  <2>1. d.kind = "fetched" /\ d.op = c.op /\ d.from = c.to /\ d.to = c.from /\ d.body = profiles[c.to]
        /\ d = Call(d.kind, d.op, d.from, d.to, d.body)
    BY <1>5, CallFields
  <2> QED
    BY <1>2, <1>3, <1>4, <2>1 DEF CallOK
<1>6. \A d \in calls' : d \in calls \/ CallOK(d)'
  BY <1>3, <1>5
<1> QED
  BY <1>3, <1>4, <1>6, QuietKeeps

LEMMA RestoreKeeps ==
    ASSUME MailInv, NEW c \in calls, Restore(c)
    PROVE  MailInv' /\ CopiesStep
<1>1. CallOK(c) /\ c.kind = "fetched"
  BY DEF Restore, MailInv
<1>2. PICK o \in Ops, n \in Group : o = c.op /\ n = c.to /\ c.body \in Profiles
                                    /\ entry[o] # NoNode
  BY <1>1 DEF CallOK
<1>3. MailTypes /\ HandlerOK(o, n, job[o][n])
  BY DEF MailInv
<1>4. profiles[n] \in Profiles /\ job[o][n] \in Handlers /\ entry[o] \in Group
  BY <1>2, <1>3 DEF MailTypes
<1>5. PICK h \in Handlers, p \in Profiles, e \in Group :
          h = job[o][n] /\ p = Newest(c.body, profiles[n]) /\ e = entry[o]
  BY <1>2, <1>4, NewestFacts
<1>6. Forward(profiles[n], p)
  BY <1>2, <1>4, <1>5, NewestFacts
<1>7. UNCHANGED entry /\ RunScope /\ h.stage = "restoring"
  BY <1>2, <1>5 DEF Restore, unchangedByNodes, RunScope
<1>8. EntryStep
  BY <1>7, EntryUnchanged
<1>9. h.origin \in Origins /\ MayRun(o, n, h.origin, e)
  <2>1. h.origin \in Origins
    BY DEF Handlers
  <2>2. HandlerOK(o, n, h)
    BY <1>3, <1>5
  <2> QED
    BY <1>5, <1>7, <2>1, <2>2 DEF HandlerOK, MayRun
<1>10. CASE AllAnswered(h.waits \ {c.from})
  <2>1. Run(o, n, p, h.origin, e, calls \ {c})
    BY <1>2, <1>5, <1>10 DEF Restore
  <2> QED
    BY <1>6, <1>7, <1>8, <1>9, <2>1, RunKeeps
<1>11. CASE ~AllAnswered(h.waits \ {c.from})
  <2>1. /\ profiles' = [profiles EXCEPT ![n] = p]
        /\ job' = [job EXCEPT ![o][n].waits = h.waits \ {c.from}]
        /\ calls' = calls \ {c}
        /\ UNCHANGED <<online, pushed, stored>>
    BY <1>2, <1>5, <1>11 DEF Restore
  <2> DEFINE k == [h EXCEPT !.waits = h.waits \ {c.from}]
  <2>2. k \in Handlers /\ k.stage = "restoring" /\ k.origin = h.origin
    BY <1>7 DEF Handlers
  <2>3. job' = [job EXCEPT ![o][n] = k]
    BY <1>3, <1>5, <2>1 DEF MailTypes
  <2> HIDE DEF k
  <2>4. /\ job' \in [Ops -> [Group -> Handlers]] /\ job'[o][n] = k
        /\ \A x \in Ops, m \in Group : job'[x][m] = job[x][m] \/ (x = o /\ m = n)
    BY <1>3, <2>2, <2>3, JobStep
  <2>5. MailTypes'
    BY <1>3, <1>7, <2>1, <2>4 DEF MailTypes, RunScope
  <2>6. CopiesStep
    BY <1>3, <1>6, <1>7, <2>1, ProfileFacts DEF MailTypes, CopiesStep, RunScope
  <2>7. HandlerOK(o, n, job[o][n])'
    BY <1>3, <1>5, <1>7, <2>2, <2>4 DEF HandlerOK
  <2>8. \A d \in calls' : d \in calls
    BY <2>1
  <2> QED
    BY <1>8, <2>4, <2>5, <2>6, <2>7, <2>8, StepKeeps
<1> QED
  BY <1>10, <1>11
LEMMA DirectKeeps ==
    ASSUME MailInv, NEW c \in calls, DirectAnswer(c)
    PROVE  MailInv' /\ CopiesStep
<1>1. CallOK(c) /\ c.kind = "answer"
  BY DEF DirectAnswer, MailInv
<1>2. PICK o \in Ops, n \in Group : o = c.op /\ n = c.to /\ n = entry[o]
  BY <1>1 DEF CallOK
<1>3. c.body \in Results /\ (o.kind = "mail" /\ c.body.kind = "direct" => o.arg \in pushed)
  BY <1>1, <1>2 DEF CallOK
<1>4. MailTypes /\ HandlerOK(o, n, job[o][n]) /\ job[o][n] \in Handlers
  BY DEF MailInv, MailTypes
<1>5. PICK h \in Handlers : h = job[o][n]
  BY <1>4
<1>6. HandlerOK(o, n, h) /\ h.stage = "direct"
  BY <1>2, <1>4, <1>5 DEF DirectAnswer
<1>7. h.origin \in Origins /\ h.res \in Results /\ h.res.kind = "ok"
      /\ (Lasting(o) => n \in Having(o)) /\ (o.kind = "read" => h.origin # "client")
  BY <1>6 DEF HandlerOK, Counted, CountedBy, Handlers
<1>8. UNCHANGED <<entry, pushed, stored>> /\ RunScope /\ n = entry'[o]
  BY <1>2 DEF DirectAnswer, unchangedByNodes, RunScope
<1>9. EntryStep
  BY <1>8, EntryUnchanged
<1>10. CASE /\ c.body.kind = "direct"
            /\ profiles' = [profiles EXCEPT ![n].mail = <<>>]
            /\ job' = [job EXCEPT ![o][n] = Handler("told", h.origin, {}, 0, c.body)]
            /\ calls' = calls \ {c}
            /\ UNCHANGED online
  <2>1. PICK k \in Handlers : /\ k = Handler("told", h.origin, {}, 0, c.body)
                              /\ k.stage = "told" /\ k.origin = h.origin /\ k.res = c.body
    <3>1. Handler("told", h.origin, {}, 0, c.body) \in Handlers
      BY <1>3, <1>7 DEF Handler, Handlers, Stages
    <3> QED
      BY <3>1 DEF Handler
  <2>2. job' = [job EXCEPT ![o][n] = k]
    BY <1>10, <2>1
  <2>3. /\ job' \in [Ops -> [Group -> Handlers]] /\ job'[o][n] = k
        /\ \A x \in Ops, m \in Group : job'[x][m] = job[x][m] \/ (x = o /\ m = n)
    BY <1>4, <2>2, JobStep
  <2>4. PICK p \in Profiles : p = profiles[n]
    BY <1>4 DEF MailTypes
  <2> DEFINE q == [p EXCEPT !.mail = <<>>]
  <2>5. q \in Profiles /\ Forward(p, q)
    <3>1. <<>> \in Seq(Args)
      OBVIOUS
    <3>2. CASE p = NoProfile
      <4>1. q = NoProfile
        BY <3>2 DEF NoProfile, Profile
      <4> QED
        BY <3>2, <4>1, ProfileFacts
    <3>3. CASE p # NoProfile
      <4>1. p \in [vault_version : Nat, mail_action : Nat, mail : Seq(Args)]
        BY <3>3, ProfileFacts
      <4>2. q \in [vault_version : Nat, mail_action : Nat, mail : Seq(Args)]
            /\ q.vault_version = p.vault_version /\ q.mail_action = p.mail_action
        BY <3>1, <4>1
      <4>3. p.vault_version \in Nat /\ p.mail_action \in Nat
        BY <4>1
      <4> HIDE DEF q
      <4> QED
        BY <4>2, <4>3 DEF Profiles, Forward
    <3> QED
      BY <3>2, <3>3
  <2>6. profiles' = [profiles EXCEPT ![n] = q]
    <3>1. profiles' = [profiles EXCEPT ![n] = [profiles[n] EXCEPT !.mail = <<>>]]
      BY <1>10
    <3> QED
      BY <2>4, <3>1, Zenon
  <2> HIDE DEF q
  <2>7. MailTypes'
    <3>1. profiles' \in [Group -> Profiles]
      BY <1>4, <2>5, <2>6 DEF MailTypes
    <3>2. UNCHANGED <<online, stored>>
      BY <1>8, <1>10
    <3> QED
      BY <1>4, <1>8, <1>9, <2>3, <3>1, <3>2 DEF MailTypes, EntryStep, RunScope
  <2>8. CopiesStep
    <3>1. \A m \in Group : Forward(profiles[m], profiles'[m])
      BY <1>4, <2>4, <2>5, <2>6, ProfileFacts DEF MailTypes
    <3> QED
      BY <1>8, <3>1 DEF CopiesStep, RunScope
  <2>9. HandlerOK(o, n, job[o][n])'
    <3>1. CountedBy(o, n, k, Having(o)', Gone(o)', pushed')
      BY <1>3, <1>8, <1>10, <2>1 DEF CountedBy
    <3> QED
      BY <1>7, <1>8, <2>1, <2>3, <3>1 DEF HandlerOK, Counted
  <2>10. \A d \in calls' : d \in calls
    BY <1>10
  <2> QED
    BY <1>9, <2>3, <2>7, <2>8, <2>9, <2>10, StepKeeps
<1>11. CASE /\ c.body.kind # "direct"
            /\ online' = [online EXCEPT ![n] = "offline"]
            /\ job' = [job EXCEPT ![o][n] = AfterEntry(o, n, h.origin, h.res)]
            /\ calls' = (calls \ {c}) \cup Replicas(o, n, h.res)
            /\ UNCHANGED profiles
  <2>1. CopiesStep
    BY <1>4, <1>8, <1>11, ProfileFacts DEF MailTypes, CopiesStep, RunScope
  <2>2. PICK H \in SUBSET Group, g \in Nat, a \in {pushed'} :
          H = Having(o)' /\ g = Gone(o)' /\ a = pushed'
    BY <1>4, <1>8 DEF Having, Gone, RunScope, MailTypes
  <2>3. Lasting(o) => n \in H
    BY <1>7, <1>8, <1>11, <2>2 DEF Having, Has
  <2>4. PICK k : k = AfterEntry(o, n, h.origin, h.res)
    OBVIOUS
  <2>5. k \in Handlers /\ k.origin = h.origin /\ CountedBy(o, n, k, H, g, a)
    BY <1>7, <2>3, <2>4, EntryCounts
  <2>6. job' = [job EXCEPT ![o][n] = k]
    BY <1>11, <2>4
  <2>7. /\ job' \in [Ops -> [Group -> Handlers]] /\ job'[o][n] = k
        /\ \A x \in Ops, m \in Group : job'[x][m] = job[x][m] \/ (x = o /\ m = n)
    BY <1>4, <2>5, <2>6, JobStep
  <2>8. online' \in [Group -> Presences]
    BY <1>4, <1>11 DEF MailTypes, Presences
  <2>9. MailTypes'
    BY <1>4, <1>8, <1>9, <1>11, <2>7, <2>8 DEF MailTypes, EntryStep, RunScope
  <2>10. HandlerOK(o, n, job[o][n])'
    BY <1>7, <1>8, <2>2, <2>5, <2>7 DEF HandlerOK, Counted
  <2>11. \A d \in calls' : d \in calls \/ CallOK(d)'
    <3>1. \A d \in Replicas(o, n, h.res) : \E m \in Group : d = Call("call", o, n, m, NoResult)
      BY DEF Replicas, Others
    <3>2. n # NoNode
      BY NodesFacts
    <3>3. \A d : \A m \in Group : d = Call("call", o, n, m, NoResult) => CallOK(d)'
      BY <1>8, <3>2, CallMade
    <3> QED
      BY <1>11, <3>1, <3>3
  <2> QED
    BY <1>9, <2>1, <2>7, <2>9, <2>10, <2>11, StepKeeps
<1> QED
  BY <1>2, <1>5, <1>10, <1>11 DEF DirectAnswer

LEMMA ReplKeeps ==
    ASSUME MailInv, NEW c \in calls, ReplAnswer(c)
    PROVE  MailInv' /\ CopiesStep
<1>1. CallOK(c) /\ c.kind = "answer"
  BY DEF ReplAnswer, MailInv
<1>2. PICK o \in Ops, n \in Group : o = c.op /\ n = c.to /\ n = entry[o]
  BY <1>1 DEF CallOK
<1>3. c.body \in Results /\ (Lasting(o) /\ c.body.kind = "ok" => c.from \in Having(o))
  BY <1>1, <1>2 DEF CallOK
<1>4. MailTypes /\ HandlerOK(o, n, job[o][n]) /\ job[o][n] \in Handlers
  BY DEF MailInv, MailTypes
<1>5. PICK h \in Handlers : h = job[o][n]
  BY <1>4
<1>6. HandlerOK(o, n, h) /\ h.stage = "replicating" /\ c.from \in h.waits
  BY <1>2, <1>4, <1>5 DEF ReplAnswer
<1>7. PICK H \in SUBSET Group, g \in Nat : H = Having(o) /\ g = Gone(o)
  BY <1>4, HavingFacts
<1>8. /\ h.origin \in Origins /\ h.res \in Results /\ h.res.kind = "ok" /\ h.matched \in Nat
      /\ h.waits \in SUBSET Group
      /\ o.kind = "read" => h.origin # "client"
  BY <1>6 DEF HandlerOK, Counted, CountedBy, Handlers
<1>9. Lasting(o) => /\ n \in H /\ h.waits \subseteq Others(n)
                    /\ h.matched <= Cardinality(H \ (h.waits \cup {n})) + g
  BY <1>6, <1>7 DEF HandlerOK, Counted, CountedBy
<1>10. PICK matched \in Nat, waits \in SUBSET Group :
         /\ matched = h.matched + (IF c.body = h.res THEN 1 ELSE 0)
         /\ waits = h.waits \ {c.from}
  <2>1. h.matched + (IF c.body = h.res THEN 1 ELSE 0) \in Nat
    BY <1>8
  <2> QED
    BY <1>8, <2>1
<1>11. Lasting(o) => matched <= Cardinality(H \ (waits \cup {n})) + g
  <2> SUFFICES ASSUME Lasting(o) PROVE matched <= Cardinality(H \ (waits \cup {n})) + g
    OBVIOUS
  <2> DEFINE now == Cardinality(H \ (h.waits \cup {n}))
             then == Cardinality(H \ (waits \cup {n}))
  <2>1. now \in Nat /\ then \in Nat
    BY NodesFacts
  <2>2. h.matched <= now + g
    BY <1>9
  <2>3. CASE c.body = h.res
    <3>1. c.from \in H
      BY <1>3, <1>7, <1>8, <2>3
    <3>2. then = now + 1
      BY <1>6, <1>9, <1>10, <3>1, CountAnswer
    <3>3. matched = h.matched + 1
      BY <1>10, <2>3
    <3> HIDE DEF now, then
    <3>4. matched <= then + g
      BY <1>8, <2>1, <2>2, <3>2, <3>3
    <3> QED
      BY <3>4 DEF then
  <2>4. CASE c.body # h.res
    <3>1. H \ (h.waits \cup {n}) \in SUBSET (H \ (waits \cup {n})) /\ H \ (waits \cup {n}) \in SUBSET Group
      BY <1>10
    <3>2. now <= then
      BY <3>1, CardMonotone
    <3>3. matched = h.matched
      BY <1>8, <1>10, <2>4
    <3> HIDE DEF now, then
    <3>4. matched <= then + g
      BY <1>8, <2>1, <2>2, <3>2, <3>3
    <3> QED
      BY <3>4 DEF then
  <2> QED
    BY <2>3, <2>4
<1>12. PICK k : k = IF MailMajority(matched) THEN Handler("told", h.origin, {}, matched, h.res)
                    ELSE IF Cardinality(waits) + matched < ReplFactor \div 2
                      THEN Handler("told", h.origin, {}, matched, Result("nomajority", <<>>))
                    ELSE Handler("replicating", h.origin, waits, matched, h.res)
  OBVIOUS
<1>13. k \in Handlers /\ k.origin = h.origin /\ CountedBy(o, n, k, H, g, pushed)
  <2>1. CASE k = Handler("told", h.origin, {}, matched, h.res) /\ MailMajority(matched)
    <3>1. k \in Handlers /\ k.stage = "told" /\ k.origin = h.origin /\ k.res.kind = "ok"
      BY <1>8, <2>1 DEF Handler, Handlers, Stages
    <3>2. Lasting(o) => Cardinality(H) + g >= ReplFactor \div 2 + 2
      BY <1>9, <1>11, <2>1, CountMajority
    <3> QED
      BY <3>1, <3>2 DEF CountedBy
  <2>2. CASE k = Handler("told", h.origin, {}, matched, Result("nomajority", <<>>))
    <3>1. Result("nomajority", <<>>) \in Results /\ Result("nomajority", <<>>).kind = "nomajority"
      BY DEF Result, Results
    <3>2. k \in Handlers /\ k.stage = "told" /\ k.origin = h.origin /\ k.res.kind = "nomajority"
      BY <1>8, <2>2, <3>1 DEF Handler, Handlers, Stages
    <3> QED
      BY <3>2 DEF CountedBy
  <2>3. CASE k = Handler("replicating", h.origin, waits, matched, h.res)
    <3>1. k \in Handlers /\ k.stage = "replicating" /\ k.origin = h.origin /\ k.res.kind = "ok"
          /\ k.waits = waits /\ k.matched = matched
      BY <1>8, <2>3 DEF Handler, Handlers, Stages
    <3>2. Lasting(o) => waits \subseteq Others(n)
      BY <1>9, <1>10
    <3> QED
      BY <1>9, <1>11, <3>1, <3>2 DEF CountedBy
  <2> QED
    BY <1>12, <2>1, <2>2, <2>3
<1>14. /\ job' = [job EXCEPT ![o][n] = k]
       /\ calls' = calls \ {c}
       /\ UNCHANGED <<profiles, online, entry, pushed, stored>> /\ RunScope
  BY <1>2, <1>5, <1>10, <1>12 DEF ReplAnswer, unchangedByNodes, RunScope
<1>15. /\ job' \in [Ops -> [Group -> Handlers]] /\ job'[o][n] = k
       /\ \A x \in Ops, m \in Group : job'[x][m] = job[x][m] \/ (x = o /\ m = n)
  BY <1>4, <1>13, <1>14, JobStep
<1>16. EntryStep
  BY <1>14, EntryUnchanged
<1>17. MailTypes'
  BY <1>4, <1>14, <1>15, <1>16 DEF MailTypes, EntryStep, RunScope
<1>18. CopiesStep
  BY <1>4, <1>14, ProfileFacts DEF MailTypes, CopiesStep, RunScope
<1>19. H = Having(o)' /\ g = Gone(o)'
  BY <1>7, <1>14 DEF Having, Has, Gone, RunScope
<1>20. HandlerOK(o, n, job[o][n])'
  BY <1>2, <1>8, <1>13, <1>14, <1>15, <1>19 DEF HandlerOK, Counted
<1>21. \A d \in calls' : d \in calls
  BY <1>14
<1> QED
  BY <1>15, <1>16, <1>17, <1>18, <1>20, <1>21, StepKeeps
LEMMA LeaveKeeps ==
    ASSUME MailInv, Leave
    PROVE  MailInv' /\ CopiesStep
<1>1. MailTypes
  BY DEF MailInv
<1>2. /\ UNCHANGED <<profiles, entry, calls, pushed, stored, lost, reboots>>
      /\ here \in Group /\ here' = NoNode
      /\ online' = [online EXCEPT ![here] = IF @ = "client" THEN "stale" ELSE @]
      /\ job' = [o \in Ops |-> [n \in Group |->
                    [job[o][n] EXCEPT !.origin = IF @ = "self" THEN "left" ELSE @]]]
  BY <1>1 DEF Leave, MailTypes
<1>3. ASSUME NEW o \in Ops, NEW n \in Group
      PROVE  /\ job'[o][n] \in Handlers
             /\ job'[o][n].stage = job[o][n].stage /\ job'[o][n].waits = job[o][n].waits
             /\ job'[o][n].matched = job[o][n].matched /\ job'[o][n].res = job[o][n].res
             /\ job'[o][n].origin \in {job[o][n].origin, "left"}
             /\ job[o][n].origin # "self" => job'[o][n].origin = job[o][n].origin
  <2>1. PICK h \in Handlers : h = job[o][n]
    BY <1>1 DEF MailTypes
  <2>2. job'[o][n] = [h EXCEPT !.origin = IF h.origin = "self" THEN "left" ELSE h.origin]
    BY <1>2, <2>1
  <2> QED
    BY <2>1, <2>2 DEF Handlers, Origins
<1>4. job' \in [Ops -> [Group -> Handlers]]
  BY <1>2, <1>3
<1>5. online' \in [Group -> Presences]
  BY <1>1, <1>2 DEF MailTypes, Presences
<1>6. MailTypes'
  BY <1>1, <1>2, <1>4, <1>5 DEF MailTypes
<1>7. CopiesStep /\ EntryStep
  BY <1>1, <1>2, ProfileFacts DEF MailTypes, CopiesStep, EntryStep
<1>8. ASSUME NEW o \in Ops, NEW n \in Group PROVE HandlerOK(o, n, job[o][n])'
  <2>1. PICK h \in Handlers, k \in Handlers : h = job[o][n] /\ k = job'[o][n]
    BY <1>1, <1>3 DEF MailTypes
  <2>2. HandlerOK(o, n, h)
    BY <2>1 DEF MailInv
  <2>3. /\ k.stage = h.stage /\ k.waits = h.waits /\ k.matched = h.matched /\ k.res = h.res
        /\ k.origin \in {h.origin, "left"} /\ (h.origin # "self" => k.origin = h.origin)
    BY <1>3, <2>1
  <2>4. Having(o)' = Having(o) /\ Gone(o)' = Gone(o)
    BY <1>2 DEF Having, Has, Gone
  <2>5. h.stage \notin {"idle", "restoring"} => CountedBy(o, n, k, Having(o)', Gone(o)', pushed')
    <3>1. h.stage \notin {"idle", "restoring"} => CountedBy(o, n, h, Having(o), Gone(o), pushed)
      BY <2>2 DEF HandlerOK, Counted
    <3>2. PICK H, g, a : H = Having(o) /\ g = Gone(o) /\ a = pushed
      OBVIOUS
    <3>3. h.stage \notin {"idle", "restoring"} => CountedBy(o, n, h, H, g, a)
      BY <3>1, <3>2
    <3>4. h.stage \notin {"idle", "restoring"} => CountedBy(o, n, k, H, g, a)
      BY <2>3, <3>3 DEF CountedBy
    <3> QED
      BY <1>2, <2>4, <3>2, <3>4
  <2> QED
    BY <1>2, <2>1, <2>2, <2>3, <2>5 DEF HandlerOK, Counted
<1>9. \A c \in calls' : CallOK(c)'
  BY <1>2, <1>6, <1>7, CallKept
<1> QED
  BY <1>6, <1>7, <1>8, <1>9 DEF MailInv

\* A restart takes the copy of the node, and counts.
LEMMA RestartKeeps ==
    ASSUME MailInv, NEW n \in Group, RestartNode(n)
    PROVE  /\ MailInv'
           /\ \A m \in Group : profiles'[m] = NoProfile \/ profiles'[m] = profiles[m]
<1>1. MailTypes
  BY DEF MailInv
<1>2. /\ profiles' = [profiles EXCEPT ![n] = NoProfile]
      /\ online' = [online EXCEPT ![n] = "offline"]
      /\ here' = IF here = n THEN NoNode ELSE here
      /\ job' = [o \in Ops |-> [job[o] EXCEPT ![n] =
                  IF entry[o] = n /\ @.stage # "told" THEN Handler("lost", "server", {}, 0, NoResult)
                  ELSE IF entry[o] = n THEN @ ELSE Idle]]
      /\ calls' = {c \in calls : n \notin {c.from, c.to}}
      /\ reboots' = reboots + 1
      /\ UNCHANGED <<entry, pushed, stored, lost>>
  BY DEF RestartNode
<1>3. NoProfile \in Profiles /\ "offline" \in Presences
  BY DEF Profiles, Presences
<1>4. profiles' \in [Group -> Profiles] /\ online' \in [Group -> Presences]
      /\ \A m \in Group : profiles'[m] = NoProfile \/ profiles'[m] = profiles[m]
  BY <1>1, <1>2, <1>3 DEF MailTypes
<1> DEFINE gone == Handler("lost", "server", {}, 0, NoResult)
<1>5. gone \in Handlers /\ gone.stage = "lost" /\ gone.origin = "server"
  BY IdleFacts DEF Handler, Handlers, Stages, Origins
<1>6. ASSUME NEW o \in Ops, NEW m \in Group
      PROVE  /\ job'[o][m] \in {job[o][m], gone, Idle}
             /\ m # n => job'[o][m] = job[o][m]
             /\ m = n => \/ m = entry[o] /\ job[o][m].stage # "told" /\ job'[o][m] = gone
                         \/ m = entry[o] /\ job[o][m].stage = "told" /\ job'[o][m] = job[o][m]
                         \/ m # entry[o] /\ job'[o][m] = Idle
  <2> HIDE DEF gone
  <2>1. job'[o] = [job[o] EXCEPT ![n] =
                     IF entry[o] = n /\ job[o][n].stage # "told" THEN gone
                     ELSE IF entry[o] = n THEN job[o][n] ELSE Idle]
    BY <1>2 DEF gone
  <2>2. DOMAIN job[o] = Group
    BY <1>1 DEF MailTypes
  <2> QED
    BY <2>1, <2>2
<1> HIDE DEF gone
<1>7. job' \in [Ops -> [Group -> Handlers]]
  <2>1. \A o \in Ops, m \in Group : job'[o][m] \in Handlers
    BY <1>1, <1>5, <1>6, IdleFacts DEF MailTypes
  <2>2. \A o \in Ops : DOMAIN job[o] = Group
    BY <1>1 DEF MailTypes
  <2>3. \A o \in Ops : job'[o] \in [Group -> Handlers]
    BY <1>2, <2>1, <2>2
  <2> QED
    BY <1>2, <2>3
<1>8. MailTypes'
  BY <1>1, <1>2, <1>4, <1>7 DEF MailTypes
<1>9. ASSUME NEW o \in Ops, Lasting(o) PROVE Having(o) \ {n} \subseteq Having(o)'
  BY <1>1, <1>2 DEF Having, Has, MailTypes
<1>10. ASSUME NEW o \in Ops, o.kind = "mail" PROVE Having(o)' = Having(o) /\ Gone(o)' = Gone(o)
  BY <1>2, <1>10 DEF Having, Has, Gone
<1>11. ASSUME NEW o \in Ops, NEW m \in Group PROVE HandlerOK(o, m, job[o][m])'
  <2>1. PICK h \in Handlers : h = job[o][m]
    BY <1>1 DEF MailTypes
  <2>2. HandlerOK(o, m, h)
    BY <2>1 DEF MailInv
  <2>3. ASSUME job'[o][m] = h, h.stage \in {"direct", "replicating"} => m # n
        PROVE  HandlerOK(o, m, job[o][m])'
    <3>1. h.stage \notin {"idle", "restoring"} => CountedBy(o, m, h, Having(o), Gone(o), pushed)
      BY <2>2 DEF HandlerOK, Counted
    <3>2. PICK H \in SUBSET Group, K \in SUBSET Group, g \in Nat :
            H = Having(o) /\ K = Having(o)' /\ g = Gone(o)
      <4>1. Having(o)' \in SUBSET Group
        BY DEF Having
      <4> QED
        BY <1>1, <4>1, HavingFacts
    <3>3. h.stage \notin {"idle", "restoring"} => CountedBy(o, m, h, Having(o)', Gone(o)', pushed')
      <4>1. CASE o.kind = "mail"
        BY <1>2, <1>10, <3>1, <4>1
      <4>2. CASE ~Lasting(o)
        BY <1>2, <3>1, <4>2 DEF CountedBy
      <4>3. CASE Lasting(o) /\ o.kind # "mail"
        <5>1. H \ {n} \subseteq K
          BY <1>9, <3>2, <4>3
        <5>2. Gone(o)' = g + 1
          BY <1>2, <3>2, <4>3 DEF Gone
        <5>3. h.stage \notin {"idle", "restoring"} => CountedBy(o, m, h, H, g, pushed)
          BY <3>1, <3>2
        <5>4. h.stage \notin {"idle", "restoring"} => CountedBy(o, m, h, K, g + 1, pushed)
          BY <2>3, <5>1, <5>3, CountLess
        <5> QED
          BY <1>2, <3>2, <5>2, <5>4
      <4> QED
        BY <4>1, <4>2, <4>3
    <3> QED
      BY <1>2, <2>2, <2>3, <3>3 DEF HandlerOK, Counted
  <2>4. CASE m # n
    BY <1>6, <2>1, <2>3, <2>4
  <2>5. CASE m = entry[o] /\ job[o][m].stage = "told" /\ job'[o][m] = job[o][m]
    BY <2>1, <2>3, <2>5
  <2>6. CASE m = entry[o] /\ job'[o][m] = gone
    <3>1. CountedBy(o, m, gone, Having(o)', Gone(o)', pushed')
      BY <1>5 DEF CountedBy
    <3> QED
      BY <1>2, <1>5, <2>6, <3>1 DEF HandlerOK, Counted
  <2>7. CASE m # entry[o] /\ job'[o][m] = Idle
    BY <1>2, <2>7, IdleFacts DEF HandlerOK
  <2> QED
    BY <1>6, <2>4, <2>5, <2>6, <2>7
<1>12. ASSUME NEW c \in calls' PROVE CallOK(c)'
  <2>1. c \in calls /\ c.from # n
    BY <1>2
  <2>2. CallOK(c)
    BY <2>1 DEF MailInv
  <2>3. c.op \in Ops /\ (Lasting(c.op) /\ c.from \in Having(c.op) => c.from \in Having(c.op)')
    BY <1>9, <2>1, <2>2 DEF CallOK
  <2> QED
    BY <1>2, <2>2, <2>3 DEF CallOK
<1> QED
  BY <1>4, <1>8, <1>11, <1>12 DEF MailInv

LEMMA InitMailInv ==
    ASSUME MailInit
    PROVE  MailInv
<1>1. PICK s \in Starts : profiles = [n \in Group |-> IF n \in s.missing THEN NoProfile
                                                      ELSE Profile(0, 0, <<>>)]
  BY DEF MailInit
<1>2. NoProfile \in Profiles /\ Profile(0, 0, <<>>) \in Profiles
  BY DEF Profiles, Profile
<1>3. profiles \in [Group -> Profiles]
  BY <1>1, <1>2
<1>4. online \in [Group -> Presences] /\ entry \in [Ops -> Group \cup {NoNode}]
      /\ DOMAIN stored = Group /\ reboots \in Nat /\ lost \in Nat /\ here \in Group \cup {NoNode}
  BY DEF MailInit, Presences
<1>5. job \in [Ops -> [Group -> Handlers]] /\ \A o \in Ops, n \in Group : job[o][n] = Idle
  BY IdleFacts DEF MailInit
<1>6. MailTypes
  BY <1>3, <1>4, <1>5 DEF MailTypes
<1>7. \A o \in Ops, n \in Group : HandlerOK(o, n, job[o][n])
  BY <1>5, IdleFacts DEF HandlerOK
<1>8. calls = {}
  BY DEF MailInit
<1> QED
  BY <1>6, <1>7, <1>8 DEF MailInv

\* Every step keeps the invariant, and takes nothing back unless it is a restart.
LEMMA NextMailInv ==
    ASSUME MailInv, [MailNext]_mailVars
    PROVE  /\ MailInv'
           /\ CopiesStep \/ \A m \in Group : profiles'[m] = NoProfile \/ profiles'[m] = profiles[m]
<1>1. here \in Group \cup {NoNode} /\ lost \in Nat
  BY DEF MailInv, MailTypes
<1>2. ASSUME NEW o \in Ops, NEW n \in Group, NEW origin \in {"client", "self"},
             Submit(o, n, origin)
      PROVE  MailInv' /\ CopiesStep
  BY <1>2, SubmitKeeps
<1>3. ASSUME NEW c \in calls, \/ HandleCall(c) \/ FetchFullProfile(c) \/ Restore(c)
                              \/ DirectAnswer(c) \/ ReplAnswer(c)
      PROVE  MailInv' /\ CopiesStep
  BY <1>3, HandleCallKeeps, FetchKeeps, RestoreKeeps, DirectKeeps, ReplKeeps
<1>4. ASSUME NEW c \in calls, Unexpected(c) \/ LoseCall(c)
      PROVE  MailInv' /\ CopiesStep
  <2>1. UNCHANGED <<profiles, online, entry, job, pushed, stored, reboots, here>>
        /\ calls' = calls \ {c} /\ lost' \in Nat
    BY <1>1, <1>4 DEF Unexpected, LoseCall, unchangedByNodes
  <2> QED
    BY <1>1, <2>1, QuietKeeps
<1>5. ASSUME \/ \E n \in Group : Connect(n)
             \/ Subscribe
             \/ UNCHANGED mailVars
      PROVE  MailInv' /\ CopiesStep
  <2>1. UNCHANGED <<profiles, online, entry, job, pushed, stored, reboots, calls, lost>>
        /\ here' \in Group \cup {NoNode}
    BY <1>1, <1>5 DEF Connect, Subscribe, mailVars
  <2> QED
    BY <1>1, <2>1, QuietKeeps
<1>6. ASSUME Leave PROVE MailInv' /\ CopiesStep
  BY <1>6, LeaveKeeps
<1>7. ASSUME NEW n \in Group, RestartNode(n)
      PROVE  MailInv' /\ \A m \in Group : profiles'[m] = NoProfile \/ profiles'[m] = profiles[m]
  BY <1>7, RestartKeeps
<1> QED
  BY <1>2, <1>3, <1>4, <1>5, <1>6, <1>7 DEF MailNext, NodeStep
\* Vaults never go back while the profile is there, and the reading number only with the whole
\* profile: nonces of SetVault and ReadMail in handlers/profile.rs, and the merge in retry.rs.
THEOREM NoncesGoForwardHolds == MailSpec => NoncesGoForward
<1> DEFINE Step == \A n \in Group : profiles[n] # NoProfile /\ profiles'[n] # NoProfile =>
                      /\ profiles'[n].vault_version >= profiles[n].vault_version
                      /\ profiles'[n].mail_action < profiles[n].mail_action
                            => profiles'[n].vault_version > profiles[n].vault_version
<1>1. MailInit => MailInv
  BY InitMailInv
<1>2. MailInv /\ [MailNext]_mailVars => MailInv'
  BY NextMailInv
<1>3. MailInv /\ [MailNext]_mailVars => [Step]_mailVars
  <2> SUFFICES ASSUME MailInv, [MailNext]_mailVars PROVE Step
    OBVIOUS
  <2>1. \A n \in Group : Forward(profiles[n], profiles[n])
    BY ProfileFacts DEF MailInv, MailTypes
  <2>2. \A n \in Group : profiles'[n] = NoProfile \/ Forward(profiles[n], profiles'[n])
    BY <2>1, NextMailInv DEF CopiesStep
  <2> QED
    BY <2>2 DEF Forward
<1> QED
  BY <1>1, <1>2, <1>3, PTL DEF MailSpec, NoncesGoForward

\* A client is told that its vault is set only when the entry and a majority of the others have
\* it, and however requests, restoring nodes and restarts interleave after that, only as many
\* copies are missing as there were restarts.
THEOREM AckedVaultDurableHolds == MailSpec => []AckedVaultDurable
<1>1. MailInit => MailInv
  BY InitMailInv
<1>2. MailInv /\ [MailNext]_mailVars => MailInv'
  BY NextMailInv
<1>3. MailInv => AckedVaultDurable
  <2> SUFFICES ASSUME MailInv, NEW o \in Ops, o.kind \in {"create", "vault"}, Told(o, "ok")
               PROVE  Cardinality({n \in Group : profiles[n].vault_version >= o.arg}) + reboots
                        >= ReplFactor \div 2 + 2
    BY DEF AckedVaultDurable
  <2>1. PICK e \in Group : e = entry[o]
    BY DEF Told, MailInv, MailTypes
  <2>2. HandlerOK(o, e, job[o][e]) /\ job[o][e].stage = "told" /\ job[o][e].res.kind = "ok"
    BY <2>1 DEF Told, MailInv
  <2>3. Cardinality(Having(o)) + Gone(o) >= ReplFactor \div 2 + 2
    BY <2>2 DEF HandlerOK, Counted, CountedBy, Lasting
  <2>4. Gone(o) = reboots
    BY DEF Gone
  <2>5. Having(o) = {n \in Group : profiles[n].vault_version >= o.arg}
    BY DEF Having, Has
  <2> QED
    BY <2>3, <2>4, <2>5
<1> QED
  BY <1>1, <1>2, <1>3, PTL DEF MailSpec

\* A sender that is told Ok has its mail in the mailboxes of the entry and of a majority of the
\* others, and one that is told SentDirectly has it on a stream of the recipient: SendMail of
\* handlers/profile.rs below handlers/replicated.rs.
THEOREM ToldMailArrivedHolds == MailSpec => []ToldMailArrived
<1>1. MailInit => MailInv
  BY InitMailInv
<1>2. MailInv /\ [MailNext]_mailVars => MailInv'
  BY NextMailInv
<1>3. MailInv => ToldMailArrived
  <2> SUFFICES ASSUME MailInv, NEW o \in Ops, o.kind = "mail"
               PROVE  /\ Told(o, "ok") =>
                           Cardinality({n \in Group : o.arg \in stored[n]}) >= ReplFactor \div 2 + 2
                      /\ Told(o, "direct") => o.arg \in pushed
    BY DEF ToldMailArrived
  <2>1. ASSUME Told(o, "ok")
        PROVE  Cardinality({n \in Group : o.arg \in stored[n]}) >= ReplFactor \div 2 + 2
    <3>1. PICK e \in Group : e = entry[o]
      BY <2>1 DEF Told, MailInv, MailTypes
    <3>2. HandlerOK(o, e, job[o][e]) /\ job[o][e].stage = "told" /\ job[o][e].res.kind = "ok"
      BY <2>1, <3>1 DEF Told, MailInv
    <3>3. Cardinality(Having(o)) + Gone(o) >= ReplFactor \div 2 + 2
      BY <3>2 DEF HandlerOK, Counted, CountedBy, Lasting
    <3>4. Gone(o) = 0
      BY DEF Gone
    <3>5. Having(o) = {n \in Group : o.arg \in stored[n]}
      BY DEF Having, Has
    <3>6. Cardinality(Having(o)) \in Nat
      BY NodesFacts DEF Having
    <3>7. Cardinality(Having(o)) >= ReplFactor \div 2 + 2
      BY <3>3, <3>4, <3>6
    <3> QED
      BY <3>5, <3>7
  <2>2. ASSUME Told(o, "direct") PROVE o.arg \in pushed
    <3>1. PICK e \in Group : e = entry[o]
      BY <2>2 DEF Told, MailInv, MailTypes
    <3>2. HandlerOK(o, e, job[o][e]) /\ job[o][e].stage = "told" /\ job[o][e].res.kind = "direct"
      BY <2>2, <3>1 DEF Told, MailInv
    <3> QED
      BY <3>2 DEF HandlerOK, Counted, CountedBy
  <2> QED
    BY <2>1, <2>2
<1> QED
  BY <1>1, <1>2, <1>3, PTL DEF MailSpec

-----------------------------------------------------------------------------
(* Restoring.                                                               *)

\* The answer of m that request o waits for on n is among the calls C.
FedBy(o, n, m, C) ==
    \E c \in C : /\ c.op = o
                 /\ \/ c.kind = "fetch" /\ c.from = n /\ c.to = m
                    \/ c.kind = "fetched" /\ c.from = m /\ c.to = n

FedHandler(o, n, h, C) ==
    h.stage = "restoring" => h.waits # {} /\ \A m \in h.waits : FedBy(o, n, m, C)

FedAll == \A o \in Ops, n \in Group : FedHandler(o, n, job[o][n], calls)

\* Of what was on its way for other handlers than that of o on n, C holds everything.
FedElsewhere(o, n, C) ==
    \A x \in Ops, k \in Group : \A m : ~(x = o /\ k = n) /\ FedBy(x, k, m, calls) => FedBy(x, k, m, C)

LEMMA JobAt ==
    ASSUME MailTypes, NEW o \in Ops, NEW n \in Group, NEW h, job' = [job EXCEPT ![o][n] = h]
    PROVE  /\ job'[o][n] = h
           /\ \A x \in Ops, k \in Group : job'[x][k] = job[x][k] \/ (x = o /\ k = n)
BY DEF MailTypes

LEMMA FedStep ==
    ASSUME MailTypes, FedAll, NEW o \in Ops, NEW n \in Group, NEW h,
           job' = [job EXCEPT ![o][n] = h],
           FedHandler(o, n, h, calls'), FedElsewhere(o, n, calls')
    PROVE  FedAll'
<1>1. /\ job'[o][n] = h
      /\ \A x \in Ops, k \in Group : job'[x][k] = job[x][k] \/ (x = o /\ k = n)
  BY JobAt
<1>2. ASSUME NEW x \in Ops, NEW k \in Group PROVE FedHandler(x, k, job'[x][k], calls')
  <2>1. CASE x = o /\ k = n
    BY <1>1, <2>1
  <2>2. CASE ~(x = o /\ k = n)
    <3>1. FedHandler(x, k, job[x][k], calls) /\ job'[x][k] = job[x][k]
      BY <1>1, <2>2 DEF FedAll
    <3>2. \A m : FedBy(x, k, m, calls) => FedBy(x, k, m, calls')
      BY <2>2 DEF FedElsewhere
    <3> QED
      BY <3>1, <3>2 DEF FedHandler
  <2> QED
    BY <2>1, <2>2
<1> QED
  BY <1>2 DEF FedAll

LEMMA FedMore ==
    ASSUME NEW C, NEW D, C \subseteq D, NEW o \in Ops, NEW n \in Group, FedElsewhere(o, n, C)
    PROVE  FedElsewhere(o, n, D)
<1>1. \A x \in Ops, k \in Group : \A m : FedBy(x, k, m, C) => FedBy(x, k, m, D)
  BY DEF FedBy
<1> QED
  BY <1>1 DEF FedElsewhere

\* Running a handler ends its waiting.
LEMMA RunFed ==
    ASSUME MailTypes, FedAll, NEW o \in Ops, NEW n \in Group, NEW p, NEW origin, NEW from,
           NEW kept, FedElsewhere(o, n, kept), Run(o, n, p, origin, from, kept)
    PROVE  FedAll'
<1>1. PICK out : out = HandleRequest(o, p, online[n], origin, from)
  OBVIOUS
<1>2. PICK h : job' = [job EXCEPT ![o][n] = h] /\ h.stage # "restoring" /\ kept \subseteq calls'
  <2>1. Idle.stage # "restoring"
    BY IdleFacts
  <2>2. Handler("direct", origin, {out.ask}, 0, out.res).stage # "restoring"
    BY DEF Handler
  <2>3. AfterEntry(o, n, origin, out.res).stage # "restoring"
    BY DEF AfterEntry, Handler
  <2>4. CASE job' = [job EXCEPT ![o][n] = Idle]
             /\ calls' = kept \cup {Call("answer", o, n, from, out.res)}
    BY <2>1, <2>4
  <2>5. CASE job' = [job EXCEPT ![o][n] = Handler("direct", origin, {out.ask}, 0, out.res)]
             /\ calls' = kept \cup {Call("call", o, n, out.ask, NoResult)}
    BY <2>2, <2>5
  <2>6. CASE job' = [job EXCEPT ![o][n] = AfterEntry(o, n, origin, out.res)]
             /\ calls' = kept \cup Replicas(o, n, out.res)
    BY <2>3, <2>6
  <2> QED
    BY <1>1, <2>4, <2>5, <2>6 DEF Run
<1>3. FedElsewhere(o, n, calls')
  BY <1>2, FedMore
<1>4. FedHandler(o, n, h, calls')
  BY <1>2 DEF FedHandler
<1> QED
  BY <1>2, <1>3, <1>4, FedStep

LEMMA OthersExist ==
    ASSUME NEW n \in Group
    PROVE  Others(n) # {} /\ Others(n) \subseteq Group
<1>1. Cardinality(Group) > 1 /\ IsFiniteSet(Group)
  BY MailboxesAssumption
<1>2. Cardinality({n}) = 1
  BY FS_Singleton
<1>3. Group # {n}
  BY <1>1, <1>2
<1> QED
  BY <1>3 DEF Others

LEMMA ExecuteFed ==
    ASSUME MailTypes, FedAll, NEW o \in Ops, NEW n \in Group, NEW origin, NEW from,
           NEW kept, FedElsewhere(o, n, kept), Execute(o, n, origin, from, kept)
    PROVE  FedAll'
<1>1. CASE profiles[n] # NoProfile \/ o.kind = "create"
  <2>1. PICK p : p = profiles[n]
    OBVIOUS
  <2>2. Run(o, n, p, origin, from, kept)
    BY <1>1, <2>1 DEF Execute
  <2> QED
    BY <2>2, RunFed
<1>2. CASE ~(profiles[n] # NoProfile \/ o.kind = "create")
  <2>1. PICK h : h = Handler("restoring", origin, Others(n), 0, NoResult)
    OBVIOUS
  <2>2. /\ job' = [job EXCEPT ![o][n] = h]
        /\ calls' = kept \cup {Call("fetch", o, n, m, NoResult) : m \in Others(n)}
    BY <1>2, <2>1 DEF Execute
  <2>3. h.waits = Others(n)
    BY <2>1 DEF Handler
  <2>4. ASSUME NEW m \in Others(n) PROVE FedBy(o, n, m, calls')
    <3>1. PICK c \in calls' : c = Call("fetch", o, n, m, NoResult)
      BY <2>2
    <3>2. c.kind = "fetch" /\ c.op = o /\ c.from = n /\ c.to = m
      BY <3>1, CallFields
    <3> QED
      BY <3>2 DEF FedBy
  <2>5. FedHandler(o, n, h, calls')
    BY <2>3, <2>4, OthersExist DEF FedHandler
  <2>6. FedElsewhere(o, n, calls')
    BY <2>2, FedMore
  <2> QED
    BY <2>2, <2>5, <2>6, FedStep
<1> QED
  BY <1>1, <1>2

\* Answers to the entry and calls of it feed nobody, and a fetched profile only one handler.
LEMMA WithoutCall ==
    ASSUME NEW c, NEW o \in Ops, NEW n \in Group,
           c.kind \in {"call", "answer"} \/ (c.kind = "fetched" /\ c.op = o /\ c.to = n)
    PROVE  FedElsewhere(o, n, calls \ {c})
<1> SUFFICES ASSUME NEW x \in Ops, NEW k \in Group, NEW m, ~(x = o /\ k = n), FedBy(x, k, m, calls)
             PROVE  FedBy(x, k, m, calls \ {c})
  BY DEF FedElsewhere
<1>1. PICK d \in calls : /\ d.op = x
                         /\ \/ d.kind = "fetch" /\ d.from = k /\ d.to = m
                            \/ d.kind = "fetched" /\ d.from = m /\ d.to = k
  BY DEF FedBy
<1>2. d # c
  BY <1>1
<1> QED
  BY <1>1, <1>2 DEF FedBy

\* Handlers that wait for the same nodes, with every fetch and every fetched profile still there.
LEMMA FedQuiet ==
    ASSUME FedAll,
           \A o \in Ops, n \in Group : job'[o][n].stage = job[o][n].stage
                                       /\ job'[o][n].waits = job[o][n].waits,
           \A o \in Ops, n \in Group : \A m : FedBy(o, n, m, calls) => FedBy(o, n, m, calls')
    PROVE  FedAll'
<1>1. ASSUME NEW o \in Ops, NEW n \in Group PROVE FedHandler(o, n, job'[o][n], calls')
  <2>1. FedHandler(o, n, job[o][n], calls)
    BY DEF FedAll
  <2> QED
    BY <2>1 DEF FedHandler
<1> QED
  BY <1>1 DEF FedAll
LEMMA CallStepFed ==
    ASSUME MailInv, FedAll, NEW c \in calls, HandleCall(c) \/ Restore(c)
    PROVE  FedAll'
<1>1. MailTypes /\ CallOK(c)
  BY DEF MailInv
<1>2. PICK o \in Ops, n \in Group : o = c.op /\ n = c.to
  BY <1>1 DEF CallOK
<1>3. CASE HandleCall(c)
  <2>1. c.kind = "call" /\ Execute(o, n, "server", c.from, calls \ {c})
    BY <1>2, <1>3 DEF HandleCall
  <2>2. FedElsewhere(o, n, calls \ {c})
    BY <2>1, WithoutCall
  <2> QED
    BY <1>1, <2>1, <2>2, ExecuteFed
<1>4. CASE Restore(c)
  <2>1. PICK h \in Handlers, p \in {Newest(c.body, profiles[n])}, e \in {entry[o]} :
          h = job[o][n] /\ p = Newest(c.body, profiles[n]) /\ e = entry[o]
    BY <1>1 DEF MailTypes
  <2>2. c.kind = "fetched" /\ h.stage = "restoring"
    BY <1>2, <1>4, <2>1 DEF Restore
  <2>3. FedElsewhere(o, n, calls \ {c})
    BY <1>2, <2>2, WithoutCall
  <2>4. CASE AllAnswered(h.waits \ {c.from})
    <3>1. Run(o, n, p, h.origin, e, calls \ {c})
      BY <1>2, <1>4, <2>1, <2>4 DEF Restore
    <3> QED
      BY <1>1, <2>3, <3>1, RunFed
  <2>5. CASE ~AllAnswered(h.waits \ {c.from})
    <3>1. job' = [job EXCEPT ![o][n].waits = h.waits \ {c.from}] /\ calls' = calls \ {c}
      BY <1>2, <1>4, <2>1, <2>5 DEF Restore
    <3>2. PICK k \in Handlers : k = [h EXCEPT !.waits = h.waits \ {c.from}]
                                /\ k.waits = h.waits \ {c.from}
      <4>1. [h EXCEPT !.waits = h.waits \ {c.from}] \in Handlers
            /\ [h EXCEPT !.waits = h.waits \ {c.from}].waits = h.waits \ {c.from}
        BY DEF Handlers
      <4> QED
        BY <4>1
    <3>3. job' = [job EXCEPT ![o][n] = k]
      BY <1>1, <2>1, <3>1, <3>2 DEF MailTypes
    <3>4. FedHandler(o, n, k, calls')
      <4>1. FedHandler(o, n, h, calls)
        BY <2>1 DEF FedAll
      <4>2. ASSUME NEW m \in k.waits PROVE FedBy(o, n, m, calls')
        <5>1. m \in h.waits /\ m # c.from
          BY <3>2
        <5>2. FedBy(o, n, m, calls)
          BY <2>2, <4>1, <5>1 DEF FedHandler
        <5>3. PICK d \in calls : /\ d.op = o
                                 /\ \/ d.kind = "fetch" /\ d.from = n /\ d.to = m
                                    \/ d.kind = "fetched" /\ d.from = m /\ d.to = n
          BY <5>2 DEF FedBy
        <5>4. d # c
          BY <2>2, <5>1, <5>3
        <5> QED
          BY <3>1, <5>3, <5>4 DEF FedBy
      <4>3. k.waits # {}
        BY <2>5, <3>2 DEF AllAnswered
      <4> QED
        BY <4>2, <4>3 DEF FedHandler
    <3>5. FedElsewhere(o, n, calls')
      BY <2>3, <3>1
    <3> QED
      BY <1>1, <3>3, <3>4, <3>5, FedStep
  <2> QED
    BY <2>4, <2>5
<1> QED
  BY <1>3, <1>4

LEMMA FetchFed ==
    ASSUME MailInv, FedAll, NEW c \in calls, FetchFullProfile(c)
    PROVE  FedAll'
<1>1. /\ UNCHANGED job /\ c.kind = "fetch"
      /\ calls' = (calls \ {c}) \cup {Call("fetched", c.op, c.to, c.from, profiles[c.to])}
  BY DEF FetchFullProfile
<1>2. ASSUME NEW o \in Ops, NEW n \in Group, NEW m, FedBy(o, n, m, calls)
      PROVE  FedBy(o, n, m, calls')
  <2>1. PICK d \in calls : /\ d.op = o
                           /\ \/ d.kind = "fetch" /\ d.from = n /\ d.to = m
                              \/ d.kind = "fetched" /\ d.from = m /\ d.to = n
    BY <1>2 DEF FedBy
  <2>2. CASE d # c
    BY <1>1, <2>1, <2>2 DEF FedBy
  <2>3. CASE d = c
    <3>1. PICK a \in calls' : a = Call("fetched", c.op, c.to, c.from, profiles[c.to])
      BY <1>1
    <3>2. a.kind = "fetched" /\ a.op = c.op /\ a.from = c.to /\ a.to = c.from
      BY <3>1, CallFields
    <3> QED
      BY <1>1, <2>1, <2>3, <3>2 DEF FedBy
  <2> QED
    BY <2>2, <2>3
<1> QED
  BY <1>1, <1>2, FedQuiet

LEMMA AnswerFed ==
    ASSUME MailInv, FedAll, NEW c \in calls, DirectAnswer(c) \/ ReplAnswer(c) \/ Unexpected(c)
    PROVE  FedAll'
<1>1. MailTypes /\ CallOK(c)
  BY DEF MailInv
<1>2. PICK o \in Ops, n \in Group : o = c.op /\ n = c.to
  BY <1>1 DEF CallOK
<1>3. c.kind = "answer"
  BY DEF DirectAnswer, ReplAnswer, Unexpected
<1>4. calls \ {c} \subseteq calls'
  BY DEF DirectAnswer, ReplAnswer, Unexpected
<1>5. FedElsewhere(o, n, calls')
  <2>1. FedElsewhere(o, n, calls \ {c})
    BY <1>3, WithoutCall
  <2>2. PICK C : C = calls \ {c}
    OBVIOUS
  <2> QED
    BY <1>4, <2>1, <2>2, FedMore
<1>6. CASE Unexpected(c)
  <2>1. PICK h : h = job[o][n]
    OBVIOUS
  <2>2. job' = [job EXCEPT ![o][n] = h]
    BY <1>1, <1>6, <2>1 DEF Unexpected, MailTypes
  <2>3. h.stage # "restoring"
    BY <1>2, <1>6, <2>1 DEF Unexpected
  <2> QED
    BY <1>1, <1>5, <2>2, <2>3, FedStep DEF FedHandler
<1>7. CASE DirectAnswer(c)
  <2>1. PICK h : job' = [job EXCEPT ![o][n] = h] /\ h.stage # "restoring"
    <3>1. PICK g : g = job[o][n]
      OBVIOUS
    <3>2. Handler("told", g.origin, {}, 0, c.body).stage # "restoring"
      BY DEF Handler
    <3>3. AfterEntry(o, n, g.origin, g.res).stage # "restoring"
      BY DEF AfterEntry, Handler
    <3>4. \/ job' = [job EXCEPT ![o][n] = Handler("told", g.origin, {}, 0, c.body)]
          \/ job' = [job EXCEPT ![o][n] = AfterEntry(o, n, g.origin, g.res)]
      BY <1>2, <1>7, <3>1 DEF DirectAnswer
    <3> QED
      BY <3>2, <3>3, <3>4
  <2> QED
    BY <1>1, <1>5, <2>1, FedStep DEF FedHandler
<1>8. CASE ReplAnswer(c)
  <2>1. PICK h : job' = [job EXCEPT ![o][n] = h] /\ h.stage # "restoring"
    <3>1. PICK g, matched, waits :
            /\ g = job[o][n] /\ matched = g.matched + (IF c.body = g.res THEN 1 ELSE 0)
            /\ waits = g.waits \ {c.from}
      OBVIOUS
    <3>2. PICK h : h = IF MailMajority(matched) THEN Handler("told", g.origin, {}, matched, g.res)
                       ELSE IF Cardinality(waits) + matched < ReplFactor \div 2
                         THEN Handler("told", g.origin, {}, matched, Result("nomajority", <<>>))
                       ELSE Handler("replicating", g.origin, waits, matched, g.res)
      OBVIOUS
    <3>3. h.stage # "restoring"
      BY <3>2 DEF Handler
    <3>4. job' = [job EXCEPT ![o][n] = h]
      BY <1>2, <1>8, <3>1, <3>2 DEF ReplAnswer
    <3> QED
      BY <3>3, <3>4
  <2> QED
    BY <1>1, <1>5, <2>1, FedStep DEF FedHandler
<1> QED
  BY <1>6, <1>7, <1>8

LEMMA NextFed ==
    ASSUME MailInv, lost + reboots = 0 => FedAll, [MailNext]_mailVars, lost' + reboots' = 0
    PROVE  FedAll'
<1>1. MailTypes
  BY DEF MailInv
<1>2. CASE UNCHANGED <<lost, reboots>>
  <2>1. FedAll
    BY <1>2
  <2>2. ASSUME NEW o \in Ops, NEW n \in Group, NEW origin \in {"client", "self"},
               Submit(o, n, origin)
        PROVE  FedAll'
    <3>1. Execute(o, n, origin, n, calls)
      BY <2>2 DEF Submit
    <3>2. FedElsewhere(o, n, calls)
      BY DEF FedElsewhere
    <3> QED
      BY <1>1, <2>1, <3>1, <3>2, ExecuteFed
  <2>3. ASSUME NodeStep PROVE FedAll'
    BY <2>1, <2>3, CallStepFed, FetchFed, AnswerFed DEF NodeStep
  <2>4. ASSUME \/ \E n \in Group : Connect(n)
               \/ Subscribe
               \/ UNCHANGED mailVars
        PROVE  FedAll'
    <3>1. UNCHANGED <<job, calls>>
      BY <2>4 DEF Connect, Subscribe, mailVars
    <3> QED
      BY <2>1, <3>1, FedQuiet
  <2>5. ASSUME Leave PROVE FedAll'
    <3>1. UNCHANGED calls
      BY <2>5 DEF Leave
    <3>2. ASSUME NEW o \in Ops, NEW n \in Group
          PROVE  job'[o][n].stage = job[o][n].stage /\ job'[o][n].waits = job[o][n].waits
      <4>1. PICK h \in Handlers : h = job[o][n]
        BY <1>1 DEF MailTypes
      <4>2. job'[o][n] = [h EXCEPT !.origin = IF h.origin = "self" THEN "left" ELSE h.origin]
        BY <2>5, <4>1 DEF Leave
      <4> QED
        BY <4>1, <4>2 DEF Handlers
    <3> QED
      BY <2>1, <3>1, <3>2, FedQuiet
  <2>6. ASSUME NEW n \in Group, RestartNode(n) PROVE FALSE
    BY <1>1, <1>2, <2>6 DEF RestartNode, MailTypes
  <2>7. ASSUME NEW c \in calls, LoseCall(c) PROVE FALSE
    BY <1>1, <1>2, <2>7 DEF LoseCall, MailTypes
  <2> QED
    BY <2>2, <2>3, <2>4, <2>5, <2>6, <2>7 DEF MailNext
<1>3. CASE ~UNCHANGED <<lost, reboots>>
  <2>1. (\E n \in Group : RestartNode(n)) \/ (\E c \in calls : LoseCall(c))
    BY <1>3 DEF MailNext, NodeStep, Submit, HandleCall, FetchFullProfile, Restore, DirectAnswer,
                ReplAnswer, Unexpected, unchangedByNodes, Connect, Subscribe, Leave, mailVars
  <2>2. lost' + reboots' = lost + reboots + 1
    BY <1>1, <2>1 DEF RestartNode, LoseCall, MailTypes
  <2> QED
    BY <1>1, <2>2 DEF MailTypes
<1> QED
  BY <1>2, <1>3

\* Nodes that restore a profile from each other wait only for what is on its way: Retry in
\* handlers/retry.rs asks every other node once, and answering needs nothing but the node.
THEOREM RestoringIsFedHolds == MailSpec => []RestoringIsFed
<1> DEFINE Fed == lost + reboots = 0 => FedAll
<1>1. MailInit => MailInv /\ Fed
  <2> SUFFICES ASSUME MailInit PROVE MailInv /\ FedAll
    OBVIOUS
  <2>1. \A o \in Ops, n \in Group : job[o][n].stage = "idle"
    BY IdleFacts DEF MailInit
  <2> QED
    BY <2>1, InitMailInv DEF FedAll, FedHandler
<1>2. MailInv /\ Fed /\ [MailNext]_mailVars => (MailInv /\ Fed)'
  BY NextMailInv, NextFed
<1>3. MailInv /\ Fed => RestoringIsFed
  BY DEF RestoringIsFed, FedAll, FedHandler, FedBy
<1> QED
  BY <1>1, <1>2, <1>3, PTL DEF MailSpec
=============================================================================
