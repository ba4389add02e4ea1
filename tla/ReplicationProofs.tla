------------------------- MODULE ReplicationProofs -------------------------
(* Proofs about Replication: what a client is told has the majority it claims. *)
EXTENDS Replication, FiniteSetTheorems, TLAPS

Calls   == [Remotes -> {"none", "sent", "answered", "lost"}]
Runs    == [Remotes -> Results \cup {Nothing}]
Answers == [kind : {"Untold", "Inner", "Response"} \cup ReplErrors,
            result : Results \cup {Nothing}]

\* The state of one request: handler h, answer a, calls c and results e.  The set ongoing
\* holds exactly the calls without an answer, and matched counts the answers that agree.
Sound(h, a, c, e) ==
    /\ h.tag \in {"New", "Resolving"} => \A p \in Remotes : c[p] = "none"
    /\ \A p \in Remotes : c[p] = "none" => e[p] = Nothing
    /\ \A p \in Remotes : c[p] = "answered" => e[p] # Nothing
    /\ h.tag = "Replicating" =>
          /\ h.response \in Oks
          /\ \A p \in Remotes : p \in h.ongoing <=> c[p] \in {"sent", "lost"}
          /\ h.matched = Cardinality(Agreeing(c, e, h.response))
          /\ h.matched <= Majority
    /\ h.tag # "Gone" => a = Untold
    /\ a.kind = "Response" => Cardinality(Agreeing(c, e, a.result)) > Majority
    /\ a.kind = "NoMajority" => Cardinality(Possible(c, e, a.result)) <= Majority
    /\ a.kind \in {"Response", "NoMajority"} => a.result \in Oks

\* The state of one request has its types, and at most RF nodes are asked.
Typed(h, a, c, e) == /\ h \in Handlers /\ a \in Answers /\ c \in Calls /\ e \in Runs
                     /\ h.matched + Cardinality(h.ongoing) <= RF

\* The invariant of one request.
Good(h, a, c, e) == Typed(h, a, c, e) /\ Sound(h, a, c, e)

\* The inductive invariant: every request is Good, and the variables are functions.
AllGood ==
    /\ handler = [r \in Requests |-> handler[r]] /\ answer = [r \in Requests |-> answer[r]]
    /\ calls = [r \in Requests |-> calls[r]] /\ executed = [r \in Requests |-> executed[r]]
    /\ \A r \in Requests : Good(handler[r], answer[r], calls[r], executed[r])

-----------------------------------------------------------------------------
(* Lemmas about one request *)

\* A set of nodes has a size, and a smaller set a smaller one.
LEMMA PeerSets ==
    /\ \A S \in SUBSET Remotes : IsFiniteSet(S) /\ Cardinality(S) \in Nat
    /\ \A S, T \in SUBSET Remotes : S \subseteq T => Cardinality(S) <= Cardinality(T)
    /\ \A S \in SUBSET Remotes, p \in Remotes :
          /\ p \in S => Cardinality(S \ {p}) = Cardinality(S) - 1
          /\ p \notin S => Cardinality(S \cup {p}) = Cardinality(S) + 1
    /\ \A S, T \in SUBSET Remotes : Cardinality(S \cup T) <= Cardinality(S) + Cardinality(T)
<1>1. \A S \in SUBSET Remotes : IsFiniteSet(S) /\ Cardinality(S) \in Nat
  BY ReplicationAssumption, FS_Subset, FS_CardinalityType
<1>2. \A S, T \in SUBSET Remotes : S \subseteq T => Cardinality(S) <= Cardinality(T)
  BY <1>1, FS_Subset
<1>3. \A S \in SUBSET Remotes, p \in Remotes :
          /\ p \in S => Cardinality(S \ {p}) = Cardinality(S) - 1
          /\ p \notin S => Cardinality(S \cup {p}) = Cardinality(S) + 1
  BY <1>1, FS_AddElement, FS_RemoveElement
<1>4. ASSUME NEW S \in SUBSET Remotes, NEW T \in SUBSET Remotes
      PROVE  Cardinality(S \cup T) <= Cardinality(S) + Cardinality(T)
  <2>1. Cardinality(S \cup T) = Cardinality(S) + Cardinality(T) - Cardinality(S \cap T)
    BY <1>1, FS_Union
  <2>2. Cardinality(S) \in Nat /\ Cardinality(T) \in Nat /\ Cardinality(S \cap T) \in Nat
    BY <1>1
  <2> QED BY <2>1, <2>2
<1> QED BY <1>1, <1>2, <1>3, <1>4

\* Majority is a number.
LEMMA MajorityType == Majority \in Nat
BY ReplicationAssumption DEF Majority

\* Before a request is executed nobody has been asked, and it is Good.
LEMMA NewGood ==
    ASSUME NEW c \in Calls, NEW e \in Runs,
           \A p \in Remotes : c[p] = "none" /\ e[p] = Nothing
    PROVE  Good(New, Untold, c, e) /\ Good(Resolving, Untold, c, e)
<1>1. New \in Handlers /\ Resolving \in Handlers /\ Untold \in Answers
  BY DEF New, Resolving, Idle, Handlers, Untold, Told, Answers
<1>2. Cardinality({}) = 0
  BY FS_EmptySet
<1> QED BY <1>1, <1>2, ReplicationAssumption
    DEF Good, Typed, Sound, New, Resolving, Idle, Untold, Told

\* A request that ends before other nodes are asked is Good.
LEMMA EarlyGood ==
    ASSUME NEW c \in Calls, NEW e \in Runs, NEW kind \in {"Inner", "InvalidTopic"},
           NEW v \in Errs \cup {Nothing},
           \A p \in Remotes : c[p] = "none" /\ e[p] = Nothing
    PROVE  Good(Gone, Told(kind, v), c, e)
<1>1. Gone \in Handlers /\ Told(kind, v) \in Answers
  BY DEF Gone, Idle, Handlers, Told, Answers, ReplErrors, Results
<1>2. Cardinality({}) = 0
  BY FS_EmptySet
<1> QED BY <1>1, <1>2, ReplicationAssumption DEF Good, Typed, Sound, Gone, Idle, Told

\* When the others are asked, those that were not refused are waited for.
LEMMA AskedGood ==
    ASSUME NEW e \in Runs, \A p \in Remotes : e[p] = Nothing, NEW v \in Oks,
           NEW asked \in SUBSET Remotes, NEW dropped \in SUBSET asked, Cardinality(asked) <= RF,
           NEW c, c = [p \in Remotes |-> IF p \in dropped THEN "lost"
                                       ELSE IF p \in asked THEN "sent" ELSE "none"]
    PROVE  Good(Replicating(v, asked, 0), Untold, c, e)
<1> DEFINE h == Replicating(v, asked, 0)
<1>1. c \in Calls
  BY DEF Calls
<1>2. h \in Handlers /\ Untold \in Answers
  BY DEF Replicating, Handlers, Untold, Told, Answers
<1>3. h.matched + Cardinality(h.ongoing) <= RF
  <2>1. Cardinality(asked) \in Nat
    BY PeerSets
  <2> QED BY <2>1, ReplicationAssumption DEF Replicating
<1>4. Agreeing(c, e, v) = {}
  BY DEF Agreeing
<1>5. Cardinality(Agreeing(c, e, v)) = 0
  BY <1>4, FS_EmptySet
<1>6. \A p \in Remotes : p \in h.ongoing <=> c[p] \in {"sent", "lost"}
  BY DEF Replicating
<1> QED BY <1>1, <1>2, <1>3, <1>5, <1>6, MajorityType DEF Good, Typed, Sound, Replicating, Untold, Told

\* Another node computes a result: no answer, and no possible answer, is added.
LEMMA ExecuteGood ==
    ASSUME NEW h, NEW a, NEW c, NEW e, Good(h, a, c, e), NEW p \in Remotes, c[p] = "sent",
           e[p] = Nothing, NEW v \in Results
    PROVE  Good(h, a, c, [e EXCEPT ![p] = v])
<1> DEFINE e2 == [e EXCEPT ![p] = v]
<1>1. c \in Calls /\ e \in Runs /\ e2 \in Runs
  BY DEF Good, Typed, Runs
<1>2. e2[p] = v /\ \A q \in Remotes : q # p => e2[q] = e[q]
  BY <1>1 DEF Runs
<1>3. v # Nothing
  BY ResultAssumption DEF Results
<1> HIDE DEF e2
<1>4. ASSUME NEW w PROVE Agreeing(c, e2, w) = Agreeing(c, e, w)
  BY <1>2 DEF Agreeing
<1>5. ASSUME NEW w PROVE Cardinality(Possible(c, e2, w)) <= Cardinality(Possible(c, e, w))
  <2>1. Possible(c, e2, w) \subseteq Possible(c, e, w)
    BY <1>2, <1>3 DEF Possible
  <2>2. Possible(c, e, w) \in SUBSET Remotes /\ Possible(c, e2, w) \in SUBSET Remotes
    BY DEF Possible
  <2> QED BY <2>1, <2>2, PeerSets
<1>6. \A w : Cardinality(Possible(c, e2, w)) \in Nat /\ Cardinality(Possible(c, e, w)) \in Nat
  <2> TAKE w
  <2>1. Possible(c, e, w) \in SUBSET Remotes /\ Possible(c, e2, w) \in SUBSET Remotes
    BY DEF Possible
  <2> QED BY <2>1, PeerSets
<1>7. \A q \in Remotes : c[q] = "none" => e2[q] = Nothing
  BY <1>2 DEF Good, Sound
<1>8. \A q \in Remotes : c[q] = "answered" => e2[q] # Nothing
  BY <1>2, <1>3 DEF Good, Sound
<1>9. Sound(h, a, c, e2)
  BY <1>4, <1>5, <1>6, <1>7, <1>8, MajorityType DEF Good, Sound
<1> QED BY <1>1, <1>9 DEF Good, Typed, e2

\* A stream fails: its call is waited for as before, and has no answer.
LEMMA LostGood ==
    ASSUME NEW h, NEW a, NEW c, NEW e, Good(h, a, c, e), NEW p \in Remotes, c[p] = "sent"
    PROVE  Good(h, a, [c EXCEPT ![p] = "lost"], e)
<1> DEFINE c2 == [c EXCEPT ![p] = "lost"]
<1>1. c \in Calls /\ c2 \in Calls
  BY DEF Good, Typed, Calls
<1>2. c2[p] = "lost" /\ \A q \in Remotes : q # p => c2[q] = c[q]
  BY <1>1 DEF Calls
<1> HIDE DEF c2
<1>3. ASSUME NEW w PROVE Agreeing(c2, e, w) = Agreeing(c, e, w)
  BY <1>2 DEF Agreeing
<1>4. ASSUME NEW w PROVE Possible(c2, e, w) = Possible(c, e, w)
  BY <1>2 DEF Possible
<1>5. Sound(h, a, c2, e)
  BY <1>2, <1>3, <1>4 DEF Good, Sound
<1> QED BY <1>1, <1>5 DEF Good, Typed, c2

\* An answer is counted exactly when it agrees.
LEMMA AnswerCounts ==
    ASSUME NEW h, NEW a, NEW c, NEW e, Good(h, a, c, e), NEW p \in Remotes, c[p] = "sent",
           h.tag = "Replicating"
    PROVE  Cardinality(Agreeing([c EXCEPT ![p] = "answered"], e, h.response))
              = Matched(h, e[p])
<1> DEFINE c2 == [c EXCEPT ![p] = "answered"]
           S  == Agreeing(c, e, h.response)
<1>1. c2[p] = "answered" /\ \A q \in Remotes : q # p => c2[q] = c[q]
  BY DEF Good, Typed, Calls
<1>2. S \in SUBSET Remotes /\ p \notin S
  BY DEF Agreeing
<1>3. h.matched = Cardinality(S)
  BY DEF Good, Sound
<1> HIDE DEF c2
<1>4. CASE e[p] = h.response
  <2>1. Agreeing(c2, e, h.response) = S \cup {p}
    BY <1>1, <1>4 DEF Agreeing
  <2>2. Cardinality(S \cup {p}) = Cardinality(S) + 1
    BY <1>2, PeerSets
  <2> QED BY <2>1, <2>2, <1>3, <1>4 DEF Matched, c2
<1>5. CASE e[p] # h.response
  <2>1. Agreeing(c2, e, h.response) = S
    BY <1>1, <1>5 DEF Agreeing
  <2>2. Cardinality(S) \in Nat
    BY <1>2, PeerSets
  <2> QED BY <2>1, <2>2, <1>3, <1>5 DEF Matched, c2
<1> QED BY <1>4, <1>5

\* The answer arrives after the request has left the nest.
LEMMA LateAnswerGood ==
    ASSUME NEW h, NEW a, NEW c, NEW e, Good(h, a, c, e), NEW p \in Remotes, c[p] = "sent",
           e[p] # Nothing, h.tag # "Replicating" \/ p \notin h.ongoing
    PROVE  Good(h, a, [c EXCEPT ![p] = "answered"], e)
<1> DEFINE c2 == [c EXCEPT ![p] = "answered"]
<1>1. c \in Calls /\ c2 \in Calls
  BY DEF Good, Typed, Calls
<1>2. c2[p] = "answered" /\ \A q \in Remotes : q # p => c2[q] = c[q]
  BY <1>1 DEF Calls
<1>3. h.tag = "Gone"
  BY DEF Good, Sound, Typed, Handlers
<1> HIDE DEF c2
<1>4. ASSUME NEW w PROVE Cardinality(Agreeing(c, e, w)) <= Cardinality(Agreeing(c2, e, w))
  <2>1. Agreeing(c, e, w) \subseteq Agreeing(c2, e, w)
    BY <1>2 DEF Agreeing
  <2>2. Agreeing(c, e, w) \in SUBSET Remotes /\ Agreeing(c2, e, w) \in SUBSET Remotes
    BY DEF Agreeing
  <2> QED BY <2>1, <2>2, PeerSets
<1>5. \A w : Cardinality(Agreeing(c2, e, w)) \in Nat /\ Cardinality(Agreeing(c, e, w)) \in Nat
  <2> TAKE w
  <2>1. Agreeing(c, e, w) \in SUBSET Remotes /\ Agreeing(c2, e, w) \in SUBSET Remotes
    BY DEF Agreeing
  <2> QED BY <2>1, PeerSets
<1>6. ASSUME NEW w PROVE Possible(c2, e, w) = Possible(c, e, w)
  BY <1>2 DEF Possible
<1>7. \A q \in Remotes : c2[q] = "none" => e[q] = Nothing
  BY <1>2 DEF Good, Sound
<1>8. \A q \in Remotes : c2[q] = "answered" => e[q] # Nothing
  BY <1>2 DEF Good, Sound
<1>9. Sound(h, a, c2, e)
  BY <1>3, <1>4, <1>5, <1>6, <1>7, <1>8, MajorityType DEF Good, Sound
<1> QED BY <1>1, <1>9 DEF Good, Typed, c2

\* The answer is the one that completes the majority.
LEMMA SuccessGood ==
    ASSUME NEW h, NEW a, NEW c, NEW e, Good(h, a, c, e), NEW p \in Remotes, c[p] = "sent",
           e[p] # Nothing, h.tag = "Replicating", Succeeded(h, e[p])
    PROVE  Good(Gone, Told("Response", e[p]), [c EXCEPT ![p] = "answered"], e)
<1> DEFINE c2 == [c EXCEPT ![p] = "answered"]
<1>1. c2 \in Calls /\ e \in Runs
  BY DEF Good, Typed, Calls
<1>2. c2[p] = "answered" /\ \A q \in Remotes : q # p => c2[q] = c[q]
  BY DEF Good, Typed, Calls
<1>3. h.matched \in Nat /\ h.matched <= Majority /\ h.response \in Oks
  BY DEF Good, Typed, Sound, Handlers
<1>4. e[p] = h.response
  BY <1>3, MajorityType DEF Succeeded, Matched
<1>5. Cardinality(Agreeing(c2, e, e[p])) > Majority
  BY <1>4, AnswerCounts DEF Succeeded
<1> HIDE DEF c2
<1>6. Gone \in Handlers /\ Told("Response", e[p]) \in Answers
  BY <1>3, <1>4 DEF Gone, Idle, Handlers, Told, Answers, Results
<1>7. Typed(Gone, Told("Response", e[p]), c2, e)
  BY <1>1, <1>6, FS_EmptySet, ReplicationAssumption DEF Typed, Gone, Idle
<1>8. \A q \in Remotes : /\ c2[q] = "none" => e[q] = Nothing
                         /\ c2[q] = "answered" => e[q] # Nothing
  BY <1>2 DEF Good, Sound
<1>9. Sound(Gone, Told("Response", e[p]), c2, e)
  BY <1>3, <1>4, <1>5, <1>8 DEF Sound, Told, Gone, Idle
<1> QED BY <1>7, <1>9 DEF Good, c2

\* The answers still to come cannot complete a majority.
LEMMA HopelessGood ==
    ASSUME NEW h, NEW a, NEW c, NEW e, Good(h, a, c, e), NEW p \in Remotes, c[p] = "sent",
           e[p] # Nothing, h.tag = "Replicating", Hopeless(h, p, e[p])
    PROVE  Good(Gone, Told("NoMajority", h.response), [c EXCEPT ![p] = "answered"], e)
<1> DEFINE c2 == [c EXCEPT ![p] = "answered"]
           S  == Agreeing(c2, e, h.response)
           T  == Ongoing(h, p)
           U  == Possible(c2, e, h.response)
<1>1. c \in Calls /\ c2 \in Calls /\ e \in Runs
  BY DEF Good, Typed, Calls
<1>2. c2[p] = "answered" /\ \A q \in Remotes : q # p => c2[q] = c[q]
  BY <1>1 DEF Calls
<1>3. h.response \in Oks /\ h.ongoing \in SUBSET Remotes
  BY DEF Good, Typed, Sound, Handlers
<1>4. Cardinality(S) = Matched(h, e[p])
  BY AnswerCounts
<1> HIDE DEF c2
<1>5. U \subseteq S \cup T
  <2> SUFFICES ASSUME NEW q \in Remotes, c2[q] # "none", e[q] \in {h.response, Nothing}
               PROVE  q \in S \cup T
    BY DEF Possible
  <2>1. CASE q = p
    BY <2>1, <1>2 DEF Agreeing
  <2>2. CASE q # p /\ c[q] = "answered"
    BY <2>2, <1>2 DEF Good, Sound, Agreeing
  <2>3. CASE q # p /\ c[q] \in {"sent", "lost"}
    BY <2>3 DEF Good, Sound, Ongoing
  <2> QED BY <2>1, <2>2, <2>3, <1>1, <1>2 DEF Calls
<1>6. S \in SUBSET Remotes /\ T \in SUBSET Remotes /\ U \in SUBSET Remotes
  BY <1>3 DEF Agreeing, Possible, Ongoing
<1>7. Cardinality(U) <= Majority
  <2> HIDE DEF S, T, U
  <2>1. Cardinality(U) <= Cardinality(S \cup T)
    BY <1>5, <1>6, PeerSets
  <2>2. Cardinality(S \cup T) <= Cardinality(S) + Cardinality(T)
    BY <1>6, PeerSets
  <2>3. Cardinality(T) + Cardinality(S) < Majority
    BY <1>4 DEF Hopeless, T
  <2>4. Cardinality(U) \in Nat /\ Cardinality(S) \in Nat /\ Cardinality(T) \in Nat
        /\ Cardinality(S \cup T) \in Nat
    BY <1>6, PeerSets
  <2> QED BY <2>1, <2>2, <2>3, <2>4, MajorityType
<1>8. Gone \in Handlers /\ Told("NoMajority", h.response) \in Answers
  BY <1>3 DEF Gone, Idle, Handlers, Told, Answers, Results, ReplErrors
<1>9. Typed(Gone, Told("NoMajority", h.response), c2, e)
  BY <1>1, <1>8, FS_EmptySet, ReplicationAssumption DEF Typed, Gone, Idle
<1>10. \A q \in Remotes : /\ c2[q] = "none" => e[q] = Nothing
                          /\ c2[q] = "answered" => e[q] # Nothing
  BY <1>2 DEF Good, Sound
<1>11. Sound(Gone, Told("NoMajority", h.response), c2, e)
  BY <1>3, <1>7, <1>10 DEF Sound, Told, Gone, Idle
<1> QED BY <1>9, <1>11 DEF Good, c2

\* The handler counts the answer and goes on waiting.
LEMMA WaitingGood ==
    ASSUME NEW h, NEW a, NEW c, NEW e, Good(h, a, c, e), NEW p \in Remotes, c[p] = "sent",
           e[p] # Nothing, h.tag = "Replicating", p \in h.ongoing, ~Succeeded(h, e[p])
    PROVE  Good(Replicating(h.response, Ongoing(h, p), Matched(h, e[p])), a,
                [c EXCEPT ![p] = "answered"], e)
<1> DEFINE c2 == [c EXCEPT ![p] = "answered"]
           g  == Replicating(h.response, Ongoing(h, p), Matched(h, e[p]))
<1>1. c \in Calls /\ c2 \in Calls /\ e \in Runs /\ a \in Answers
  BY DEF Good, Typed, Calls
<1>2. c2[p] = "answered" /\ \A q \in Remotes : q # p => c2[q] = c[q]
  BY <1>1 DEF Calls
<1>3. h.response \in Oks /\ h.ongoing \in SUBSET Remotes /\ h.matched \in Nat /\ a = Untold
  BY DEF Good, Typed, Sound, Handlers
<1>4. Cardinality(Agreeing(c2, e, h.response)) = Matched(h, e[p])
  BY AnswerCounts
<1>5. Matched(h, e[p]) \in Nat /\ Matched(h, e[p]) <= h.matched + 1
  BY <1>3 DEF Matched
<1>6. Matched(h, e[p]) <= Majority
  BY <1>5, MajorityType DEF Succeeded
<1> HIDE DEF c2
<1>7. g \in Handlers
  BY <1>3, <1>5 DEF Handlers, Replicating, Ongoing
<1>8. Matched(h, e[p]) + Cardinality(Ongoing(h, p)) <= RF
  <2>1. Cardinality(Ongoing(h, p)) = Cardinality(h.ongoing) - 1
    BY <1>3, PeerSets DEF Ongoing
  <2>2. Cardinality(h.ongoing) \in Nat /\ h.matched + Cardinality(h.ongoing) <= RF
    BY <1>3, PeerSets DEF Good, Typed
  <2> QED BY <2>1, <2>2, <1>3, <1>5, ReplicationAssumption
<1>9. Typed(g, a, c2, e)
  BY <1>1, <1>7, <1>8 DEF Typed, Replicating
<1>10. \A q \in Remotes : q \in Ongoing(h, p) <=> c2[q] \in {"sent", "lost"}
  BY <1>2 DEF Good, Sound, Ongoing
<1>11. \A q \in Remotes : /\ c2[q] = "none" => e[q] = Nothing
                          /\ c2[q] = "answered" => e[q] # Nothing
  BY <1>2 DEF Good, Sound
<1>12. Sound(g, a, c2, e)
  BY <1>3, <1>4, <1>6, <1>10, <1>11 DEF Sound, Replicating, Untold, Told
<1> QED BY <1>9, <1>12 DEF Good, c2

-----------------------------------------------------------------------------
(* The specification *)

\* Before a request is executed, no node has been asked or has computed anything.
LEMMA BeforeAsking ==
    ASSUME AllGood, NEW r \in Requests, handler[r] \in {New, Resolving}
    PROVE  /\ calls[r] \in Calls /\ executed[r] \in Runs /\ answer[r] = Untold
           /\ \A p \in Remotes : calls[r][p] = "none" /\ executed[r][p] = Nothing
BY DEF AllGood, Good, Typed, Sound, New, Resolving, Idle

\* All requests are new in the beginning.
LEMMA InitGood == ReplInit => AllGood
<1> SUFFICES ASSUME ReplInit, NEW r \in Requests
             PROVE  Good(handler[r], answer[r], calls[r], executed[r])
  BY DEF ReplInit, AllGood
<1>1. calls[r] \in Calls /\ executed[r] \in Runs
  BY DEF ReplInit, Calls, Runs
<1> QED BY <1>1, NewGood DEF ReplInit

\* A step that executes the request of a client, without an answer of another node.
LEMMA OwnStepGood ==
    ASSUME AllGood, NEW r \in Requests,
           InvalidTopic(r) \/ Suspend(r) \/ Fail(r) \/ Replicate(r)
    PROVE  AllGood'
<1>1. handler[r] \in {New, Resolving}
  BY DEF InvalidTopic, Suspend, Fail, Replicate
<1>2. /\ calls[r] \in Calls /\ executed[r] \in Runs /\ answer[r] = Untold
      /\ \A p \in Remotes : calls[r][p] = "none" /\ executed[r][p] = Nothing
  BY <1>1, BeforeAsking
<1>3. CASE InvalidTopic(r)
  <2>1. Good(Gone, Told("InvalidTopic", Nothing), calls[r], executed[r])
    BY <1>2, EarlyGood
  <2> QED BY <1>3, <2>1 DEF InvalidTopic, Finish, AllGood
<1>4. CASE Suspend(r)
  <2>1. Good(Resolving, Untold, calls[r], executed[r])
    BY <1>2, NewGood
  <2> QED BY <1>2, <1>4, <2>1 DEF Suspend, AllGood
<1>5. CASE Fail(r)
  <2>1. PICK v \in Errs : Finish(r, Told("Inner", v))
    BY <1>5 DEF Fail
  <2>2. Good(Gone, Told("Inner", v), calls[r], executed[r])
    BY <1>2, EarlyGood
  <2> QED BY <1>5, <2>1, <2>2 DEF Fail, Finish, AllGood
<1>6. CASE Replicate(r)
  <2>1. PICK v \in Oks : NewReplicating(r, v)
    BY <1>6 DEF Replicate
  <2>2. PICK others \in OtherReplicators(r) :
            \E asked \in SUBSET others : \E dropped \in SUBSET asked :
                /\ Cardinality(asked) <= RF
                /\ handler' = [handler EXCEPT ![r] = Replicating(v, asked, 0)]
                /\ calls' = [calls EXCEPT ![r] = [p \in Remotes |->
                        IF p \in dropped THEN "lost" ELSE IF p \in asked THEN "sent" ELSE "none"]]
    BY <2>1 DEF NewReplicating
  <2>3. PICK asked \in SUBSET Remotes : \E dropped \in SUBSET asked :
                /\ Cardinality(asked) <= RF
                /\ handler' = [handler EXCEPT ![r] = Replicating(v, asked, 0)]
                /\ calls' = [calls EXCEPT ![r] = [p \in Remotes |->
                        IF p \in dropped THEN "lost" ELSE IF p \in asked THEN "sent" ELSE "none"]]
    BY <2>2 DEF OtherReplicators
  <2>4. PICK dropped \in SUBSET asked :
                /\ Cardinality(asked) <= RF
                /\ handler' = [handler EXCEPT ![r] = Replicating(v, asked, 0)]
                /\ calls' = [calls EXCEPT ![r] = [p \in Remotes |->
                        IF p \in dropped THEN "lost" ELSE IF p \in asked THEN "sent" ELSE "none"]]
    BY <2>3
  <2> DEFINE c == [p \in Remotes |-> IF p \in dropped THEN "lost"
                                   ELSE IF p \in asked THEN "sent" ELSE "none"]
             h == Replicating(v, asked, 0)
  <2>5. Good(h, Untold, c, executed[r])
    BY <1>2, <2>4, AskedGood
  <2>6. UNCHANGED <<answer, executed>>
    BY <1>6 DEF Replicate
  <2>7. handler' = [handler EXCEPT ![r] = h] /\ calls' = [calls EXCEPT ![r] = c]
    BY <2>4
  <2> HIDE DEF h, c
  <2> QED BY <1>2, <2>5, <2>6, <2>7 DEF AllGood
<1> QED BY <1>3, <1>4, <1>5, <1>6

\* The answer of another node arrives.
LEMMA ResponseGood ==
    ASSUME AllGood, NEW r \in Requests, NEW p \in Remotes, RemoteResponse(r, p)
    PROVE  AllGood'
<1> DEFINE h == handler[r]
           c == [calls[r] EXCEPT ![p] = "answered"]
<1>1. Good(h, answer[r], calls[r], executed[r])
  BY DEF AllGood
<1>2. /\ calls[r][p] = "sent" /\ executed[r][p] # Nothing /\ UNCHANGED executed /\ Resume(r, p)
      /\ calls' = [calls EXCEPT ![r] = c]
  BY DEF RemoteResponse
<1>3. CASE h.tag # "Replicating" \/ p \notin h.ongoing
  <2>1. Good(h, answer[r], c, executed[r])
    BY <1>1, <1>2, <1>3, LateAnswerGood
  <2>2. UNCHANGED <<handler, answer>>
    BY <1>2, <1>3 DEF Resume
  <2> HIDE DEF c
  <2> QED BY <1>2, <2>1, <2>2 DEF AllGood
<1>4. CASE /\ h.tag = "Replicating" /\ p \in h.ongoing /\ Succeeded(h, executed[r][p])
  <2>1. Good(Gone, Told("Response", executed[r][p]), c, executed[r])
    BY <1>1, <1>2, <1>4, SuccessGood
  <2>2. Finish(r, Told("Response", executed[r][p]))
    BY <1>2, <1>4 DEF Resume
  <2> HIDE DEF c
  <2> QED BY <1>2, <2>1, <2>2 DEF AllGood, Finish
<1>5. CASE /\ h.tag = "Replicating" /\ p \in h.ongoing /\ ~Succeeded(h, executed[r][p])
           /\ Hopeless(h, p, executed[r][p])
  <2>1. Good(Gone, Told("NoMajority", h.response), c, executed[r])
    BY <1>1, <1>2, <1>5, HopelessGood
  <2>2. Finish(r, Told("NoMajority", h.response))
    BY <1>2, <1>5 DEF Resume
  <2> HIDE DEF c
  <2> QED BY <1>2, <2>1, <2>2 DEF AllGood, Finish
<1>6. CASE /\ h.tag = "Replicating" /\ p \in h.ongoing /\ ~Succeeded(h, executed[r][p])
           /\ ~Hopeless(h, p, executed[r][p])
  <2> DEFINE g == Replicating(h.response, Ongoing(h, p), Matched(h, executed[r][p]))
  <2>1. Good(g, answer[r], c, executed[r])
    BY <1>1, <1>2, <1>6, WaitingGood
  <2>2. handler' = [handler EXCEPT ![r] = g] /\ UNCHANGED answer
    BY <1>2, <1>6 DEF Resume
  <2> HIDE DEF c, g
  <2> QED BY <1>2, <2>1, <2>2 DEF AllGood
<1> QED BY <1>3, <1>4, <1>5, <1>6

\* Every step keeps every request Good.
LEMMA NextGood == AllGood /\ [ReplNext]_replVars => AllGood'
<1> SUFFICES ASSUME AllGood, [ReplNext]_replVars PROVE AllGood'
  OBVIOUS
<1>1. ASSUME NEW r \in Requests, InvalidTopic(r) \/ Suspend(r) \/ Fail(r) \/ Replicate(r)
      PROVE  AllGood'
  BY <1>1, OwnStepGood
<1>2. ASSUME NEW r \in Requests, NEW p \in Remotes, Execute(r, p)
      PROVE  AllGood'
  <2>1. PICK v \in Results : executed' = [executed EXCEPT ![r][p] = v]
    BY <1>2 DEF Execute
  <2> DEFINE e == [executed[r] EXCEPT ![p] = v]
  <2>2. Good(handler[r], answer[r], calls[r], e)
    BY <1>2, ExecuteGood DEF AllGood, Execute
  <2>3. executed' = [executed EXCEPT ![r] = e] /\ UNCHANGED <<handler, answer, calls>>
    BY <1>2, <2>1 DEF Execute
  <2> HIDE DEF e
  <2> QED BY <2>2, <2>3 DEF AllGood
<1>3. ASSUME NEW r \in Requests, NEW p \in Remotes, RemoteResponse(r, p)
      PROVE  AllGood'
  BY <1>3, ResponseGood
<1>4. ASSUME NEW p \in Remotes, StreamFails(p)
      PROVE  AllGood'
  <2> DEFINE lost(r) == [calls[r] EXCEPT ![p] = "lost"]
  <2>1. /\ UNCHANGED <<handler, answer, executed>>
        /\ calls' = [r \in Requests |-> IF calls[r][p] = "sent" THEN lost(r) ELSE calls[r]]
    BY <1>4 DEF StreamFails
  <2>2. ASSUME NEW r \in Requests, calls[r][p] = "sent"
        PROVE  Good(handler[r], answer[r], lost(r), executed[r])
    BY <2>2, LostGood DEF AllGood
  <2> HIDE DEF lost
  <2> QED BY <2>1, <2>2 DEF AllGood
<1>5. ASSUME NEW r \in Requests, Overflow(r)
      PROVE  AllGood'
  BY <1>5 DEF Overflow, AllGood
<1>6. CASE UNCHANGED replVars
  BY <1>6 DEF replVars, AllGood
<1> QED BY <1>1, <1>2, <1>3, <1>4, <1>5, <1>6 DEF ReplNext

\* In every behaviour all requests are Good, for every replication factor.
THEOREM GoodHolds == ReplSpec => []AllGood
BY InitGood, NextGood, PTL DEF ReplSpec

\* The node has panicked or it has not.
UpOK == up \in BOOLEAN

\* A panic is final, no step makes it anything else.
LEMMA UpType == ReplSpec => []UpOK
<1>1. ReplInit => UpOK
  BY DEF ReplInit, UpOK
<1>2. UpOK /\ [ReplNext]_replVars => UpOK'
  BY DEF UpOK, ReplNext, replVars, InvalidTopic, Suspend, Fail, Replicate, Overflow, Execute, RemoteResponse, StreamFails
<1> QED BY <1>1, <1>2, PTL DEF ReplSpec

\* The state always has its types, and never waits for more than RF nodes.
THEOREM TypeCorrect == ReplSpec => []TypeOK
<1>1. AllGood /\ UpOK => TypeOK
  BY DEF UpOK, AllGood, Good, Typed, TypeOK, Answers, Calls, Runs
<1> QED BY <1>1, GoodHolds, UpType, PTL

\* What a client is told as a result was computed by a majority of the other nodes.
THEOREM MajorityBackedHolds == ReplSpec => []MajorityBacked
<1>1. AllGood => MajorityBacked
  BY DEF AllGood, Good, Sound, MajorityBacked
<1> QED BY <1>1, GoodHolds, PTL

\* NoMajority is told only when no majority can come about.
THEOREM NoMajorityIsCertainHolds == ReplSpec => []NoMajorityIsCertain
<1>1. AllGood => NoMajorityIsCertain
  BY DEF AllGood, Good, Sound, NoMajorityIsCertain
<1> QED BY <1>1, GoodHolds, PTL

-----------------------------------------------------------------------------
(* Replication implements MajorityCall *)

\* The nodes asked, as the abstract specification sees them.
Groups == [r \in Requests |-> Asked(calls[r])]

\* Both modules count alike.
LEMMA SameCardinality == \A S : Promise!Cardinality(S) = Cardinality(S)
BY Zenon DEF Promise!Cardinality, Cardinality

\* Executing a request asks a group of at most RF nodes.
LEMMA ReplicateAsks ==
    ASSUME AllGood, NEW r \in Requests, Replicate(r)
    PROVE  Promise!Ask(r)
<1>1. /\ answer[r] = Untold /\ UNCHANGED <<answer, executed>>
      /\ \A p \in Remotes : calls[r][p] = "none"
  BY BeforeAsking DEF Replicate
<1>2. PICK v \in Oks : NewReplicating(r, v)
  BY DEF Replicate
<1>3. PICK others \in OtherReplicators(r) :
          \E asked \in SUBSET others : \E dropped \in SUBSET asked :
              /\ Cardinality(asked) <= RF
              /\ calls' = [calls EXCEPT ![r] = [p \in Remotes |->
                      IF p \in dropped THEN "lost" ELSE IF p \in asked THEN "sent" ELSE "none"]]
  BY <1>2 DEF NewReplicating
<1>4. PICK asked \in SUBSET Remotes : \E dropped \in SUBSET asked :
              /\ Cardinality(asked) <= RF
              /\ calls' = [calls EXCEPT ![r] = [p \in Remotes |->
                      IF p \in dropped THEN "lost" ELSE IF p \in asked THEN "sent" ELSE "none"]]
  BY <1>3 DEF OtherReplicators
<1>5. PICK dropped \in SUBSET asked :
              /\ Cardinality(asked) <= RF
              /\ calls' = [calls EXCEPT ![r] = [p \in Remotes |->
                      IF p \in dropped THEN "lost" ELSE IF p \in asked THEN "sent" ELSE "none"]]
  BY <1>4
<1>6. calls = [x \in Requests |-> calls[x]]
  BY DEF AllGood
<1>7. Asked(calls'[r]) = asked
  BY <1>5, <1>6 DEF Asked
<1>8. \A x \in Requests \ {r} : calls'[x] = calls[x]
  BY <1>5, <1>6
<1>9. Groups' = [Groups EXCEPT ![r] = asked]
  BY <1>7, <1>8 DEF Groups
<1>10. Asked(calls[r]) = {}
  BY <1>1 DEF Asked
<1> QED BY <1>1, <1>5, <1>9, <1>10, SameCardinality DEF Promise!Ask, Groups, Promise!Untold, Promise!Told, Untold, Told

\* Telling a client, in a step that asks no other node.
LEMMA FinishTells ==
    ASSUME AllGood, NEW r \in Requests, NEW told, handler[r].tag # "Gone", Finish(r, told),
           UNCHANGED <<Groups, executed>>
    PROVE  Promise!Tell(r, told)
BY DEF AllGood, Good, Sound, Finish, Promise!Tell, Groups, Promise!Untold, Promise!Told, Untold, Told

\* An answer leaves the group as it is.
LEMMA ResponseGroups ==
    ASSUME AllGood, NEW r \in Requests, NEW p \in Remotes, RemoteResponse(r, p)
    PROVE  UNCHANGED <<Groups, executed>>
<1>1. calls' = [calls EXCEPT ![r][p] = "answered"] /\ calls[r][p] = "sent" /\ UNCHANGED executed
  BY DEF RemoteResponse
<1>2. calls = [x \in Requests |-> calls[x]] /\ calls[r] \in Calls
  BY DEF AllGood, Good, Typed
<1>3. \A x \in Requests \ {r} : calls'[x] = calls[x]
  BY <1>1, <1>2
<1>4. calls'[r] = [calls[r] EXCEPT ![p] = "answered"]
  BY <1>1, <1>2
<1>5. Asked(calls'[r]) = Asked(calls[r])
  BY <1>1, <1>2, <1>4 DEF Asked, Calls
<1> QED BY <1>1, <1>3, <1>5 DEF Groups

\* An answer makes the client be told a result of a majority, or that there is none, or nothing.
LEMMA ResponseTells ==
    ASSUME AllGood, AllGood', NEW r \in Requests, NEW p \in Remotes, RemoteResponse(r, p)
    PROVE  Promise!Decide(r) \/ Promise!GiveUp(r) \/ UNCHANGED <<Groups, executed, answer>>
<1> DEFINE h == handler[r]
<1>1. Resume(r, p) /\ UNCHANGED <<Groups, executed>>
  BY ResponseGroups DEF RemoteResponse
<1>2. CASE UNCHANGED answer
  BY <1>1, <1>2
<1>3. CASE h.tag = "Replicating" /\ Finish(r, Told("Response", executed[r][p]))
  <2> DEFINE v == executed[r][p]
  <2>1. answer' = [answer EXCEPT ![r] = Told("Response", v)] /\ answer = [x \in Requests |-> answer[x]]
    BY <1>3 DEF Finish, AllGood
  <2>2. answer'[r].kind = "Response" /\ answer'[r].result = v
    BY <2>1 DEF Told
  <2>3. Cardinality(Agreeing(calls'[r], executed'[r], v)) > Majority /\ v \in Oks
    BY <2>2 DEF AllGood, Good, Sound
  <2>4. Agreeing(calls'[r], executed'[r], v) \subseteq {q \in Groups[r] : executed[r][q] \in {v}}
    BY <1>1 DEF Agreeing, Groups, Asked
  <2>5. {q \in Groups[r] : executed[r][q] \in {v}} \in SUBSET Remotes /\ Agreeing(calls'[r], executed'[r], v) \in SUBSET Remotes
    BY DEF Groups, Asked, Agreeing
  <2>6. Cardinality({q \in Groups[r] : executed[r][q] \in {v}}) > Majority
    BY <2>3, <2>4, <2>5, PeerSets, MajorityType
  <2>7. Promise!Tell(r, Told("Response", v))
    BY <1>1, <1>3, FinishTells
  <2> QED BY <2>3, <2>6, <2>7, SameCardinality DEF Promise!Decide, Promise!For, Groups, Majority, Results, Promise!Told, Told
<1>4. CASE h.tag = "Replicating" /\ Finish(r, Told("NoMajority", h.response))
  <2> DEFINE v == h.response
  <2>1. answer' = [answer EXCEPT ![r] = Told("NoMajority", v)] /\ answer = [x \in Requests |-> answer[x]]
    BY <1>4 DEF Finish, AllGood
  <2>2. answer'[r].kind = "NoMajority" /\ answer'[r].result = v
    BY <2>1 DEF Told
  <2>3. Cardinality(Possible(calls'[r], executed'[r], v)) <= Majority /\ v \in Oks
    BY <2>2 DEF AllGood, Good, Sound
  <2>4. {q \in Groups'[r] : executed'[r][q] \in {v, Nothing}} = Possible(calls'[r], executed'[r], v)
    BY DEF Possible, Groups, Asked
  <2>5. Cardinality({q \in Groups[r] : executed[r][q] \in {v, Nothing}}) <= Majority
    BY <1>1, <2>3, <2>4
  <2>6. Promise!Tell(r, Told("NoMajority", v))
    BY <1>1, <1>4, FinishTells
  <2> QED BY <2>3, <2>5, <2>6, SameCardinality DEF Promise!GiveUp, Promise!For, Groups, Majority, Results, Promise!Told, Told
<1> QED BY <1>1, <1>2, <1>3, <1>4 DEF Resume

\* Every step is a step of the abstract specification or changes nothing it speaks of.
LEMMA StepKeepsPromise ==
    AllGood /\ AllGood' /\ [ReplNext]_replVars => [Promise!Next]_(Promise!promiseVars)
<1> SUFFICES ASSUME AllGood, AllGood', [ReplNext]_replVars
             PROVE  Promise!Next \/ UNCHANGED <<Groups, executed, answer>>
  BY DEF Promise!promiseVars, Groups
<1>1. ASSUME NEW r \in Requests, InvalidTopic(r) \/ Fail(r)
      PROVE  Promise!Next
  <2>1. handler[r] \in {New, Resolving} /\ UNCHANGED <<Groups, executed>>
    BY <1>1 DEF InvalidTopic, Fail, Groups
  <2>2. Groups[r] = {} /\ handler[r].tag # "Gone"
    BY <2>1, BeforeAsking DEF Groups, Asked, New, Resolving, Idle
  <2>3. PICK told \in {Told("InvalidTopic", Nothing)} \cup {Told("Inner", v) : v \in Results} :
            Finish(r, told)
    BY <1>1 DEF InvalidTopic, Fail, Results
  <2>4. Promise!Tell(r, told)
    BY <2>1, <2>2, <2>3, FinishTells
  <2>5. Promise!Reject(r)
    BY <2>2, <2>3, <2>4 DEF Promise!Reject, Groups, Promise!Told, Told
  <2> QED BY <2>5 DEF Promise!Next
<1>2. ASSUME NEW r \in Requests, Replicate(r)
      PROVE  Promise!Next
  BY <1>2, ReplicateAsks DEF Promise!Next
<1>3. ASSUME NEW r \in Requests, NEW p \in Remotes, Execute(r, p)
      PROVE  Promise!Next
  <2>1. Promise!Vote(r, p)
    BY <1>3 DEF Execute, Promise!Vote, Asked
  <2> QED BY <2>1 DEF Promise!Next
<1>4. ASSUME NEW r \in Requests, NEW p \in Remotes, RemoteResponse(r, p)
      PROVE  Promise!Next \/ UNCHANGED <<Groups, executed, answer>>
  BY <1>4, ResponseTells DEF Promise!Next
<1>5. ASSUME NEW p \in Remotes, StreamFails(p)
      PROVE  UNCHANGED <<Groups, executed, answer>>
  <2>1. /\ UNCHANGED <<executed, answer>>
        /\ calls' = [r \in Requests |-> IF calls[r][p] = "sent" THEN [calls[r] EXCEPT ![p] = "lost"]
                                                              ELSE calls[r]]
    BY <1>5 DEF StreamFails
  <2>2. ASSUME NEW r \in Requests
        PROVE  Asked(calls'[r]) = Asked(calls[r])
    <3>1. calls[r] \in Calls
      BY DEF AllGood, Good, Typed
    <3> QED BY <2>1, <3>1 DEF Asked, Calls
  <2> QED BY <2>1, <2>2 DEF Groups
<1>6. ASSUME NEW r \in Requests, Suspend(r) \/ Overflow(r)
      PROVE  UNCHANGED <<Groups, executed, answer>>
  BY <1>6 DEF Suspend, Overflow, Groups
<1>7. CASE UNCHANGED replVars
  BY <1>7 DEF replVars, Groups
<1> QED BY <1>1, <1>2, <1>3, <1>4, <1>5, <1>6, <1>7 DEF ReplNext

\* Replication implements MajorityCall: for every replication factor, network and loss a client
\* is told at most one thing, and what a vote among the nodes asked allows.
THEOREM PromiseKeptHolds == ReplSpec => PromiseKept
<1>1. ReplInit => Promise!Init
  BY DEF ReplInit, Promise!Init, Asked, Promise!Untold, Promise!Told, Untold, Told
<1>2. AllGood /\ AllGood' /\ [ReplNext]_replVars => [Promise!Next]_(Promise!promiseVars)
  BY StepKeepsPromise
<1> QED BY <1>1, <1>2, GoodHolds, PTL DEF ReplSpec, PromiseKept, Promise!Spec
=============================================================================
