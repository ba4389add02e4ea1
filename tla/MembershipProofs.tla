-------------------------- MODULE MembershipProofs --------------------------
(***************************************************************************)
(* Proofs about the staker contract, for any amounts, votes and durations, *)
(* and about the servers that follow its events.                           *)
(*                                                                         *)
(* TablesMatchStakes only speaks of servers that have handled everything.  *)
(* The invariant behind it says what a server knows on the way there       *)
(* (TableTells): it has no more routes to a node than the node has stakes  *)
(* and reclaims still to be told of, and it has a route to a staked node   *)
(* that no event still to come is about.  An event that adds a route keeps *)
(* the first because a node that joined is staked or its reclaim follows   *)
(* (LogTells).                                                             *)
(***************************************************************************)
EXTENDS Membership, FiniteSetTheorems, SequenceTheorems, TLAPS

\* The inductive invariant of the contract.
StakerInv == StakerTypeOK /\ ListMatchesStakes /\ Solvent

-----------------------------------------------------------------------------
(* Lemmas about the helpers *)

\* Absence is told apart from every stake.
LEMMA NoStakeIsNone == NoStake \notin Stakes
BY StakeAssumption DEF NoStake, Stakes

\* What is paid back is part of the stake.
LEMMA SlashBounds ==
    ASSUME NEW stake \in Stakes, stake.rating < BalanceBits
    PROVE  ApplySlashes(stake) \in 0 .. STAKE_AMOUNT
<1>1. stake.rating \in 0 .. BalanceBits
  BY StakeAssumption DEF Stakes
<1>2. 2 ^ stake.rating \in Nat /\ 2 ^ BalanceBits \in Nat \ {0}
  BY <1>1, StakeAssumption
<1>3. BASE_SLASH * 2 ^ stake.rating \in Int
  BY <1>2, StakeAssumption
<1> DEFINE x == BASE_SLASH * 2 ^ stake.rating
           y == 2 ^ BalanceBits
<1> HIDE DEF x, y
<1>4. x % y \in Nat
  BY <1>2, <1>3 DEF x, y
<1>5. Slash(stake.rating) \in Nat
  BY <1>4 DEF Slash, x, y
<1> QED BY <1>5, StakeAssumption DEF ApplySlashes

\* swap_remove takes the entry at i out and moves the last one there.
LEMMA SwapRemoveResult ==
    ASSUME NEW list \in Seq(Identities), NEW i \in 1 .. Len(list)
    PROVE  /\ SwapRemove(list, i) \in Seq(Identities)
           /\ Len(SwapRemove(list, i)) = Len(list) - 1
           /\ \A j \in 1 .. Len(list) - 1 :
                 SwapRemove(list, i)[j] = IF j = i THEN list[Len(list)] ELSE list[j]
<1> DEFINE m == [list EXCEPT ![i] = list[Len(list)]]
<1>1. Len(list) \in Nat \ {0} /\ list[Len(list)] \in Identities
  OBVIOUS
<1>2. m \in Seq(Identities) /\ Len(m) = Len(list)
  BY <1>1
<1>3. \A j \in 1 .. Len(list) : m[j] = IF j = i THEN list[Len(list)] ELSE list[j]
  BY <1>1
<1> HIDE DEF m
<1>4. SwapRemove(list, i) = SubSeq(m, 1, Len(list) - 1)
  BY DEF SwapRemove, m
<1> QED BY <1>1, <1>2, <1>3, <1>4

\* The list without an identity that it holds once.
LEMMA UnlistedResult ==
    ASSUME NEW list \in Seq(Identities), NEW identity \in Identities,
           \A j, k \in DOMAIN list : list[j] = list[k] => j = k,
           \E k \in DOMAIN list : list[k] = identity
    PROVE  \E i \in 1 .. Len(list) : /\ list[i] = identity
                                     /\ Unlisted(list, identity) = SwapRemove(list, i)
<1> DEFINE first(i) == list[i] = identity /\ \A j \in 1 .. i - 1 : list[j] # identity
           i == CHOOSE k \in DOMAIN list : first(k)
<1>1. PICK k \in DOMAIN list : list[k] = identity
  OBVIOUS
<1>2. first(k)
  <2>1. ASSUME NEW j \in 1 .. k - 1, list[j] = identity PROVE FALSE
    <3>1. j \in DOMAIN list /\ j # k
      OBVIOUS
    <3> QED BY <3>1, <2>1, <1>1
  <2> QED BY <2>1, <1>1
<1>3. i \in DOMAIN list /\ first(i)
  BY <1>2
<1>4. Unlisted(list, identity) = SwapRemove(list, i)
  BY <1>1 DEF Unlisted
<1> HIDE DEF i
<1> QED BY <1>3, <1>4

\* The list stays without duplicates, and loses exactly that identity.
LEMMA UnlistedKeeps ==
    ASSUME NEW list \in Seq(Identities), NEW identity \in Identities,
           \A j, k \in DOMAIN list : list[j] = list[k] => j = k,
           \E k \in DOMAIN list : list[k] = identity
    PROVE  LET r == Unlisted(list, identity)
           IN  /\ r \in Seq(Identities)
               /\ \A j \in DOMAIN r : /\ r[j] # identity
                                      /\ \E k \in DOMAIN list : list[k] = r[j]
               /\ \A k \in DOMAIN list : list[k] # identity =>
                     \E j \in DOMAIN r : r[j] = list[k]
               /\ \A j, k \in DOMAIN r : r[j] = r[k] => j = k
<1>1. PICK i \in 1 .. Len(list) : /\ list[i] = identity
                                  /\ Unlisted(list, identity) = SwapRemove(list, i)
  BY UnlistedResult
<1> DEFINE r == Unlisted(list, identity)
           n == Len(list)
           at(j) == IF j = i THEN n ELSE j
<1>2. /\ r \in Seq(Identities) /\ Len(r) = n - 1 /\ n \in Nat /\ DOMAIN r = 1 .. n - 1
      /\ \A j \in 1 .. n - 1 : r[j] = list[at(j)]
  <2>1. /\ SwapRemove(list, i) \in Seq(Identities)
        /\ Len(SwapRemove(list, i)) = Len(list) - 1
        /\ \A j \in 1 .. Len(list) - 1 :
              SwapRemove(list, i)[j] = IF j = i THEN list[Len(list)] ELSE list[j]
    BY SwapRemoveResult
  <2>2. /\ r \in Seq(Identities) /\ Len(r) = n - 1
        /\ \A j \in 1 .. n - 1 : r[j] = IF j = i THEN list[n] ELSE list[j]
    BY <1>1, <2>1
  <2> HIDE DEF r
  <2>3. DOMAIN r = 1 .. n - 1 /\ n \in Nat
    BY <2>2
  <2> QED BY <2>2, <2>3
<1>3. DOMAIN list = 1 .. n
  OBVIOUS
<1> HIDE DEF r
<1>4. ASSUME NEW j \in DOMAIN r
      PROVE  /\ at(j) \in DOMAIN list /\ at(j) # i /\ r[j] = list[at(j)]
  BY <1>2, <1>3
<1>5. \A j \in DOMAIN r : r[j] # identity /\ \E k \in DOMAIN list : list[k] = r[j]
  BY <1>1, <1>3, <1>4
<1>6. ASSUME NEW k \in DOMAIN list, list[k] # identity
      PROVE  \E j \in DOMAIN r : r[j] = list[k]
  <2>1. k # i
    BY <1>1, <1>6
  <2>2. CASE k = n
    <3>1. i \in DOMAIN r
      BY <1>2, <1>3, <2>1, <2>2
    <3> QED BY <3>1, <1>2, <2>2
  <2>3. CASE k # n
    <3>1. k \in DOMAIN r
      BY <1>2, <1>3, <2>3
    <3> QED BY <3>1, <1>2, <2>1
  <2> QED BY <2>2, <2>3
<1>7. ASSUME NEW j \in DOMAIN r, NEW k \in DOMAIN r, r[j] = r[k]
      PROVE  j = k
  <2>1. at(j) = at(k)
    BY <1>4, <1>7
  <2>2. j # n /\ k # n
    BY <1>2
  <2> QED BY <2>1, <2>2
<1> QED BY <1>2, <1>5, <1>6, <1>7 DEF r

-----------------------------------------------------------------------------
(* The messages *)

\* The set of staked identities is finite.
LEMMA StakedFinite == IsFiniteSet(Staked) /\ Cardinality(Staked) \in Nat
BY StakeAssumption, FS_Subset, FS_CardinalityType DEF Staked

\* The empty contract satisfies the invariant.
LEMMA InitStaker == StakerInit => StakerInv
<1> SUFFICES ASSUME StakerInit PROVE StakerInv
  OBVIOUS
<1>1. Staked = {}
  BY DEF StakerInit, Staked
<1>2. Cardinality(Staked) = 0
  BY <1>1, FS_EmptySet
<1>3. Solvent
  BY <1>2, StakeAssumption DEF Solvent, StakerInit
<1>4. ListMatchesStakes
  BY <1>1 DEF ListMatchesStakes, StakerInit
<1>5. StakerTypeOK
  BY DEF StakerTypeOK, StakerInit
<1> QED BY <1>3, <1>4, <1>5 DEF StakerInv

\* A node joins: the list and the funds grow with the stakes.
LEMMA JoinKeeps ==
    ASSUME StakerInv, NEW caller \in Owners, NEW identity \in Identities,
           NEW node \in NodeIds, Join(caller, identity, node)
    PROVE  StakerInv'
<1> USE DEF Join
<1>1. NewStake(caller, node) \in Stakes
  BY StakeAssumption DEF StakerInv, StakerTypeOK, NewStake, Stakes
<1>2. StakerTypeOK'
  <2>1. stakes' \in [Identities -> Stakes \cup {NoStake}] /\ stake_list' \in Seq(Identities)
    BY <1>1 DEF StakerInv, StakerTypeOK
  <2>2. balance' \in Nat /\ now' \in Nat
    BY StakeAssumption DEF StakerInv, StakerTypeOK
  <2>3. Event("Joined", node) \in [type : {"Joined", "Reclaimed"}, node : NodeIds]
    BY DEF Event
  <2>4. log' \in Seq([type : {"Joined", "Reclaimed"}, node : NodeIds])
    BY <2>3 DEF StakerInv, StakerTypeOK
  <2> QED BY <2>1, <2>2, <2>4 DEF StakerTypeOK
<1>3. identity \notin Staked
  BY DEF Staked
<1>4. Staked' = Staked \cup {identity}
  BY <1>1, NoStakeIsNone DEF Staked, StakerInv, StakerTypeOK
<1>5. ListMatchesStakes'
  <2>1. /\ DOMAIN stake_list = 1 .. Len(stake_list) /\ Len(stake_list) \in Nat
        /\ DOMAIN stake_list' = 1 .. Len(stake_list) + 1
        /\ stake_list'[Len(stake_list) + 1] = identity
        /\ \A k \in DOMAIN stake_list : stake_list'[k] = stake_list[k]
    BY DEF StakerInv, StakerTypeOK
  <2> QED BY <1>3, <1>4, <2>1 DEF ListMatchesStakes, StakerInv
<1>6. Solvent'
  <2>1. Cardinality(Staked') = Cardinality(Staked) + 1
    BY <1>3, <1>4, StakedFinite, FS_AddElement
  <2>2. STAKE_AMOUNT * (Cardinality(Staked) + 1) = STAKE_AMOUNT * Cardinality(Staked) + STAKE_AMOUNT
    BY StakedFinite, StakeAssumption
  <2>3. STAKE_AMOUNT * Cardinality(Staked) \in Int
    BY StakedFinite, StakeAssumption
  <2> QED BY <2>1, <2>2, <2>3, StakeAssumption DEF Solvent, StakerInv, StakerTypeOK
<1> QED BY <1>2, <1>5, <1>6 DEF StakerInv

\* A vote changes no set of stakes, and no funds.
LEMMA VoteKeeps ==
    ASSUME StakerInv, NEW caller \in Owners, NEW identity \in Identities,
           NEW target \in Identities, NEW rating \in Ratings,
           Vote(caller, identity, target, rating)
    PROVE  StakerInv'
<1>1. /\ identity \in Staked /\ target \in Staked /\ identity # target
      /\ stakes[identity] \in Stakes /\ stakes[target] \in Stakes
  BY DEF Vote, Staked, StakerInv, StakerTypeOK
<1>2. rating \in Int /\ VoteCost(rating) \in Nat
  BY StakeAssumption DEF Ratings, VoteCost, Abs
<1> DEFINE s == [stakes[identity] EXCEPT !.pool = @ - VoteCost(rating)]
           t == [stakes[target] EXCEPT !.rating = @ - rating]
<1>3. s \in Stakes
  <2>1. stakes[identity].pool - VoteCost(rating) \in Nat
    BY <1>1, <1>2 DEF Vote, Stakes
  <2> QED BY <1>1, <2>1 DEF Stakes
<1>4. t \in Stakes
  <2>1. stakes[target].rating - rating \in Nat
    BY <1>1, <1>2 DEF Vote, Stakes
  <2> QED BY <1>1, <2>1 DEF Stakes
<1>5. stakes' = [stakes EXCEPT ![identity] = s, ![target] = t]
  BY <1>1 DEF Vote
<1> HIDE DEF s, t
<1>6. stakes' \in [Identities -> Stakes \cup {NoStake}]
  BY <1>3, <1>4, <1>5 DEF StakerInv, StakerTypeOK
<1>7. Staked' = Staked
  BY <1>1, <1>3, <1>4, <1>5, NoStakeIsNone DEF Staked, StakerInv, StakerTypeOK
<1>8. UNCHANGED <<stake_list, balance, now, log>>
  BY DEF Vote
<1> QED BY <1>6, <1>7, <1>8 DEF StakerInv, StakerTypeOK, ListMatchesStakes, Solvent

\* A node leaves: the list loses its identity, the funds at most its stake.
LEMMA ReclaimKeeps ==
    ASSUME StakerInv, NEW caller \in Owners, NEW identity \in Identities,
           Reclaim(caller, identity)
    PROVE  StakerInv'
<1> DEFINE stake == stakes[identity]
           paid  == ApplySlashes(stake)
<1>1. identity \in Staked /\ stake \in Stakes /\ stake.rating < BalanceBits /\ paid <= balance
  BY DEF Reclaim, Staked, StakerInv, StakerTypeOK
<1>2. paid \in 0 .. STAKE_AMOUNT
  BY <1>1, SlashBounds
<1>3. /\ stakes' = [stakes EXCEPT ![identity] = NoStake] /\ balance' = balance - paid
      /\ stake_list' = Unlisted(stake_list, identity)
      /\ log' = Append(log, Event("Reclaimed", stake.id)) /\ UNCHANGED now
  BY DEF Reclaim
<1>4. Staked' = Staked \ {identity}
  BY <1>3 DEF Staked, StakerInv, StakerTypeOK
<1>5. /\ stake_list \in Seq(Identities) /\ \E k \in DOMAIN stake_list : stake_list[k] = identity
      /\ \A j, k \in DOMAIN stake_list : stake_list[j] = stake_list[k] => j = k
  BY <1>1 DEF StakerInv, StakerTypeOK, ListMatchesStakes
<1>6. /\ stake_list' \in Seq(Identities)
      /\ \A j \in DOMAIN stake_list' :
            /\ stake_list'[j] # identity
            /\ \E k \in DOMAIN stake_list : stake_list[k] = stake_list'[j]
      /\ \A k \in DOMAIN stake_list : stake_list[k] # identity =>
            \E j \in DOMAIN stake_list' : stake_list'[j] = stake_list[k]
      /\ \A j, k \in DOMAIN stake_list' : stake_list'[j] = stake_list'[k] => j = k
  BY <1>3, <1>5, UnlistedKeeps
<1>7. ListMatchesStakes'
  BY <1>4, <1>6 DEF ListMatchesStakes, StakerInv
<1>8. Solvent'
  <2>1. Cardinality(Staked') = Cardinality(Staked) - 1
    BY <1>1, <1>4, StakedFinite, FS_RemoveElement
  <2>2. STAKE_AMOUNT * (Cardinality(Staked) - 1) = STAKE_AMOUNT * Cardinality(Staked) - STAKE_AMOUNT
    BY StakedFinite, StakeAssumption
  <2>3. STAKE_AMOUNT * Cardinality(Staked) \in Int
    BY StakedFinite, StakeAssumption
  <2> HIDE DEF paid
  <2> QED BY <2>1, <2>2, <2>3, <1>2, <1>3, StakeAssumption DEF Solvent, StakerInv, StakerTypeOK
<1>9. StakerTypeOK'
  <2>1. stakes' \in [Identities -> Stakes \cup {NoStake}]
    BY <1>3 DEF StakerInv, StakerTypeOK
  <2>2. Event("Reclaimed", stake.id) \in [type : {"Joined", "Reclaimed"}, node : NodeIds]
    BY <1>1 DEF Event, Stakes
  <2>3. log' \in Seq([type : {"Joined", "Reclaimed"}, node : NodeIds])
    BY <1>3, <2>2 DEF StakerInv, StakerTypeOK
  <2> HIDE DEF paid
  <2>4. balance' \in Nat /\ now' \in Nat
    BY <1>1, <1>2, <1>3, StakeAssumption DEF StakerInv, StakerTypeOK
  <2> QED BY <1>6, <2>1, <2>3, <2>4 DEF StakerTypeOK
<1> QED BY <1>7, <1>8, <1>9 DEF StakerInv

\* Every message, and the passing of time, keeps the invariant.
LEMMA NextStaker == StakerInv /\ [StakerNext]_stakerVars => StakerInv'
<1> SUFFICES ASSUME StakerInv, [StakerNext]_stakerVars PROVE StakerInv'
  OBVIOUS
<1>1. ASSUME NEW a \in Owners, NEW i \in Identities, NEW n \in NodeIds, Join(a, i, n)
      PROVE  StakerInv'
  BY <1>1, JoinKeeps
<1>2. ASSUME NEW a \in Owners, NEW i \in Identities, NEW t \in Identities,
             NEW r \in Ratings, Vote(a, i, t, r)
      PROVE  StakerInv'
  BY <1>2, VoteKeeps
<1>3. ASSUME NEW a \in Owners, NEW i \in Identities, Reclaim(a, i)
      PROVE  StakerInv'
  BY <1>3, ReclaimKeeps
<1>4. CASE Tick \/ UNCHANGED stakerVars
  <2>1. UNCHANGED <<stakes, stake_list, balance, log>> /\ now' \in Nat
    BY <1>4 DEF Tick, stakerVars, StakerInv, StakerTypeOK
  <2>2. Staked' = Staked
    BY <2>1 DEF Staked
  <2> QED BY <2>1, <2>2 DEF StakerInv, StakerTypeOK, ListMatchesStakes, Solvent
<1> QED BY <1>1, <1>2, <1>3, <1>4 DEF StakerNext

\* The list of nodes always shows exactly the staked nodes, each once.
THEOREM ListMatchesHolds == StakerSpec => []ListMatchesStakes
<1>1. StakerInv => ListMatchesStakes
  BY DEF StakerInv
<1> QED BY <1>1, InitStaker, NextStaker, PTL DEF StakerSpec

\* The contract can always pay back every stake in full.
THEOREM SolventHolds == StakerSpec => []Solvent
<1>1. StakerInv => Solvent
  BY DEF StakerInv
<1> QED BY <1>1, InitStaker, NextStaker, PTL DEF StakerSpec

-----------------------------------------------------------------------------
(* The servers *)

Events == [type : {"Joined", "Reclaimed"}, node : NodeIds]

\* The events after the k-th that tell of a reclaimed stake for the node.
Reclaims(k, e) == {j \in k + 1 .. Len(log) : log[j] = Event("Reclaimed", e)}

\* A node that joined is staked, or an event that follows tells of its reclaim.
LogTells == \A k \in 1 .. Len(log) : log[k].type = "Joined" =>
    StakesFor(log[k].node) # {} \/ Reclaims(k, log[k].node) # {}

\* What a table with routes knows of a node when the first k events were delivered.
RightAbout(routes, k, e) ==
    /\ routes[e] <= Cardinality(StakesFor(e)) + Cardinality(Reclaims(k, e))
    /\ Silent(k, e) /\ StakesFor(e) # {} /\ ~LastReclaimed(e) => routes[e] > 0

Right(routes, k) == \A e \in ValidIds : RightAbout(routes, k, e)

Follows(s) == stage[s] = "listed" \/ (stage[s] = "on" /\ gapless[s])

TableTells == \A s \in Servers : Follows(s) => Right(table[s], delivered[s])

MemberTypeOK == /\ final \in 0 .. Len(log)
                /\ stage \in [Servers -> {"off", "listed", "on"}]
                /\ table \in [Servers -> [NodeIds -> Nat]]
                /\ delivered \in [Servers -> 0 .. Len(log)]
                /\ gapless \in [Servers -> BOOLEAN]

MemberInv == StakerInv /\ MemberTypeOK /\ LogTells /\ TableTells

\* The log is a sequence of events.
LEMMA LogType == StakerInv => log \in Seq(Events) /\ Len(log) \in Nat
BY DEF StakerInv, StakerTypeOK, Events

\* A node has finitely many stakes.
LEMMA StakesForFinite ==
    ASSUME NEW e
    PROVE  /\ IsFiniteSet(StakesFor(e)) /\ Cardinality(StakesFor(e)) \in Nat
           /\ StakesFor(e) = {} <=> Cardinality(StakesFor(e)) = 0
<1>1. StakesFor(e) \in SUBSET Staked /\ IsFiniteSet(Staked)
  BY StakedFinite DEF StakesFor
<1>2. IsFiniteSet(StakesFor(e))
  BY <1>1, FS_Subset
<1> QED
  BY <1>2, FS_CardinalityType, FS_EmptySet

\* There are finitely many events.
LEMMA ReclaimsFinite ==
    ASSUME StakerInv, NEW k \in Nat, NEW e
    PROVE  /\ IsFiniteSet(Reclaims(k, e)) /\ Cardinality(Reclaims(k, e)) \in Nat
           /\ Reclaims(k, e) = {} <=> Cardinality(Reclaims(k, e)) = 0
<1>1. IsFiniteSet(k + 1 .. Len(log))
  BY LogType, FS_Interval
<1>2. Reclaims(k, e) \in SUBSET (k + 1 .. Len(log))
  BY DEF Reclaims
<1>3. IsFiniteSet(Reclaims(k, e))
  BY <1>1, <1>2, FS_Subset
<1> QED
  BY <1>3, FS_CardinalityType, FS_EmptySet

\* Having been delivered fewer events, there are more to come.
LEMMA ReclaimsBefore ==
    ASSUME StakerInv, NEW k \in Nat, NEW m \in Nat, m <= k, NEW e
    PROVE  /\ Cardinality(Reclaims(k, e)) <= Cardinality(Reclaims(m, e))
           /\ Silent(m, e) => Silent(k, e)
<1>1. Len(log) \in Nat
  BY LogType
<1>2. Reclaims(k, e) \in SUBSET Reclaims(m, e)
  BY <1>1 DEF Reclaims
<1>3. Silent(m, e) => Silent(k, e)
  BY <1>1 DEF Silent
<1> QED
  BY <1>2, <1>3, ReclaimsFinite, FS_Subset

\* An event about another node changes nothing that is known of this one.
LEMMA OtherEvent ==
    ASSUME StakerInv, NEW event \in Events, log' = Append(log, event),
           NEW e, e # event.node, StakesFor(e)' = StakesFor(e), NEW k \in 0 .. Len(log)
    PROVE  /\ Reclaims(k, e)' = Reclaims(k, e)
           /\ Silent(k, e)' <=> Silent(k, e)
           /\ LastReclaimed(e)' <=> LastReclaimed(e)
<1> DEFINE n == Len(log)
<1>1. /\ n \in Nat /\ Len(log') = n + 1 /\ log'[n + 1] = event
      /\ \A j \in 1 .. n : log'[j] = log[j] /\ log[j] \in Events
      /\ DOMAIN log = 1 .. n /\ DOMAIN log' = 1 .. n + 1
  BY LogType
<1>2. event # Event("Reclaimed", e)
  BY DEF Event
<1> HIDE DEF n
<1>3. Reclaims(k, e)' = Reclaims(k, e)
  BY <1>1, <1>2 DEF Reclaims, n, Event
<1>4. \A m \in 0 .. n : Silent(m, e)' <=> Silent(m, e)
  BY <1>1 DEF Silent, n
<1>5. LastReclaimed(e)' <=> LastReclaimed(e)
  <2>1. ASSUME LastReclaimed(e)' PROVE LastReclaimed(e)
    <3>1. PICK m \in 1 .. n + 1 : log'[m] = Event("Reclaimed", e) /\ Silent(m, e)'
      BY <1>1, <2>1 DEF LastReclaimed, Event
    <3>2. m # n + 1
      BY <1>1, <1>2, <3>1
    <3>3. m \in 1 .. n /\ m \in 0 .. n
      BY <1>1, <3>2
    <3> QED
      BY <1>1, <1>4, <3>1, <3>3 DEF LastReclaimed
  <2>2. ASSUME LastReclaimed(e) PROVE LastReclaimed(e)'
    <3>1. PICK m \in 1 .. n : log[m] = Event("Reclaimed", e) /\ Silent(m, e)
      BY <1>1, <2>2 DEF LastReclaimed
    <3>2. m \in 0 .. n /\ m \in 1 .. n + 1 /\ log'[m] = Event("Reclaimed", e)
      BY <1>1, <3>1
    <3>3. Silent(m, e)'
      BY <1>4, <3>1, <3>2
    <3> QED
      BY <1>1, <3>2, <3>3 DEF LastReclaimed, Event
  <2> QED
    BY <2>1, <2>2
<1> QED
  BY <1>3, <1>4, <1>5 DEF n

\* An event about a node is appended to the log, and the stakes for it change accordingly.
LEMMA EventKeeps ==
    ASSUME MemberInv, StakerInv', NEW event \in Events, log' = Append(log, event),
           \A e : e # event.node => StakesFor(e)' = StakesFor(e),
           event.type = "Joined" =>
               /\ StakesFor(event.node)' # {}
               /\ Cardinality(StakesFor(event.node)) <= Cardinality(StakesFor(event.node)'),
           event.type = "Reclaimed" =>
               Cardinality(StakesFor(event.node)) <= Cardinality(StakesFor(event.node)') + 1,
           UNCHANGED <<final, serverVars>>
    PROVE  MemberInv'
<1> DEFINE n == Len(log)
           f == event.node
<1>1. /\ n \in Nat /\ Len(log') = n + 1 /\ log'[n + 1] = event
      /\ \A j \in 1 .. n : log'[j] = log[j] /\ log[j] \in Events
  BY LogType DEF MemberInv
<1>2. event.type \in {"Joined", "Reclaimed"} /\ f \in NodeIds
  BY DEF Events
<1> HIDE DEF n
<1>3. ASSUME NEW k \in 0 .. n
      PROVE  /\ ~Silent(k, f)'
             /\ event.type = "Joined" => Reclaims(k, f)' = Reclaims(k, f)
             /\ event.type = "Reclaimed" => Reclaims(k, f)' = Reclaims(k, f) \cup {n + 1}
             /\ n + 1 \notin Reclaims(k, f)
  <2>1. ~Silent(k, f)'
    BY <1>1 DEF Silent, n
  <2>2. event.type = "Joined" => event # Event("Reclaimed", f)
    BY DEF Event
  <2>3. event.type = "Reclaimed" => event = Event("Reclaimed", f)
    BY DEF Event, Events
  <2>4. n + 1 \notin Reclaims(k, f)
    BY <1>1 DEF Reclaims, n
  <2>5. \A j : j \in Reclaims(k, f)' <=>
            j \in k + 1 .. n + 1 /\ log'[j] = Event("Reclaimed", f)
    BY <1>1 DEF Reclaims, n, Event
  <2>6. \A j : j \in Reclaims(k, f) <=> j \in k + 1 .. n /\ log[j] = Event("Reclaimed", f)
    BY <1>1 DEF Reclaims, n
  <2>7. \A j : j \in k + 1 .. n + 1 <=> j \in k + 1 .. n \/ j = n + 1
    BY <1>1
  <2>8. \A j \in k + 1 .. n : log'[j] = log[j]
    BY <1>1
  <2>9. event.type = "Joined" => Reclaims(k, f)' = Reclaims(k, f)
    BY <1>1, <2>2, <2>5, <2>6, <2>7, <2>8
  <2>10. event.type = "Reclaimed" => Reclaims(k, f)' = Reclaims(k, f) \cup {n + 1}
    BY <1>1, <2>3, <2>5, <2>6, <2>7, <2>8
  <2> QED
    BY <2>1, <2>4, <2>9, <2>10
<1>4. LogTells'
  <2> SUFFICES ASSUME NEW k \in 1 .. n + 1, NEW e, e = log'[k].node, log'[k].type = "Joined"
               PROVE  StakesFor(e)' # {} \/ Reclaims(k, e)' # {}
    BY <1>1 DEF LogTells, Reclaims, StakesFor, Staked, Event
  <2>1. CASE k = n + 1
    BY <1>1, <2>1
  <2>2. CASE k # n + 1
    <3>1. k \in 1 .. n /\ k \in 0 .. n /\ log'[k] = log[k]
      BY <1>1, <2>2
    <3>2. StakesFor(e) # {} \/ Reclaims(k, e) # {}
      BY <3>1 DEF MemberInv, LogTells, n
    <3>3. CASE e # f
      <4>1. Reclaims(k, e)' = Reclaims(k, e)
        BY <3>1, <3>3, OtherEvent DEF MemberInv, n
      <4> QED
        BY <3>2, <3>3, <4>1
    <3>4. CASE e = f
      BY <1>2, <1>3, <3>1, <3>2, <3>4
    <3> QED
      BY <3>3, <3>4
  <2> QED
    BY <2>1, <2>2
<1>5. ASSUME NEW r \in [NodeIds -> Nat], NEW k \in 0 .. n, Right(r, k)
      PROVE  Right(r, k)'
  <2> SUFFICES ASSUME NEW e \in ValidIds PROVE RightAbout(r, k, e)'
    BY DEF Right
  <2>1. RightAbout(r, k, e) /\ r[e] \in Nat
    BY <1>5, MemberAssumption DEF Right
  <2>2. CASE e # f
    BY <2>1, <2>2, OtherEvent DEF RightAbout, MemberInv, n
  <2>3. CASE e = f
    <3>1. k \in Nat
      BY <1>1
    <3>2. /\ Cardinality(StakesFor(e)) \in Nat /\ Cardinality(StakesFor(e)') \in Nat
      <4>1. StakesFor(e)' \in SUBSET Identities
        BY DEF StakesFor, Staked
      <4>2. IsFiniteSet(StakesFor(e)')
        BY <4>1, StakeAssumption, FS_Subset
      <4> QED
        BY <4>2, StakesForFinite, FS_CardinalityType
    <3>3. IsFiniteSet(Reclaims(k, e)) /\ Cardinality(Reclaims(k, e)) \in Nat
      BY <3>1, ReclaimsFinite DEF MemberInv
    <3>4. event.type = "Reclaimed" =>
              Cardinality(Reclaims(k, e)') = Cardinality(Reclaims(k, e)) + 1
      BY <1>3, <2>3, <3>3, FS_AddElement
    <3>5. r[e] <= Cardinality(StakesFor(e)') + Cardinality(Reclaims(k, e)')
      <4>1. r[e] <= Cardinality(StakesFor(e)) + Cardinality(Reclaims(k, e))
        BY <2>1 DEF RightAbout
      <4>2. CASE event.type = "Joined"
        <5>1. Reclaims(k, e)' = Reclaims(k, e)
          BY <1>3, <2>3, <4>2
        <5> QED
          BY <2>1, <2>3, <3>2, <3>3, <4>1, <4>2, <5>1
      <4>3. CASE event.type = "Reclaimed"
        BY <2>1, <2>3, <3>2, <3>3, <3>4, <4>1, <4>3
      <4> QED
        BY <1>2, <4>2, <4>3
    <3> QED
      BY <1>3, <2>3, <3>5 DEF RightAbout
  <2> QED
    BY <2>2, <2>3
<1>6. MemberTypeOK'
  BY <1>1 DEF MemberInv, MemberTypeOK, serverVars, n
<1>7. TableTells'
  <2>1. UNCHANGED <<stage, table, delivered, gapless>>
    BY DEF serverVars
  <2> SUFFICES ASSUME NEW s \in Servers, Follows(s)' PROVE Right(table[s], delivered[s])'
    BY DEF TableTells
  <2>2. table[s] \in [NodeIds -> Nat] /\ delivered[s] \in 0 .. n
    BY DEF MemberInv, MemberTypeOK, n
  <2>3. Right(table[s], delivered[s])
    BY <2>1 DEF MemberInv, TableTells, Follows
  <2>4. PICK r \in {table[s]}, k \in {delivered[s]} : TRUE
    OBVIOUS
  <2>5. Right(r, k)'
    BY <1>5, <2>2, <2>3, <2>4
  <2> QED
    BY <2>1, <2>4, <2>5
<1> QED
  BY <1>4, <1>6, <1>7 DEF MemberInv

\* A step that leaves the log and the stakes for every node alone.
LEMMA QuietChain ==
    ASSUME MemberInv, StakerInv', UNCHANGED <<log, final, serverVars>>,
           \A e : StakesFor(e)' = StakesFor(e)
    PROVE  MemberInv'
<1>1. UNCHANGED <<log, final, stage, table, delivered, gapless>>
  BY DEF serverVars
<1>2. MemberTypeOK'
  BY <1>1 DEF MemberInv, MemberTypeOK
<1>3. \A k, e : /\ Reclaims(k, e)' = Reclaims(k, e) /\ Silent(k, e)' = Silent(k, e)
                /\ LastReclaimed(e)' = LastReclaimed(e)
  BY <1>1 DEF Silent, Reclaims, LastReclaimed, Event
<1>4. LogTells'
  <2> SUFFICES ASSUME NEW k \in 1 .. Len(log), NEW e, e = log[k].node, log[k].type = "Joined"
               PROVE  StakesFor(e)' # {} \/ Reclaims(k, e)' # {}
    BY <1>1 DEF LogTells, Reclaims, StakesFor, Staked, Event
  <2> QED
    BY <1>3 DEF MemberInv, LogTells
<1>5. ASSUME NEW r, NEW k, Right(r, k) PROVE Right(r, k)'
  BY <1>3, <1>5 DEF Right, RightAbout
<1>6. TableTells'
  <2> SUFFICES ASSUME NEW s \in Servers, Follows(s)' PROVE Right(table[s], delivered[s])'
    BY DEF TableTells
  <2>1. Right(table[s], delivered[s])
    BY <1>1 DEF MemberInv, TableTells, Follows
  <2>2. PICK r \in {table[s]}, k \in {delivered[s]} : TRUE
    OBVIOUS
  <2>3. Right(r, k)'
    BY <1>5, <2>1, <2>2
  <2> QED
    BY <1>1, <2>2, <2>3
<1> QED
  BY <1>2, <1>4, <1>6 DEF MemberInv

\* The contract executes a message.
LEMMA ChainMember ==
    ASSUME MemberInv, Chain
    PROVE  MemberInv'
<1>1. StakerInv /\ stakes \in [Identities -> Stakes \cup {NoStake}]
  BY DEF MemberInv, StakerInv, StakerTypeOK
<1>2. UNCHANGED <<final, serverVars>> /\ StakerNext
  BY DEF Chain
<1>3. ASSUME NEW a \in Owners, NEW i \in Identities, NEW f \in NodeIds, Join(a, i, f)
      PROVE  MemberInv'
  <2>1. StakerInv'
    BY <1>1, <1>3, JoinKeeps
  <2>2. NewStake(a, f) \in Stakes /\ NewStake(a, f).id = f
    BY <1>1, StakeAssumption DEF StakerInv, StakerTypeOK, NewStake, Stakes
  <2>3. /\ stakes' = [stakes EXCEPT ![i] = NewStake(a, f)] /\ stakes[i] = NoStake
        /\ log' = Append(log, Event("Joined", f))
    BY <1>3 DEF Join
  <2>4. Staked' = Staked \cup {i} /\ i \notin Staked
    BY <1>1, <2>2, <2>3, NoStakeIsNone DEF Staked
  <2>5. /\ \A j \in Staked : j \in Identities /\ stakes'[j] = stakes[j]
        /\ stakes'[i].id = f
    BY <1>1, <2>2, <2>3, <2>4 DEF Staked
  <2>6. \A e : StakesFor(e)' = IF e = f THEN StakesFor(e) \cup {i} ELSE StakesFor(e)
    BY <2>4, <2>5 DEF StakesFor
  <2>7. Cardinality(StakesFor(f)) <= Cardinality(StakesFor(f)') /\ StakesFor(f)' # {}
    <3>1. IsFiniteSet(StakesFor(f)) /\ Cardinality(StakesFor(f)) \in Nat
      BY StakesForFinite
    <3>2. StakesFor(f)' = StakesFor(f) \cup {i}
      BY <2>6
    <3>3. Cardinality(StakesFor(f) \cup {i}) \in {Cardinality(StakesFor(f)), Cardinality(StakesFor(f)) + 1}
      BY <3>1, FS_AddElement
    <3> QED
      BY <3>1, <3>2, <3>3
  <2>8. PICK event \in {Event("Joined", f)} : TRUE
    OBVIOUS
  <2>9. event \in Events /\ event.type = "Joined" /\ event.node = f
    BY <2>8 DEF Event, Events
  <2> QED
    BY <1>2, <2>1, <2>3, <2>6, <2>7, <2>8, <2>9, EventKeeps
<1>4. ASSUME NEW a \in Owners, NEW i \in Identities, Reclaim(a, i)
      PROVE  MemberInv'
  <2>1. StakerInv'
    BY <1>1, <1>4, ReclaimKeeps
  <2>2. /\ i \in Staked /\ stakes' = [stakes EXCEPT ![i] = NoStake]
        /\ log' = Append(log, Event("Reclaimed", stakes[i].id))
    BY <1>4 DEF Reclaim
  <2>3. PICK f \in {stakes[i].id} : TRUE
    OBVIOUS
  <2>4. f \in NodeIds /\ f = stakes[i].id
    BY <1>1, <2>2, <2>3 DEF Staked, Stakes
  <2>5. Staked' = Staked \ {i} /\ \A j \in Staked \ {i} : stakes'[j] = stakes[j]
    BY <1>1, <2>2 DEF Staked
  <2>6. \A e : StakesFor(e)' = IF e = f THEN StakesFor(e) \ {i} ELSE StakesFor(e)
    BY <2>2, <2>4, <2>5 DEF StakesFor
  <2>7. Cardinality(StakesFor(f)) <= Cardinality(StakesFor(f)') + 1
    <3>1. IsFiniteSet(StakesFor(f)) /\ Cardinality(StakesFor(f)) \in Nat
      BY StakesForFinite
    <3>2. StakesFor(f)' = StakesFor(f) \ {i}
      BY <2>6
    <3>3. Cardinality(StakesFor(f) \ {i}) \in {Cardinality(StakesFor(f)), Cardinality(StakesFor(f)) - 1}
      BY <3>1, FS_RemoveElement
    <3> QED
      BY <3>1, <3>2, <3>3
  <2>8. PICK event \in {Event("Reclaimed", f)} : TRUE
    OBVIOUS
  <2>9. event \in Events /\ event.type = "Reclaimed" /\ event.node = f
    BY <2>4, <2>8 DEF Event, Events
  <2> QED
    BY <1>2, <2>1, <2>2, <2>4, <2>6, <2>7, <2>8, <2>9, EventKeeps
<1>5. ASSUME NEW a \in Owners, NEW i \in Identities, NEW t \in Identities, NEW r \in Ratings,
             Vote(a, i, t, r)
      PROVE  MemberInv'
  <2>1. StakerInv'
    BY <1>1, <1>5, VoteKeeps
  <2>2. /\ i \in Staked /\ t \in Staked /\ i # t /\ stakes[i] \in Stakes /\ stakes[t] \in Stakes
        /\ stakes' = [stakes EXCEPT ![i].pool = @ - VoteCost(r), ![t].rating = @ - r]
        /\ UNCHANGED log
    BY <1>1, <1>5 DEF Vote, Staked
  <2>3. \A j \in Staked : stakes'[j].id = stakes[j].id
    BY <1>1, <2>2 DEF Staked, Stakes
  <2>4. Staked' = Staked
    <3>1. stakes' \in [Identities -> Stakes \cup {NoStake}]
      BY <2>1 DEF StakerInv, StakerTypeOK
    <3>2. \A j \in Identities : j \notin {i, t} => stakes'[j] = stakes[j]
      BY <1>1, <2>2
    <3>3. stakes'[i].owner = stakes[i].owner /\ stakes'[t].owner = stakes[t].owner
      BY <1>1, <2>2 DEF Stakes
    <3>4. stakes'[i] # NoStake /\ stakes'[t] # NoStake
      BY <2>2, <3>3, StakeAssumption DEF NoStake, Stakes
    <3> QED
      BY <2>2, <3>2, <3>4 DEF Staked
  <2>5. \A e : StakesFor(e)' = StakesFor(e)
    BY <2>3, <2>4 DEF StakesFor
  <2> QED
    BY <1>2, <2>1, <2>2, <2>5, QuietChain
<1>6. CASE Tick
  <2>1. StakerInv'
    BY <1>1, <1>6, NextStaker DEF StakerNext
  <2>2. UNCHANGED <<stakes, log>>
    BY <1>6 DEF Tick
  <2>3. \A e : StakesFor(e)' = StakesFor(e)
    BY <2>2 DEF StakesFor, Staked
  <2> QED
    BY <1>2, <2>1, <2>2, <2>3, QuietChain
<1> QED
  BY <1>2, <1>3, <1>4, <1>5, <1>6 DEF StakerNext

\* Handling an event about a valid id keeps what is known of the nodes.
LEMMA HandledRight ==
    ASSUME MemberInv, NEW r \in [NodeIds -> Nat], NEW m \in Nat, m + 1 \in 1 .. Len(log),
           Right(r, m), NEW event \in Events, event = log[m + 1]
    PROVE  /\ event.node \in ValidIds => Right(AfterEvent(r, event), m + 1)
           /\ event.node \notin ValidIds => Right(r, m + 1)
<1> DEFINE n == Len(log)
           f == event.node
           k == m + 1
           after == AfterEvent(r, event)
<1>1. n \in Nat /\ k \in 1 .. n /\ k \in Nat /\ StakerInv /\ log \in Seq(Events)
  BY LogType DEF MemberInv
<1>2. event.type \in {"Joined", "Reclaimed"} /\ f \in NodeIds
  BY DEF Events
<1>3. m + 1 .. n = (k + 1 .. n) \cup {k}
  BY <1>1
<1>4. ASSUME NEW e, e # f
      PROVE  Reclaims(k, e) = Reclaims(m, e) /\ (Silent(k, e) <=> Silent(m, e))
  <2>1. log[k].node # e /\ log[k] # Event("Reclaimed", e)
    BY <1>4 DEF Event
  <2>2. Reclaims(k, e) = Reclaims(m, e)
    BY <1>3, <2>1 DEF Reclaims
  <2>3. Silent(k, e) <=> Silent(m, e)
    BY <1>3, <2>1 DEF Silent
  <2> QED
    BY <2>2, <2>3
<1>5. ASSUME NEW e \in ValidIds, e # f, NEW q, q[e] = r[e] PROVE RightAbout(q, k, e)
  BY <1>4, <1>5 DEF Right, RightAbout
<1>6. ASSUME f \in ValidIds PROVE Right(after, k)
  <2>1. /\ after[f] = IF event.type = "Joined" THEN IF r[f] = 0 THEN 1 ELSE r[f]
                      ELSE IF r[f] = 0 THEN 0 ELSE r[f] - 1
        /\ \A e \in NodeIds : e # f => after[e] = r[e]
    BY <1>2 DEF AfterEvent
  <2> HIDE DEF after
  <2>2. Cardinality(StakesFor(f)) \in Nat /\ (StakesFor(f) = {} <=> Cardinality(StakesFor(f)) = 0)
    BY StakesForFinite
  <2>3. /\ IsFiniteSet(Reclaims(k, f)) /\ Cardinality(Reclaims(k, f)) \in Nat
        /\ Reclaims(k, f) = {} <=> Cardinality(Reclaims(k, f)) = 0
    BY <1>1, ReclaimsFinite
  <2>4. r[f] \in Nat /\ r[f] <= Cardinality(StakesFor(f)) + Cardinality(Reclaims(m, f))
    BY <1>2, <1>6 DEF Right, RightAbout
  <2>5. CASE event.type = "Joined"
    <3>1. Reclaims(m, f) = Reclaims(k, f)
      <4>1. log[k] # Event("Reclaimed", f)
        BY <2>5 DEF Event
      <4> QED
        BY <1>3, <4>1 DEF Reclaims
    <3>2. StakesFor(f) # {} \/ Reclaims(k, f) # {}
      BY <1>1, <2>5 DEF MemberInv, LogTells
    <3>3. after[f] > 0 /\ after[f] <= Cardinality(StakesFor(f)) + Cardinality(Reclaims(k, f))
      BY <2>1, <2>2, <2>3, <2>4, <2>5, <3>1, <3>2
    <3>4. RightAbout(after, k, f)
      BY <3>3 DEF RightAbout
    <3> QED
      BY <1>5, <2>1, <3>4, MemberAssumption DEF Right
  <2>6. CASE event.type = "Reclaimed"
    <3>1. log[k] = Event("Reclaimed", f)
      BY <2>6 DEF Event, Events
    <3>2. Reclaims(m, f) = Reclaims(k, f) \cup {k} /\ k \notin Reclaims(k, f)
      <4>1. \A j : j \in Reclaims(m, f) <=> j \in m + 1 .. n /\ log[j] = Event("Reclaimed", f)
        BY DEF Reclaims
      <4>2. \A j : j \in Reclaims(k, f) <=> j \in k + 1 .. n /\ log[j] = Event("Reclaimed", f)
        BY DEF Reclaims
      <4>3. k \notin k + 1 .. n
        BY <1>1
      <4> HIDE DEF k, n, f
      <4> QED
        BY <1>3, <3>1, <4>1, <4>2, <4>3
    <3>3. Cardinality(Reclaims(m, f)) = Cardinality(Reclaims(k, f)) + 1
      BY <2>3, <3>2, FS_AddElement
    <3>4. after[f] <= Cardinality(StakesFor(f)) + Cardinality(Reclaims(k, f))
      BY <2>1, <2>2, <2>3, <2>4, <2>6, <3>3
    <3>5. Silent(k, f) => LastReclaimed(f)
      <4>1. k \in DOMAIN log
        BY <1>1
      <4> HIDE DEF k, f
      <4> QED
        BY <3>1, <4>1 DEF LastReclaimed
    <3>6. RightAbout(after, k, f)
      BY <3>4, <3>5 DEF RightAbout
    <3> QED
      BY <1>5, <2>1, <3>6, MemberAssumption DEF Right
  <2> QED
    BY <1>2, <2>5, <2>6
<1>7. ASSUME f \notin ValidIds PROVE Right(r, k)
  BY <1>5, <1>7 DEF Right
<1> QED
  BY <1>6, <1>7

ServerStep(s) == \/ FetchList(s) \/ Subscribe(s)
                 \/ HandleStakeEvent(s) \/ MissEvent(s) \/ Restart(s)

\* A server starts, subscribes, handles or misses an event, or restarts.
LEMMA ServerMember ==
    ASSUME MemberInv, NEW s \in Servers, ServerStep(s)
    PROVE  MemberInv'
<1>1. UNCHANGED <<stakes, stake_list, balance, now, log>> /\ UNCHANGED final
  BY DEF ServerStep, FetchList, Subscribe, HandleStakeEvent, MissEvent, Restart, stakerVars
<1>2. StakerInv' /\ LogTells'
  <2>1. StakerInv'
    BY <1>1 DEF MemberInv, StakerInv, StakerTypeOK, ListMatchesStakes, Solvent, Staked
  <2>2. LogTells'
    BY <1>1 DEF MemberInv, LogTells, Reclaims, StakesFor, Staked, Event
  <2> QED
    BY <2>1, <2>2
<1>3. \A e : StakesFor(e)' = StakesFor(e) /\ LastReclaimed(e)' = LastReclaimed(e)
  BY <1>1 DEF StakesFor, Staked, LastReclaimed, Silent, Event
<1>4. \A k, e : Reclaims(k, e)' = Reclaims(k, e) /\ Silent(k, e)' = Silent(k, e)
  BY <1>1 DEF Reclaims, Silent, Event
<1>5. ASSUME NEW r, NEW k, Right(r, k) PROVE Right(r, k)'
  BY <1>3, <1>4, <1>5 DEF Right, RightAbout
<1>6. Len(log) \in Nat /\ StakerInv /\ log \in Seq(Events)
  BY LogType DEF MemberInv
<1> USE DEF MemberTypeOK
<1>7. MemberTypeOK
  BY DEF MemberInv
<1>8. ASSUME MemberTypeOK', \A q \in Servers \ {s} :
                /\ stage'[q] = stage[q] /\ table'[q] = table[q]
                /\ delivered'[q] = delivered[q] /\ gapless'[q] = gapless[q],
             Follows(s)' => Right(table'[s], delivered'[s])
      PROVE  MemberInv'
  <2>1. ASSUME NEW q \in Servers, Follows(q)' PROVE Right(table'[q], delivered'[q])
    BY <1>8, <2>1 DEF MemberInv, TableTells, Follows
  <2>2. ASSUME NEW q \in Servers, Follows(q)' PROVE Right(table[q], delivered[q])'
    <3>1. PICK r \in {table'[q]}, k \in {delivered'[q]} : TRUE
      OBVIOUS
    <3>2. Right(r, k)'
      BY <1>5, <2>1, <2>2, <3>1
    <3> QED
      BY <3>1, <3>2
  <2>3. TableTells'
    BY <2>2 DEF TableTells
  <2> QED
    BY <1>2, <1>8, <2>3 DEF MemberInv
<1>9. CASE FetchList(s)
  <2>1. table'[s] = Listed /\ delivered'[s] = Len(log)
    BY <1>7, <1>9 DEF FetchList
  <2>2. ASSUME NEW e \in ValidIds PROVE RightAbout(Listed, Len(log), e)
    <3>1. /\ Listed[e] = Cardinality(StakesFor(e)) /\ Cardinality(StakesFor(e)) \in Nat
          /\ StakesFor(e) = {} <=> Cardinality(StakesFor(e)) = 0
      BY StakesForFinite, MemberAssumption DEF Listed
    <3>2. Cardinality(Reclaims(Len(log), e)) \in Nat
      BY <1>6, ReclaimsFinite
    <3>3. /\ Listed[e] <= Cardinality(StakesFor(e)) + Cardinality(Reclaims(Len(log), e))
          /\ StakesFor(e) # {} => Listed[e] > 0
      BY <3>1, <3>2
    <3> QED
      BY <3>3 DEF RightAbout
  <2>3. Right(table'[s], delivered'[s])
    BY <2>1, <2>2 DEF Right
  <2>4. Listed \in [NodeIds -> Nat]
    BY StakesForFinite DEF Listed
  <2>5. MemberTypeOK'
    BY <1>1, <1>6, <1>7, <1>9, <2>4 DEF FetchList
  <2> QED
    BY <1>7, <1>8, <1>9, <2>3, <2>5 DEF FetchList
<1>10. CASE Subscribe(s)
  <2>1. /\ gapless'[s] => final <= delivered[s]
        /\ table'[s] = table[s] /\ delivered'[s] = final /\ stage[s] = "listed" /\ stage'[s] = "on"
    BY <1>7, <1>10 DEF Subscribe
  <2>2. Right(table[s], delivered[s])
    BY <2>1 DEF MemberInv, TableTells, Follows
  <2>3. ASSUME gapless'[s], NEW e \in ValidIds PROVE RightAbout(table[s], final, e)
    <3>1. final \in Nat /\ delivered[s] \in Nat /\ final <= delivered[s]
      BY <1>6, <1>7, <2>1, <2>3
    <3>2. /\ Cardinality(Reclaims(delivered[s], e)) <= Cardinality(Reclaims(final, e))
          /\ Silent(final, e) => Silent(delivered[s], e)
      BY <1>6, <3>1, ReclaimsBefore
    <3>3. /\ Cardinality(Reclaims(delivered[s], e)) \in Nat /\ Cardinality(Reclaims(final, e)) \in Nat
          /\ Cardinality(StakesFor(e)) \in Nat /\ table[s][e] \in Nat
      BY <1>6, <1>7, <3>1, ReclaimsFinite, StakesForFinite, MemberAssumption
    <3>4. RightAbout(table[s], delivered[s], e)
      BY <2>2 DEF Right
    <3>5. table[s][e] <= Cardinality(StakesFor(e)) + Cardinality(Reclaims(delivered[s], e))
      BY <3>4 DEF RightAbout
    <3>6. table[s][e] <= Cardinality(StakesFor(e)) + Cardinality(Reclaims(final, e))
      BY <3>2, <3>3, <3>5
    <3> QED
      BY <3>2, <3>4, <3>6 DEF RightAbout
  <2>4. Follows(s)' => Right(table'[s], delivered'[s])
    BY <2>1, <2>3 DEF Follows, Right
  <2>5. MemberTypeOK'
    BY <1>1, <1>7, <1>10 DEF Subscribe
  <2> QED
    BY <1>7, <1>8, <1>10, <2>4, <2>5 DEF Subscribe
<1>11. CASE HandleStakeEvent(s)
  <2>1. PICK m \in {delivered[s]}, r \in {table[s]}, event \in {log[delivered[s] + 1]} : TRUE
    OBVIOUS
  <2>2. m \in Nat /\ m + 1 \in 1 .. Len(log) /\ r \in [NodeIds -> Nat]
    BY <1>6, <1>7, <1>11, <2>1 DEF HandleStakeEvent
  <2>3. event \in Events /\ event = log[m + 1]
    BY <1>6, <2>1, <2>2, ElementOfSeq
  <2>4. /\ table' = IF event.node \in ValidIds
                    THEN [table EXCEPT ![s] = AfterEvent(@, event)] ELSE table
        /\ delivered' = [delivered EXCEPT ![s] = @ + 1]
        /\ stage[s] = "on" /\ UNCHANGED <<stage, gapless>>
    BY <1>11, <2>1 DEF HandleStakeEvent
  <2>5. /\ table'[s] = IF event.node \in ValidIds THEN AfterEvent(r, event) ELSE r
        /\ delivered'[s] = m + 1
    BY <1>7, <2>1, <2>4
  <2>6. AfterEvent(r, event) \in [NodeIds -> Nat]
    BY <2>2, <2>3 DEF AfterEvent, Events
  <2>7. Follows(s)' => Right(table'[s], delivered'[s])
    <3>1. Follows(s)' => Right(r, m)
      BY <2>1, <2>4 DEF MemberInv, TableTells, Follows
    <3> QED
      BY <2>2, <2>3, <2>5, <3>1, HandledRight
  <2>8. MemberTypeOK'
    <3>1. table' \in [Servers -> [NodeIds -> Nat]]
      BY <1>7, <2>1, <2>4, <2>6
    <3>2. delivered' \in [Servers -> 0 .. Len(log)]
      BY <1>6, <1>7, <2>1, <2>2, <2>4
    <3> QED
      BY <1>1, <1>7, <2>4, <3>1, <3>2
  <2> QED
    BY <1>7, <1>8, <2>4, <2>7, <2>8
<1>12. CASE MissEvent(s)
  <2>1. ~gapless'[s] /\ stage'[s] = "on"
    BY <1>7, <1>12 DEF MissEvent
  <2>2. MemberTypeOK'
    BY <1>1, <1>6, <1>7, <1>12 DEF MissEvent
  <2>3. ~Follows(s)'
    BY <2>1 DEF Follows
  <2> QED
    BY <1>7, <1>8, <1>12, <2>2, <2>3 DEF MissEvent
<1>13. CASE Restart(s)
  <2>1. stage'[s] = "off" /\ NoRoutes \in [NodeIds -> Nat]
    BY <1>7, <1>13 DEF Restart, NoRoutes
  <2>2. MemberTypeOK'
    BY <1>1, <1>7, <1>13, <2>1 DEF Restart
  <2>3. ~Follows(s)'
    BY <2>1 DEF Follows
  <2> QED
    BY <1>7, <1>8, <1>13, <2>2, <2>3 DEF Restart
<1> QED
  BY <1>9, <1>10, <1>11, <1>12, <1>13 DEF ServerStep

\* Blocks become final.
LEMMA FinalizeMember == MemberInv /\ Finalize => MemberInv'
<1> SUFFICES ASSUME MemberInv, Finalize PROVE MemberInv'
  OBVIOUS
<1>1. /\ UNCHANGED <<stakes, stake_list, balance, now, log, stage, table, delivered, gapless>>
      /\ final' \in 0 .. Len(log)
  BY LogType DEF Finalize, MemberInv, MemberTypeOK, serverVars, stakerVars
<1>2. StakerInv'
  BY <1>1 DEF MemberInv, StakerInv, StakerTypeOK, ListMatchesStakes, Solvent, Staked
<1>3. LogTells'
  BY <1>1 DEF MemberInv, LogTells, Reclaims, StakesFor, Staked, Event
<1>4. MemberTypeOK'
  BY <1>1 DEF MemberInv, MemberTypeOK
<1>5. TableTells'
  BY <1>1 DEF MemberInv, TableTells, Follows, Right, RightAbout, Reclaims, Silent, StakesFor,
              Staked, LastReclaimed, Event
<1> QED
  BY <1>2, <1>3, <1>4, <1>5 DEF MemberInv

\* A server that has handled all events has at most as many routes to a node as the node has
\* stakes, and one to each staked node but those for which another stake was reclaimed last, if
\* it has skipped none: in whatever order its list, its subscription, the nodes that join and
\* leave, several stakes for one node and the finality of their events fall.
THEOREM TablesMatchHolds == MemberSpec => []TablesMatchStakes
<1>1. MemberInit => MemberInv
  <2> SUFFICES ASSUME MemberInit PROVE MemberInv
    OBVIOUS
  <2>1. StakerInv
    BY InitStaker DEF MemberInit
  <2>2. log = <<>>
    BY DEF MemberInit, StakerInit
  <2>3. MemberTypeOK
    BY <2>2 DEF MemberInit, MemberTypeOK, NoRoutes
  <2>4. LogTells /\ TableTells
    BY <2>2 DEF MemberInit, LogTells, TableTells, Follows
  <2> QED
    BY <2>1, <2>3, <2>4 DEF MemberInv
<1>2. MemberInv /\ [MemberNext]_memberVars => MemberInv'
  <2> SUFFICES ASSUME MemberInv, [MemberNext]_memberVars PROVE MemberInv'
    OBVIOUS
  <2>1. CASE Chain
    BY <2>1, ChainMember
  <2>2. CASE Finalize
    BY <2>2, FinalizeMember
  <2>3. ASSUME NEW s \in Servers, ServerStep(s) PROVE MemberInv'
    BY <2>3, ServerMember
  <2>4. CASE UNCHANGED memberVars
    <3>1. UNCHANGED <<stakes, stake_list, balance, now, log, final, serverVars>>
      BY <2>4 DEF memberVars, stakerVars
    <3>2. StakerInv' /\ \A e : StakesFor(e)' = StakesFor(e)
      BY <3>1 DEF MemberInv, StakesFor, Staked, StakerInv, StakerTypeOK, ListMatchesStakes, Solvent
    <3> QED
      BY <3>1, <3>2, QuietChain
  <2> QED
    BY <2>1, <2>2, <2>3, <2>4 DEF MemberNext, ServerStep
<1>3. MemberInv => TablesMatchStakes
  <2> SUFFICES ASSUME MemberInv, NEW s \in Servers, CaughtUp(s), gapless[s], NEW e \in ValidIds
               PROVE  /\ table[s][e] <= Listed[e]
                      /\ Listed[e] > 0 /\ ~LastReclaimed(e) => table[s][e] > 0
    BY DEF TablesMatchStakes
  <2>1. Len(log) \in Nat /\ delivered[s] = Len(log) /\ stage[s] = "on"
    BY LogType DEF CaughtUp, MemberInv
  <2>2. Silent(delivered[s], e) /\ Reclaims(delivered[s], e) = {}
    BY <2>1 DEF Silent, Reclaims
  <2>3. /\ Listed[e] = Cardinality(StakesFor(e)) /\ Cardinality(StakesFor(e)) \in Nat
        /\ StakesFor(e) = {} <=> Cardinality(StakesFor(e)) = 0
    BY StakesForFinite, MemberAssumption DEF Listed
  <2>4. RightAbout(table[s], delivered[s], e)
    BY <2>1 DEF MemberInv, TableTells, Follows, Right
  <2>5. Cardinality(Reclaims(delivered[s], e)) = 0
    BY <2>2, FS_EmptySet
  <2> QED
    BY <2>2, <2>3, <2>4, <2>5 DEF RightAbout
<1> QED
  BY <1>1, <1>2, <1>3, PTL DEF MemberSpec
=============================================================================
