----------------------------- MODULE NodeStaker -----------------------------
(***************************************************************************)
(* The node_staker contract (contracts/node_staker/lib.rs): a node joins   *)
(* the network by locking a stake, rates the nodes of other owners with    *)
(* the votes of its stake, and gets the stake back after a while, less     *)
(* what its own rating costs it.                                           *)
(*                                                                         *)
(* A message runs alone and a panic reverts it, so a message is one step   *)
(* with its assertions as guards.  The contract is built with overflow     *)
(* checks: a shift by the width of a balance or more panics, a shift by    *)
(* less silently drops the bits that leave the balance.  change_addr is    *)
(* not a message of the contract: nothing can call it.                     *)
(***************************************************************************)
EXTENDS Integers, Sequences, FiniteSets, Functions

CONSTANTS
    Owners,
    Identities,         \* NodeIdentity: the keys a stake is stored under
    NodeIds,            \* Ed: the peer id of a node
    STAKE_AMOUNT, INIT_VOTE_POOL, STAKE_DURATION, BASE_SLASH,
    BalanceBits,        \* 128
    MaxJoins, MaxTime   \* bounds

ASSUME StakeAssumption ==
    /\ STAKE_AMOUNT \in Nat /\ INIT_VOTE_POOL \in Nat /\ STAKE_DURATION \in Nat
    /\ BASE_SLASH \in Nat /\ BalanceBits \in Nat /\ MaxJoins \in Nat /\ MaxTime \in Nat
    /\ IsFiniteSet(Identities) /\ "none" \notin Owners
    /\ \A n \in 0 .. BalanceBits : 2 ^ n \in Nat \ {0}

VARIABLES
    stakes,     \* stakes[i]: the stake of identity i, or NoStake
    stake_list, \* the identities, in the order list returns them
    balance,    \* what the contract holds
    now,        \* the timestamp of the block
    log         \* the events emitted so far

stakerVars == <<stakes, stake_list, balance, now, log>>

-----------------------------------------------------------------------------

Stakes == [owner : Owners, created_at : Nat, pool : Nat, rating : Nat, id : NodeIds]
NoStake == [owner |-> "none"]
Staked == {i \in Identities : stakes[i] # NoStake}

Event(type, node) == [type |-> type, node |-> node]

\* The amount of every stake is STAKE_AMOUNT.
NewStake(caller, node) == [owner |-> caller, created_at |-> now, pool |-> INIT_VOTE_POOL,
                           rating |-> 0, id |-> node]

StakerInit == /\ stakes = [i \in Identities |-> NoStake]
              /\ stake_list = <<>>
              /\ balance = 0
              /\ now = 0
              /\ log = <<>>

Joins == Len(SelectSeq(log, LAMBDA e : e.type = "Joined"))

Join(caller, identity, node) ==
    /\ stakes[identity] = NoStake                   \* already joined
    /\ Joins < MaxJoins
    /\ balance' = balance + STAKE_AMOUNT
    /\ stakes' = [stakes EXCEPT ![identity] = NewStake(caller, node)]
    /\ stake_list' = Append(stake_list, identity)
    /\ log' = Append(log, Event("Joined", node))
    /\ UNCHANGED now

Abs(x) == IF x < 0 THEN -x ELSE x

VoteCost(rating) == Abs(rating)

Vote(caller, identity, target, rating) ==
    /\ {identity, target} \subseteq Staked
    /\ stakes[identity].owner = caller              \* not owner
    /\ stakes[target].owner # caller                \* cannot vote for self
    /\ stakes[identity].pool >= VoteCost(rating)    \* not enough votes in pool
    /\ stakes[target].rating - rating >= 0          \* too many votes casted
    /\ stakes' = [stakes EXCEPT ![identity].pool = @ - VoteCost(rating),
                                ![target].rating = @ - rating]
    /\ UNCHANGED <<stake_list, balance, now, log>>

Slash(rating) == (BASE_SLASH * 2 ^ rating) % 2 ^ BalanceBits

\* Mutant of ApplySlashes: the slash is added to what is paid back.
ApplySlashesUp(stake) == STAKE_AMOUNT + IF stake.rating > 0 THEN Slash(stake.rating) ELSE 0

ApplySlashes(stake) ==
    IF stake.rating > 0 /\ Slash(stake.rating) >= STAKE_AMOUNT THEN 0
    ELSE STAKE_AMOUNT - IF stake.rating > 0 THEN Slash(stake.rating) ELSE 0

\* Mutant of SwapRemove: the last entry is dropped without taking the place of the other.
SwapRemoveLast(list, i) == SubSeq(list, 1, Len(list) - 1)

SwapRemove(list, i) == SubSeq([list EXCEPT ![i] = list[Len(list)]], 1, Len(list) - 1)

\* The position of the identity is looked up; one that is not listed is left alone.
Unlisted(list, identity) ==
    IF \E i \in DOMAIN list : list[i] = identity
      THEN SwapRemove(list, CHOOSE i \in DOMAIN list :
                                list[i] = identity /\ \A j \in 1 .. i - 1 : list[j] # identity)
      ELSE list

Reclaim(caller, identity) ==
    LET stake == stakes[identity]
    IN  /\ identity \in Staked                                  \* not joined
        /\ stake.owner = caller                                 \* not owner
        /\ stake.created_at + STAKE_DURATION <= now             \* still locked
        /\ stake.rating < BalanceBits                           \* shift overflow
        /\ ApplySlashes(stake) <= balance                       \* transfer failed
        /\ stakes' = [stakes EXCEPT ![identity] = NoStake]
        /\ balance' = balance - ApplySlashes(stake)
        /\ stake_list' = Unlisted(stake_list, identity)
        /\ log' = Append(log, Event("Reclaimed", stake.id))
        /\ UNCHANGED now

\* The chain produces a block with a later timestamp.
Tick == /\ now < MaxTime
        /\ now' = now + 1
        /\ UNCHANGED <<stakes, stake_list, balance, log>>

Ratings == -INIT_VOTE_POOL .. INIT_VOTE_POOL

StakerNext ==
    \/ \E a \in Owners, i \in Identities :
          \/ \E n \in NodeIds : Join(a, i, n)
          \/ \E t \in Identities, r \in Ratings : Vote(a, i, t, r)
          \/ Reclaim(a, i)
    \/ Tick

StakerSpec == StakerInit /\ [][StakerNext]_stakerVars

-----------------------------------------------------------------------------

\* The storage of the contract has its types.
StakerTypeOK == /\ stakes \in [Identities -> Stakes \cup {NoStake}]
                /\ stake_list \in Seq(Identities)
                /\ balance \in Nat /\ now \in Nat
                /\ log \in Seq([type : {"Joined", "Reclaimed"}, node : NodeIds])

\* list unwraps the stake of every listed identity, and shows every staked node once: the
\* list has no duplicates and lists exactly the identities with a stake, in whatever order
\* nodes join and leave.
ListMatchesStakes == /\ \A i \in DOMAIN stake_list : stake_list[i] \in Staked
                     /\ \A i \in Staked : \E k \in DOMAIN stake_list : stake_list[k] = i
                     /\ \A j, k \in DOMAIN stake_list : stake_list[j] = stake_list[k] => j = k

\* The contract holds the full amount of every stake, however the nodes are rated and
\* whoever leaves first, so the transfer of reclaim never fails for want of funds.
Solvent == balance >= STAKE_AMOUNT * Cardinality(Staked)
=============================================================================
