---------------------------- MODULE UserManager ----------------------------
(***************************************************************************)
(* The user_manager contract (contracts/user_manager/lib.rs): accounts     *)
(* register an identity and own at most one name, which clients use to     *)
(* find each other.                                                        *)
(*                                                                         *)
(* A message runs alone and a failed assertion reverts all it has written, *)
(* so a message is one step with its assertions as guards.  The            *)
(* assertions of a message see what the ones before them have written: a   *)
(* transfer first runs give_up_name, and is written over its result.  Of a *)
(* profile only the signing key matters.                                   *)
(***************************************************************************)
EXTENDS FiniteSets

CONSTANTS Accounts, Names, Keys,
          None          \* the value of a key that a mapping does not hold

ASSUME NoneAssumption == None \notin Accounts \cup Names \cup Keys

VARIABLES username_to_owner, owner_to_username, identity_to_username, identities

vars == <<username_to_owner, owner_to_username, identity_to_username, identities>>

Init == /\ username_to_owner    = [n \in Names |-> None]
        /\ owner_to_username    = [a \in Accounts |-> None]
        /\ identity_to_username = [k \in Keys |-> None]
        /\ identities           = [a \in Accounts |-> None]

-----------------------------------------------------------------------------

Register(caller, sign) ==
    /\ identities' = [identities EXCEPT ![caller] = sign]
    /\ UNCHANGED <<username_to_owner, owner_to_username, identity_to_username>>

\* The three insertions of pick_name find nothing in their place.
NameIsFree(account, name, sign) ==
    /\ owner_to_username[account] = None
    /\ username_to_owner[name] = None
    /\ sign # None                                  \* caller to have identity
    /\ identity_to_username[sign] = None

GiveName(account, name, sign) ==
    /\ owner_to_username'    = [owner_to_username EXCEPT ![account] = name]
    /\ username_to_owner'    = [username_to_owner EXCEPT ![name] = account]
    /\ identity_to_username' = [identity_to_username EXCEPT ![sign] = name]

PickName(caller, name) ==
    /\ NameIsFree(caller, name, identities[caller])
    /\ GiveName(caller, name, identities[caller])
    /\ UNCHANGED identities

RegisterWithName(caller, name, sign) ==
    /\ identities' = [identities EXCEPT ![caller] = sign]
    /\ NameIsFree(caller, name, sign)
    /\ GiveName(caller, name, sign)

\* Mutant of OwnsName: the name may have been picked with another identity.
OwnsNameAnyKey(caller, name) ==
    /\ username_to_owner[name] = caller
    /\ owner_to_username[caller] = name
    /\ identities[caller] # None

\* The three values give_up_name takes are the ones it expects.
OwnsName(caller, name) ==
    /\ username_to_owner[name] = caller
    /\ owner_to_username[caller] = name
    /\ identities[caller] # None                    \* caller to have identity
    /\ identity_to_username[identities[caller]] = name

GiveUpName(caller, name) ==
    /\ OwnsName(caller, name)
    /\ username_to_owner'    = [username_to_owner EXCEPT ![name] = None]
    /\ owner_to_username'    = [owner_to_username EXCEPT ![caller] = None]
    /\ identity_to_username' = [identity_to_username EXCEPT ![identities[caller]] = None]
    /\ UNCHANGED identities

\* The target may be the caller, and may have the identity of the caller: both are free
\* once the name has been given up.
TransfereName(caller, name, target) ==
    /\ OwnsName(caller, name)
    /\ target = caller \/ owner_to_username[target] = None
    /\ identities[target] # None                    \* target to have identity
    /\ \/ identities[target] = identities[caller]
       \/ identity_to_username[identities[target]] = None
    /\ owner_to_username' = [owner_to_username EXCEPT ![caller] = None, ![target] = name]
    /\ username_to_owner' = [username_to_owner EXCEPT ![name] = target]
    /\ identity_to_username' = [identity_to_username EXCEPT ![identities[caller]] = None,
                                                            ![identities[target]] = name]
    /\ UNCHANGED identities

Next == \E caller \in Accounts :
    \/ \E sign \in Keys : Register(caller, sign)
    \/ \E name \in Names : PickName(caller, name) \/ GiveUpName(caller, name)
    \/ \E name \in Names, sign \in Keys : RegisterWithName(caller, name, sign)
    \/ \E name \in Names, target \in Accounts : TransfereName(caller, name, target)

Spec == Init /\ [][Next]_vars

-----------------------------------------------------------------------------

\* The mappings map what their declarations say.
TypeOK == /\ username_to_owner \in [Names -> Accounts \cup {None}]
          /\ owner_to_username \in [Accounts -> Names \cup {None}]
          /\ identity_to_username \in [Keys -> Names \cup {None}]
          /\ identities \in [Accounts -> Keys \cup {None}]

\* Whatever is picked, given up, transferred and registered anew in which order, the two
\* directions of the name register agree: no name has two owners, no owner two names.
NamesInverse ==
    \A n \in Names, a \in Accounts : username_to_owner[n] = a <=> owner_to_username[a] = n

\* A name is found under exactly one identity as long as it has an owner, and under none
\* when it has not: registering another identity leaves neither a second entry nor an
\* entry of a name that is free.
OneIdentityPerName ==
    \A n \in Names :
        /\ username_to_owner[n] # None <=> \E k \in Keys : identity_to_username[k] = n
        /\ \A k, l \in Keys :
               identity_to_username[k] = n /\ identity_to_username[l] = n => k = l

\* The register of names agrees with itself in all three mappings, whatever is picked, given
\* up, transferred and registered anew in which order (UserManager's messages).
NamesConsistent == NamesInverse /\ OneIdentityPerName

=============================================================================
