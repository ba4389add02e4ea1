---------------------------- MODULE MCMailboxes ----------------------------
(***************************************************************************)
(* Three nodes, and any MaxOps of these requests.  The profile is          *)
(* everywhere, nowhere or missing on one node at first.                    *)
(***************************************************************************)
EXTENDS Mailboxes

CONSTANT m1

Op(kind, arg) == [kind |-> kind, arg |-> arg]

AllOps  == {Op("create", 1), Op("vault", 2), Op("fetch", 0), Op("read", 1), Op("mail", m1)}
MailOps == {Op("read", 1), Op("mail", m1)}

Start(missing, count) == [missing |-> missing, faults |-> count]

Complete  == {Start({}, 0)}
AllStarts == {Start({}, 1), Start(Group, 1)} \cup {Start({n}, 0) : n \in Group}

MailSymmetry == Permutations(Group)
=============================================================================
