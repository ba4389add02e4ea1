---------------------------- MODULE RoutingTable ----------------------------
(***************************************************************************)
(* The routing table (core/dht/src/lib.rs): all the nodes of the network   *)
(* in a vector sorted by id, and closest, which walks away from a key in   *)
(* both directions around the ring of ids.  The first RF + 1 nodes of that *)
(* walk are the replication group of a topic.                              *)
(*                                                                         *)
(* A route is its id: addresses are only carried along.  Ids have IdBits   *)
(* bits instead of 256.                                                    *)
(***************************************************************************)
EXTENDS Integers, Sequences, SequencesExt

CONSTANTS IdBits, MaxRoutes     \* MaxRoutes: bound on the size of the table

ASSUME IdAssumption == IdBits \in Nat \ {0} /\ MaxRoutes \in Nat

VARIABLE routes

-----------------------------------------------------------------------------

Space == 2 ^ IdBits
Ids   == 0 .. Space - 1

\* Subtraction wraps around (overflowing_sub).
WrappingSub(a, b) == (a - b + Space) % Space

\* Mutant of ShortestDistance: the ring is cut open at zero.
ShortestDistanceFlat(a, b) == IF a < b THEN b - a ELSE a - b

ShortestDistance(a, b) == LET d == WrappingSub(a, b)
                              e == WrappingSub(b, a)
                          IN  IF d < e THEN d ELSE e

BulkInsert(list) == SortSeq(list, <)

\* binary_search: the position of id (the first, where the code finds any; they have the same
\* id), or else the one where it would be inserted.
SearchPosition(table, id) ==
    CHOOSE i \in 1 .. Len(table) + 1 :
        /\ \A j \in 1 .. i - 1 : table[j] < id
        /\ \A j \in i .. Len(table) : table[j] >= id

Found(table, id) ==
    LET i == SearchPosition(table, id) IN i <= Len(table) /\ table[i] = id

Inserted(table, id) ==
    IF Found(table, id) THEN table ELSE InsertAt(table, SearchPosition(table, id), id)

Removed(table, id) ==
    IF Found(table, id) THEN RemoveAt(table, SearchPosition(table, id)) ELSE table

-----------------------------------------------------------------------------
(* closest_low.  left yields the positions lo .. li from the back, right    *)
(* the positions ri .. hi from the front; each goes on with the far end of  *)
(* the other when it is exhausted.  Position 0 is an empty peek.            *)

NextLeft(w) == IF w.lo <= w.li THEN [w EXCEPT !.lp = w.li, !.li = @ - 1]
               ELSE IF w.ri <= w.hi THEN [w EXCEPT !.lp = w.hi, !.hi = @ - 1]
               ELSE [w EXCEPT !.lp = 0]

NextRight(w) == IF w.ri <= w.hi THEN [w EXCEPT !.rp = w.ri, !.ri = @ + 1]
                ELSE IF w.lo <= w.li THEN [w EXCEPT !.rp = w.lo, !.lo = @ + 1]
                ELSE [w EXCEPT !.rp = 0]

Walk(table, id) ==
    LET index == SearchPosition(table, id)
    IN  NextRight(NextLeft([lo |-> 1, li |-> index - 1, ri |-> index, hi |-> Len(table),
                            lp |-> 0, rp |-> 0]))

\* The route the iterator yields next, and the iterator afterwards.
LeftIsNext(table, id, w) ==
    w.rp = 0 \/ (w.lp # 0 /\ ShortestDistance(id, table[w.lp]) < ShortestDistance(id, table[w.rp]))

Yield(table, id, w) == IF LeftIsNext(table, id, w) THEN table[w.lp] ELSE table[w.rp]

Advance(table, id, w) ==
    IF w.lp = 0 \/ w.rp = 0 THEN [w EXCEPT !.lp = 0, !.rp = 0]
    ELSE IF LeftIsNext(table, id, w) THEN NextLeft(w) ELSE NextRight(w)

\* All the iterator yields, until both peeks are empty.
ClosestLow(table, id) ==
    LET walk[n \in Nat] == IF n = 0 THEN Walk(table, id) ELSE Advance(table, id, walk[n - 1])
        live(n) == walk[n].lp # 0 \/ walk[n].rp # 0
        count == CHOOSE n \in 0 .. Len(table) + 1 : ~live(n) /\ \A m \in 0 .. n - 1 : live(m)
    IN  [n \in 1 .. count |-> Yield(table, id, walk[n - 1])]

-----------------------------------------------------------------------------

\* The list of nodes comes from the contract, in any order, and a node once for each stake.
RoutesInit == \E list \in [1 .. MaxRoutes \div 2 -> Ids] : routes = BulkInsert(list)

InsertRoute(id) == /\ Len(routes) < MaxRoutes \/ Found(routes, id)
                   /\ routes' = Inserted(routes, id)

RemoveRoute(id) == routes' = Removed(routes, id)

RoutesNext == \E id \in Ids : InsertRoute(id) \/ RemoveRoute(id)

-----------------------------------------------------------------------------

\* The ids n steps from a, and the steps from a to b along the shorter way around the ring.
Around(a, n) == {(a + n) % Space, (a - n + Space) % Space}
RingSteps(a, b) == CHOOSE n \in 0 .. Space \div 2 :
                       b \in Around(a, n) /\ \A m \in 0 .. n - 1 : b \notin Around(a, m)

\* For every key closest yields every route exactly once, and never a route before one that
\* is nearer on the ring: all nodes with the same table agree on the nearest nodes.
ClosestInOrder ==
    routes # <<>> => \A id \in Ids :
        LET found == ClosestLow(routes, id)
        IN  /\ Len(found) = Len(routes)
            /\ ToSet(found) = ToSet(routes)
            /\ \A i, j \in DOMAIN found : i < j =>
                  RingSteps(id, found[i]) <= RingSteps(id, found[j])
=============================================================================
