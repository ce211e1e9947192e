-------------------------------- MODULE Lists --------------------------------
(***************************************************************************)
(* The comprehensions of the program: [x for x in s if ...] and the count  *)
(* of such x.  They are put together from the places of their elements,    *)
(* as SelectSeq of the standard modules is not defined to the proof        *)
(* system; Lists_proofs has what a proof needs to know of them.            *)
(***************************************************************************)
EXTENDS Integers, Sequences, FiniteSets, SequencesExt

IsList(s) == Len(s) \in Nat /\ s = [n \in 1 .. Len(s) |-> s[n]]

\* The n-th of a set of places.
Nth(places, n) == CHOOSE p \in places : Cardinality({q \in places : q <= p}) = n

\* The elements of s at some of its places, in their order.
Picked(s, places) == [n \in 1 .. Cardinality(places) |-> s[Nth(places, n)]]

\* A set of places as a list.
Ascending(places) == [n \in 1 .. Cardinality(places) |-> Nth(places, n)]

Places(s, Test(_)) == {n \in DOMAIN s : Test(s[n])}
Where(s, Test(_)) == Picked(s, Places(s, Test))
HowMany(s, Test(_)) == Cardinality(Places(s, Test))

\* s[:n].
Leading(s, n) == SubSeq(s, 1, IF Len(s) < n THEN Len(s) ELSE n)

\* combinations(range(1, n + 1), 2).
Combinations(n) == FlattenSeq([l \in 1 .. n |-> [k \in 1 .. n - l |-> <<l, l + k>>]])
=============================================================================
