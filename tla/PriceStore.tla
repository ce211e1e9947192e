----------------------------- MODULE PriceStore ------------------------------
(***************************************************************************)
(* The table recommendation_price_snapshots and the transactions on it     *)
(* (app/persistence/price_repository.py).  Its key is (run, index, kind):  *)
(* an item is a (run, index), its ENTRY row is entry[i], its LATEST row    *)
(* latest[i], None where there is no row.  A transaction takes the rows to *)
(* write as a function new from items to observations, None where it has   *)
(* none.  Company, ticker and action of a row are those of its item.       *)
(***************************************************************************)
EXTENDS PriceLookup

CONSTANT Items   \* recommendation identities, in the order the table is read

VARIABLES entry, latest

storeVars == <<entry, latest>>

NoRows == [i \in Items |-> None]

\* Slips: an existing row is replaced; a priced row is written again.
StoreEntries_Replaces(new) ==
    /\ entry' = [i \in Items |-> IF new[i] # None THEN new[i] ELSE entry[i]]
    /\ UNCHANGED latest

BackfillEntries_AnyRow(new) ==
    /\ entry' = [i \in Items |-> IF new[i] # None /\ entry[i] # None THEN new[i] ELSE entry[i]]
    /\ UNCHANGED latest

\* store_entries: ON CONFLICT DO NOTHING.
StoreEntries(new) ==
    /\ entry' = [i \in Items |-> IF entry[i] = None THEN new[i] ELSE entry[i]]
    /\ UNCHANGED latest

\* upsert_latest: ON CONFLICT DO UPDATE with every column.
UpsertLatest(new) ==
    /\ latest' = [i \in Items |-> IF new[i] # None THEN new[i] ELSE latest[i]]
    /\ UNCHANGED entry

\* backfill_entries: UPDATE of the ENTRY rows that are still UNAVAILABLE.
Unpriced(i) == entry[i] # None /\ ~Priced(entry[i])

BackfillEntries(new) ==
    /\ entry' = [i \in Items |-> IF new[i] # None /\ Unpriced(i) THEN new[i] ELSE entry[i]]
    /\ UNCHANGED latest
=============================================================================
