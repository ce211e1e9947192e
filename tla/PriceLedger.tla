----------------------------- MODULE PriceLedger -----------------------------
(***************************************************************************)
(* What the price table promises, whoever writes it (DECISION_LOG.md, the  *)
(* history decision; price_repository.py): a recommendation gets one entry *)
(* observation, of the time it was recommended; an entry without a price   *)
(* may still get one as of that time, and a priced entry is never changed. *)
(* Later observations are kept apart and only for recommendations that     *)
(* have an entry.                                                          *)
(***************************************************************************)
CONSTANTS Items, Observations, None

VARIABLES entry, latest

ledgerVars == <<entry, latest>>

LedgerInit ==
    /\ entry \in [Items -> Observations \cup {None}]
    /\ latest = [i \in Items |-> None]

\* One transaction may write several rows; each row moves like this.
Recorded(i) == entry[i] = None /\ entry'[i] \in Observations

Recovered(i) ==
    /\ entry[i] \in Observations /\ entry[i].status = "unavailable"
    /\ entry'[i] \in Observations /\ entry'[i].at = entry[i].at

WriteEntries ==
    /\ entry' \in [Items -> Observations \cup {None}]
    /\ \A i \in Items : entry'[i] # entry[i] => Recorded(i) \/ Recovered(i)
    /\ UNCHANGED latest

WriteLatest ==
    /\ latest' \in [Items -> Observations \cup {None}]
    /\ \A i \in Items : latest'[i] # latest[i] => entry[i] # None /\ latest'[i] \in Observations
    /\ UNCHANGED entry

LedgerNext == WriteEntries \/ WriteLatest

LedgerSpec == LedgerInit /\ [][LedgerNext]_ledgerVars
=============================================================================
