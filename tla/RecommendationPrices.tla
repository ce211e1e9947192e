------------------------ MODULE RecommendationPrices -------------------------
(***************************************************************************)
(* Who observes prices and writes them: the schedule worker records the    *)
(* entries of its run, refreshes the latest prices of all runs for its     *)
(* summary and recovers missing entries once a day; the history page loads *)
(* the stored runs, has one run refreshed and one entry recovered.  Each   *)
(* of them reads the table, looks prices up one after the other, and       *)
(* writes in one transaction, with the others at work in between.  How one *)
(* lookup comes to its answer is the matter of PriceLookup.                *)
(***************************************************************************)
EXTENDS PriceStore

CONSTANTS
    Actors,
    Program,        \* per actor, its steps: [op, scope]
    Page,           \* the actors that are requests of the history page
    Delivered,      \* per page request, the items a refresh replaces on the page
    Captures(_),    \* what MarketPriceService may observe at a time
    Closes(_),      \* what the closing-price client may observe for a time
    MayFail,        \* faults that may occur: "database", "lookup"
    MaxFaults       \* bound: how many of them

Ops == {"record", "refresh", "load", "backfill"}

ASSUME PricesAssumption ==
    /\ Page \subseteq Actors /\ MaxTime > 0
    /\ Program \in [Actors -> Seq([op : Ops, scope : SUBSET Items])]
    /\ Delivered \in [Page -> SUBSET Items]
    /\ \A t \in Times : /\ Captures(t) # {} /\ Captures(t) \subseteq {o \in Snapshots : o.at = t}
                        /\ Closes(t) # {} /\ Closes(t) \subseteq {o \in Snapshots : o.at = t}
    /\ MayFail \subseteq {"database", "lookup"} /\ MaxFaults \in Nat /\ None \notin Snapshots

VARIABLES
    act,     \* per actor: its step, position and locals
    clock,   \* time of the last recording; a query comes one instant after it
    shown,   \* the history page: per item what it shows
    run,     \* outcome of the scheduled run
    faults   \* what has failed

vars == <<entry, latest, act, clock, shown, run, faults>>

Rows == [Items -> Snapshots \cup {None}]
Local == [phase : Nat, pc : {"begin", "lookup", "write", "answered"}, at : Times,
          seen : Rows, got : Rows, recovered : SUBSET Items]
Shown == [entry : Snapshots, latest : Snapshots \cup {None}] \cup {None}

TypeOK ==
    /\ entry \in Rows /\ latest \in Rows
    /\ act \in [Actors -> Local]
    /\ clock \in 0 .. MaxTime - 1 /\ shown \in [Items -> Shown]
    /\ run \in {"running", "completed", "failed"} /\ faults \subseteq MayFail

\* recovered are the items the actor's backfill has counted (recovered_count).
Fresh(phase, recovered) ==
    [phase |-> phase, pc |-> "begin", at |-> 0, seen |-> NoRows, got |-> NoRows,
     recovered |-> recovered]

Init ==
    /\ entry = NoRows /\ latest = NoRows
    /\ act = [a \in Actors |-> Fresh(1, {})]
    /\ clock = 0 /\ shown = NoRows /\ run = "running" /\ faults = {}

Done(a) == act[a].phase > Len(Program[a])
Step(a) == Program[a][act[a].phase]
At(a, pc) == ~Done(a) /\ act[a].pc = pc
Move(a, local) == act' = [act EXCEPT ![a] = local]
MayFault(f) == f \in MayFail \ faults /\ Cardinality(faults) < MaxFaults
NextStep(a) == Fresh(act[a].phase + 1, act[a].recovered)

----------------------------------------------------------------------------
(* The beginning of a step *)

\* The page loads the history, refreshes runs it shows, and recovers entries it
\* shows without a price.
MayBegin(a) ==
    a \in Page /\ Step(a).op # "load" =>
        \E i \in Step(a).scope :
            shown[i] # None /\ (Step(a).op = "backfill" => ~Priced(shown[i].entry))

\* record_entries: the run has ended, and its BUY and SELL picks are looked up.
BeginRecord(a) ==
    /\ At(a, "begin") /\ Step(a).op = "record" /\ clock + 1 < MaxTime
    /\ clock' = clock + 1
    /\ Move(a, [act[a] EXCEPT !.at = clock + 1, !.pc = "lookup"])
    /\ UNCHANGED <<storeVars, shown, run, faults>>

InScope(a, rows) == [i \in Items |-> IF i \in Step(a).scope THEN rows[i] ELSE None]

\* What a step looks up: record_entries the picks of its run, _collect the entries
\* list_snapshots has read, _pending_entries those of them without a price.
ToObserve(a, seen) ==
    {i \in Step(a).scope :
        \/ Step(a).op = "record"
        \/ Step(a).op = "refresh" /\ seen[i] # None
        \/ Step(a).op = "backfill" /\ seen[i] # None /\ ~Priced(seen[i])}

\* A query takes its time and reads the table.  Without entries to look up a
\* recovery is over and a query answers.  _latest_for_entry: without a refresh the
\* stored latest rows are answered, with one every entry has an observation of its own.
BeginQuery(a) ==
    /\ At(a, "begin") /\ Step(a).op # "record" /\ MayBegin(a)
    /\ LET read == [act[a] EXCEPT !.at = clock + 1, !.seen = InScope(a, entry),
                                  !.got = IF Step(a).op = "load" THEN InScope(a, latest) ELSE NoRows]
       IN  Move(a, IF ToObserve(a, entry) # {} THEN [read EXCEPT !.pc = "lookup"]
                   ELSE IF Step(a).op = "backfill" THEN NextStep(a)
                   ELSE [read EXCEPT !.pc = "answered"])
    /\ UNCHANGED <<storeVars, clock, shown, run, faults>>

----------------------------------------------------------------------------
(* The lookups of a step.  They are awaited one after the other and touch    *)
(* nothing but the locals of the step, so they are one action here.          *)

\* Slip: an entry is recovered as of now.
ObservedAt_Now(a, i) == act[a].at

\* An entry is recovered as of its own time.
ObservedAt(a, i) == IF Step(a).op = "backfill" THEN act[a].seen[i].at ELSE act[a].at

\* What the lookup of an item may return, and what stands for one that raises.
Outcomes(a, i) ==
    IF Step(a).op = "backfill" THEN Closes(ObservedAt(a, i)) ELSE Captures(ObservedAt(a, i))

\* Slip: an exception leaves an observation that does not say what went wrong.
Raised_WithoutError(a, i) == [Unavailable("transport", ObservedAt(a, i)) EXCEPT !.error = None]

Raised(a, i) == Unavailable("transport", ObservedAt(a, i))

Observe(a, raising, new) ==
    /\ \A i \in DOMAIN new : new[i] \in IF i \in raising THEN {Raised(a, i)} ELSE Outcomes(a, i)
    /\ Move(a, [act[a] EXCEPT !.pc = "write",
                              !.got = [i \in Items |-> IF i \in DOMAIN new THEN new[i] ELSE None]])
    /\ UNCHANGED <<storeVars, clock, shown, run>>

Replies(a) ==
    LET items == ToObserve(a, act[a].seen)
    IN  [items -> UNION {Outcomes(a, i) \cup {Raised(a, i)} : i \in items}]

Lookup(a) ==
    /\ At(a, "lookup")
    /\ \E new \in Replies(a) : Observe(a, {}, new)
    /\ UNCHANGED faults

\* Slip: an exception of one lookup ends the step without its sibling items.
LookupRaises_Aborts(a) ==
    /\ At(a, "lookup") /\ MayFault("lookup") /\ faults' = faults \cup {"lookup"}
    /\ Move(a, NextStep(a))
    /\ UNCHANGED <<storeVars, clock, shown, run>>

\* A lookup that raises counts as an unavailable price, and its siblings go on.
LookupRaises(a) ==
    /\ At(a, "lookup") /\ MayFault("lookup") /\ faults' = faults \cup {"lookup"}
    /\ \E i \in ToObserve(a, act[a].seen), new \in Replies(a) : Observe(a, {i}, new)

----------------------------------------------------------------------------
(* The end of a step *)

\* Slip: the lookups are counted, not the prices they found.
Counted_Attempts(a) == {i \in Items : act[a].got[i] # None}

Counted(a) == {i \in Items : act[a].got[i] # None /\ Priced(act[a].got[i])}

Write(a) ==
    /\ At(a, "write")
    /\ \/ Step(a).op = "record" /\ StoreEntries(act[a].got) /\ Move(a, NextStep(a))
       \/ /\ Step(a).op = "backfill" /\ BackfillEntries(act[a].got)
          /\ Move(a, Fresh(act[a].phase + 1, Counted(a)))
       \/ /\ Step(a).op = "refresh" /\ UpsertLatest(act[a].got)
          /\ Move(a, [act[a] EXCEPT !.pc = "answered"])
    /\ UNCHANGED <<clock, shown, run, faults>>

\* Slip: a lookup of this query stands in for a missing entry price.
Answer_FromLookup(a) ==
    [i \in Items |->
        IF act[a].seen[i] = None THEN None
        ELSE [entry |-> IF Priced(act[a].seen[i]) \/ act[a].got[i] = None
                        THEN act[a].seen[i] ELSE act[a].got[i],
              latest |-> act[a].got[i]]]

\* _item: the entries as read, each with its latest observation.
Answer(a) ==
    [i \in Items |-> IF act[a].seen[i] = None THEN None
                     ELSE [entry |-> act[a].seen[i], latest |-> act[a].got[i]]]

\* Slip: the run is not recorded.
Summarize_NoOutcome(a) ==
    At(a, "answered") /\ a \notin Page /\ Move(a, NextStep(a))
    /\ UNCHANGED <<storeVars, clock, shown, run, faults>>

\* The worker's summary is ready and its run is recorded as completed.
Summarize(a) ==
    /\ At(a, "answered") /\ a \notin Page
    /\ run' = IF run = "running" THEN "completed" ELSE run
    /\ Move(a, NextStep(a))
    /\ UNCHANGED <<storeVars, clock, shown, faults>>

\* The answer arrives at the page: replaceHistoryRun and replaceHistoryItem.
Deliver(a) ==
    /\ At(a, "answered") /\ a \in Page
    /\ shown' = [i \in Items |-> IF (i \in Delivered[a] \/ Step(a).op = "load") /\ Answer(a)[i] # None
                                 THEN Answer(a)[i] ELSE shown[i]]
    /\ Move(a, NextStep(a))
    /\ UNCHANGED <<storeVars, clock, run, faults>>

\* The database fails a read or a write.  Recording and the daily recovery log it;
\* the summary of a scheduled run fails the run; a request of the page fails.
DatabaseFails(a) ==
    /\ At(a, "begin") \/ At(a, "write")
    /\ At(a, "begin") => Step(a).op # "record" /\ MayBegin(a)
    /\ MayFault("database")
    /\ faults' = faults \cup {"database"}
    /\ run' = IF a \notin Page /\ Step(a).op = "refresh" THEN "failed" ELSE run
    /\ Move(a, IF a \in Page THEN Fresh(Len(Program[a]) + 1, {}) ELSE NextStep(a))
    /\ UNCHANGED <<storeVars, clock, shown>>

----------------------------------------------------------------------------

Progress(a) ==
    BeginRecord(a) \/ BeginQuery(a) \/ Lookup(a) \/ Write(a) \/ Summarize(a) \/ Deliver(a)

Next == \E a \in Actors : Progress(a) \/ LookupRaises(a) \/ DatabaseFails(a)

\* Every call of a database or a provider has a timeout, so something goes on
\* while anything is left to do; who is served first is left open.
Fairness == WF_vars(\E a \in Actors : Progress(a))

Spec == Init /\ [][Next]_vars /\ Fairness

----------------------------------------------------------------------------
(* Properties *)

Ledger == INSTANCE PriceLedger WITH Observations <- Snapshots

\* The table is the ledger: an entry is written once, of its own time, may still
\* get a price and never loses one, whichever queries and recoveries overlap.
LedgerKept == Ledger!LedgerSpec

\* What follows a recovery covers its items: the page has the whole run answered.
LaterStepsCover ==
    \A a \in Actors : \A m, n \in DOMAIN Program[a] :
        Program[a][m].op = "backfill" /\ m < n => Program[a][m].scope \subseteq Program[a][n].scope

\* What an answer or the page shows as an entry price is the stored one, however
\* old the read it came from: a stale row can lack a price, never show another.
ShownEntryIsStored ==
    /\ \A i \in Items : shown[i] # None /\ Priced(shown[i].entry) => shown[i].entry = entry[i]
    /\ \A a \in Actors, i \in Items :
          act[a].seen[i] # None /\ Priced(act[a].seen[i]) => act[a].seen[i] = entry[i]

\* The entries a recovery counts have a price from then on, also where an overlapping
\* recovery had written its row first, and the answer to the page that follows shows it.
RecoveredCountIsTrue ==
    \A a \in Actors : \A i \in act[a].recovered :
        Priced(entry[i]) /\ (At(a, "answered") => Priced(act[a].seen[i]))

\* Unless the database failed, every pick of the run has an entry when its recording
\* is over, whatever its own and its siblings' lookups did.
PicksRecorded ==
    \A a \in Actors : \A n \in DOMAIN Program[a] :
        Program[a][n].op = "record" /\ act[a].phase > n =>
            \/ "database" \in faults
            \/ \A i \in Program[a][n].scope : entry[i] # None

\* Whatever was begun comes to an end, and the scheduled run gets its outcome.
QueriesSettle ==
    <>[](run # "running" /\ \A a \in Actors : Done(a) \/ act[a].pc = "begin")
=============================================================================
