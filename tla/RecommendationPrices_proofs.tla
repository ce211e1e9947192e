--------------------- MODULE RecommendationPrices_proofs ----------------------
(***************************************************************************)
(* Proofs about RecommendationPrices, for every set of items, actors and   *)
(* programs, every provider and any number of faults.                      *)
(***************************************************************************)
EXTENDS RecommendationPrices, TLAPS

\* What the locals of an actor say of the table: the entries it has read are still there
\* and of the same time, and what it is about to write fits the entries it has read.
Fits(a) ==
    /\ act[a].phase >= 1
    /\ \A i \in Items : act[a].seen[i] # None =>
          entry[i] # None /\ entry[i].at = act[a].seen[i].at
    /\ At(a, "answered") => Step(a).op # "record"
    /\ At(a, "write") => \A i \in Items :
          IF Step(a).op = "record" THEN i \in Step(a).scope => act[a].got[i] # None
          ELSE act[a].got[i] # None =>
                   /\ act[a].seen[i] # None
                   /\ Step(a).op = "backfill" => act[a].got[i].at = act[a].seen[i].at

IInv == TypeOK /\ (\A a \in Actors : Fits(a)) /\ ShownEntryIsStored /\ PicksRecorded

\* What every step leaves of the entries.
Grow ==
    \A i \in Items : entry[i] # None =>
        /\ entry'[i] # None /\ entry'[i].at = entry[i].at
        /\ Priced(entry[i]) => entry'[i] = entry[i]

----------------------------------------------------------------------------
(* Observations and locals.                                                *)

LEMMA RaisedTyped ==
    ASSUME NEW t \in Times
    PROVE  Unavailable("transport", t) \in Snapshots /\ Unavailable("transport", t).at = t
BY LookupAssumption DEF Unavailable, Snapshots, ErrorKinds

LEMMA SnapshotShape ==
    ASSUME NEW o \in Snapshots
    PROVE  o # None /\ o.at \in Times /\ o.status \in {"available", "unavailable"}
BY PricesAssumption DEF Snapshots

LEMMA OutcomesTyped ==
    ASSUME NEW t \in Times
    PROVE  \A o \in Captures(t) \cup Closes(t) : o \in Snapshots /\ o.at = t
BY PricesAssumption

LEMMA MoveTyped ==
    ASSUME act \in [Actors -> Local], NEW a \in Actors, NEW l \in Local, Move(a, l)
    PROVE  act' \in [Actors -> Local] /\ act'[a] = l /\ \A b \in Actors \ {a} : act'[b] = act[b]
BY DEF Move

LEMMA NoRowsTyped == NoRows \in Rows /\ \A i \in Items : NoRows[i] = None
BY DEF NoRows, Rows

LEMMA FreshTyped ==
    ASSUME NEW n \in Nat, NEW r \in SUBSET Items
    PROVE  Fresh(n, r) \in Local
BY NoRowsTyped, PricesAssumption, LookupAssumption DEF Fresh, Local, Times

LEMMA ElementsTyped ==
    ASSUME NEW S, NEW s \in Seq(S), NEW n \in 1 .. Len(s)
    PROVE  n \in DOMAIN s /\ s[n] \in S
OBVIOUS

\* A step that is not over is one of the program.
LEMMA StepTyped ==
    ASSUME TypeOK, NEW a \in Actors, act[a].phase >= 1, ~Done(a)
    PROVE  /\ act[a].phase \in DOMAIN Program[a]
           /\ Step(a) \in [op : Ops, scope : SUBSET Items]
<1>1. act[a].phase \in Nat /\ Program[a] \in Seq([op : Ops, scope : SUBSET Items])
  BY PricesAssumption DEF TypeOK, Local
<1>2. act[a].phase \in 1 .. Len(Program[a])
  BY <1>1 DEF Done
<1> QED
  BY <1>1, <1>2, ElementsTyped DEF Step

\* The rows an actor has observed are typed, and of the time they are observed for.
LEMMA LookupTyped ==
    ASSUME TypeOK, NEW a \in Actors, Fits(a), At(a, "lookup"),
           NEW i \in ToObserve(a, act[a].seen)
    PROVE  /\ i \in Items /\ ObservedAt(a, i) \in Times
           /\ \A o \in Outcomes(a, i) \cup {Raised(a, i)} : o \in Snapshots /\ o.at = ObservedAt(a, i)
<1>1. i \in Items
  BY StepTyped DEF ToObserve, At, Fits
<1>2. act[a].at \in Times /\ act[a].seen \in Rows
  BY DEF TypeOK, Local
<1>3. ObservedAt(a, i) \in Times
  BY <1>1, <1>2, SnapshotShape DEF ObservedAt, ToObserve, Rows
<1>4. Raised(a, i) \in Snapshots /\ Raised(a, i).at = ObservedAt(a, i)
  BY <1>3, RaisedTyped DEF Raised
<1>5. \A o \in Outcomes(a, i) : o \in Snapshots /\ o.at = ObservedAt(a, i)
  BY <1>3, OutcomesTyped DEF Outcomes
<1> QED
  BY <1>1, <1>3, <1>4, <1>5

----------------------------------------------------------------------------
(* The actions one by one: each replaces the locals of its actor by typed  *)
(* ones that fit, and only two of them write entries.                      *)

\* The locals of an actor that goes on with its program are typed and fit.
LEMMA NextStepFits ==
    ASSUME IInv, NEW a \in Actors
    PROVE  NextStep(a) \in Local /\ NextStep(a).phase >= 1
BY FreshTyped DEF IInv, TypeOK, Local, NextStep, Fresh, Fits

\* Observe leaves the observations of a step in its locals.
LEMMA ObserveTyped ==
    ASSUME IInv, NEW a \in Actors, At(a, "lookup"), NEW raising, NEW new \in Replies(a),
           Observe(a, raising, new)
    PROVE  /\ \A i \in ToObserve(a, act[a].seen) :
                  i \in Items /\ new[i] \in Snapshots /\ new[i].at = ObservedAt(a, i)
           /\ DOMAIN new = ToObserve(a, act[a].seen)
           /\ [i \in Items |-> IF i \in DOMAIN new THEN new[i] ELSE None] \in Rows
<1>1. DOMAIN new = ToObserve(a, act[a].seen)
  BY DEF Replies
<1>2. ASSUME NEW i \in ToObserve(a, act[a].seen)
      PROVE  i \in Items /\ new[i] \in Snapshots /\ new[i].at = ObservedAt(a, i)
  <2>1. new[i] \in Outcomes(a, i) \cup {Raised(a, i)}
    BY <1>1, <1>2 DEF Observe
  <2> QED
    BY <2>1, <1>2, LookupTyped DEF IInv
<1> QED
  BY <1>1, <1>2 DEF Rows

\* A write changes no entry but those without a price, and leaves their time.
LEMMA WriteGrows ==
    ASSUME IInv, NEW a \in Actors, Write(a)
    PROVE  Grow /\ entry' \in Rows /\ latest' \in Rows
<1>1. act[a] \in Local /\ entry \in Rows /\ latest \in Rows
  BY DEF IInv, TypeOK
<1>2. act[a].got \in Rows /\ act[a].seen \in Rows
  BY <1>1 DEF Local
<1>3. \A i \in Items : entry[i] # None => entry[i] \in Snapshots
  BY <1>1 DEF Rows
<1>4. CASE Step(a).op = "record" /\ StoreEntries(act[a].got)
  BY <1>1, <1>2, <1>4 DEF StoreEntries, Grow, Rows
<1>5. CASE Step(a).op = "backfill" /\ BackfillEntries(act[a].got)
  <2>1. \A i \in Items : act[a].got[i] # None => act[a].got[i].at = act[a].seen[i].at /\ act[a].seen[i] # None
    BY <1>5 DEF Write, IInv, Fits
  <2>2. \A i \in Items : act[a].seen[i] # None => entry[i].at = act[a].seen[i].at
    BY DEF IInv, Fits
  <2> QED
    BY <1>1, <1>2, <1>3, <1>5, <2>1, <2>2 DEF BackfillEntries, Unpriced, Grow, Rows
<1>6. CASE Step(a).op = "refresh" /\ UpsertLatest(act[a].got)
  BY <1>1, <1>2, <1>6 DEF UpsertLatest, Grow, Rows
<1> QED
  BY <1>4, <1>5, <1>6 DEF Write

\* No step takes an entry or its price away.
LEMMA EntriesGrow ==
    ASSUME IInv, [Next]_vars
    PROVE  Grow
<1>1. CASE UNCHANGED entry
  BY <1>1 DEF Grow
<1>2. ASSUME NEW a \in Actors, Write(a) PROVE Grow
  BY <1>2, WriteGrows
<1> QED
  BY <1>1, <1>2 DEF Next, Progress, vars, storeVars, BeginRecord, BeginQuery, Lookup, Observe, LookupRaises,
     Summarize, Deliver, DatabaseFails

LEMMA FreshFits ==
    ASSUME NEW a \in Actors, NEW n \in Nat, n >= 1, NEW r, act'[a] = Fresh(n, r)
    PROVE  Fits(a)'
BY NoRowsTyped DEF Fits, Fresh, At

\* What each action leaves: typed variables, and locals of its actor that fit.
LEMMA BeginRecordKeeps ==
    ASSUME IInv, NEW a \in Actors, BeginRecord(a)
    PROVE  TypeOK' /\ Fits(a)'
<1>1. act[a] \in Local /\ clock \in 0 .. MaxTime - 1 /\ MaxTime \in Nat
  BY LookupAssumption DEF IInv, TypeOK
<1> DEFINE l == [act[a] EXCEPT !.at = clock + 1, !.pc = "lookup"]
<1>2. l \in Local /\ clock' \in 0 .. MaxTime - 1
  <2>1. clock' = clock + 1 /\ clock + 1 \in 0 .. MaxTime - 1 /\ clock + 1 \in Times
    BY <1>1 DEF BeginRecord, Times
  <2> QED
    BY <1>1, <2>1 DEF Local
<1>3. act' \in [Actors -> Local] /\ act'[a] = l
  BY <1>2, MoveTyped DEF BeginRecord, IInv, TypeOK
<1>4. TypeOK'
  BY <1>2, <1>3 DEF BeginRecord, IInv, TypeOK, storeVars, Rows
<1>5. act'[a].phase = act[a].phase /\ act'[a].seen = act[a].seen /\ act'[a].pc = "lookup"
  BY <1>1, <1>3 DEF Local
<1> QED
  BY <1>4, <1>5 DEF BeginRecord, IInv, Fits, At, Done, storeVars

LEMMA BeginQueryKeeps ==
    ASSUME IInv, NEW a \in Actors, BeginQuery(a)
    PROVE  TypeOK' /\ Fits(a)'
<1>1. act[a] \in Local /\ clock \in 0 .. MaxTime - 1 /\ MaxTime \in Nat /\ entry \in Rows /\ latest \in Rows
  BY LookupAssumption DEF IInv, TypeOK
<1> DEFINE read == [act[a] EXCEPT !.at = clock + 1, !.seen = InScope(a, entry),
                        !.got = IF Step(a).op = "load" THEN InScope(a, latest) ELSE NoRows]
<1>2. InScope(a, entry) \in Rows /\ InScope(a, latest) \in Rows /\ clock + 1 \in Times
  BY <1>1 DEF InScope, Rows, Times
<1>3. read \in Local /\ [read EXCEPT !.pc = "lookup"] \in Local /\ [read EXCEPT !.pc = "answered"] \in Local
  BY <1>1, <1>2, NoRowsTyped DEF Local
<1>4. ASSUME NEW pc \in {"lookup", "answered"}, Move(a, [read EXCEPT !.pc = pc])
      PROVE  act' \in [Actors -> Local] /\ Fits(a)'
  <2>1. act' \in [Actors -> Local] /\ act'[a] = [read EXCEPT !.pc = pc]
    BY <1>3, <1>4, MoveTyped DEF IInv, TypeOK
  <2>2. act'[a].phase = act[a].phase /\ act'[a].seen = InScope(a, entry) /\ act'[a].pc = pc
    BY <1>1, <2>1 DEF Local
  <2>3. Step(a)' = Step(a) /\ Step(a).op # "record" /\ entry' = entry
    BY <2>2 DEF Step, BeginQuery, storeVars
  <2>4. \A i \in Items : act'[a].seen[i] # None => entry'[i] # None /\ entry'[i].at = act'[a].seen[i].at
    BY <2>2, <2>3 DEF InScope
  <2> QED
    BY <2>1, <2>2, <2>3, <2>4 DEF Fits, IInv, At
<1>5. act' \in [Actors -> Local] /\ Fits(a)'
  <2>1. \/ Move(a, [read EXCEPT !.pc = "lookup"]) \/ Move(a, NextStep(a))
        \/ Move(a, [read EXCEPT !.pc = "answered"])
    BY DEF BeginQuery
  <2>2. CASE Move(a, NextStep(a))
    <3>1. act' \in [Actors -> Local] /\ act'[a] = NextStep(a)
      BY <2>2, NextStepFits, MoveTyped DEF IInv, TypeOK
    <3> QED
      BY <1>1, <3>1, FreshFits DEF NextStep, IInv, Fits, Local
  <2> QED
    BY <2>1, <2>2, <1>4
<1> QED
  BY <1>5 DEF BeginQuery, IInv, TypeOK, storeVars, Rows

LEMMA ObserveKeeps ==
    ASSUME IInv, NEW a \in Actors, At(a, "lookup"), NEW raising, NEW new \in Replies(a),
           Observe(a, raising, new), faults' \in SUBSET MayFail
    PROVE  TypeOK' /\ Fits(a)'
<1> DEFINE got == [i \in Items |-> IF i \in DOMAIN new THEN new[i] ELSE None]
           l == [act[a] EXCEPT !.pc = "write", !.got = got]
<1>1. act[a] \in Local
  BY DEF IInv, TypeOK
<1>2. got \in Rows /\ DOMAIN new = ToObserve(a, act[a].seen)
  BY ObserveTyped
<1>3. l \in Local
  BY <1>1, <1>2 DEF Local
<1>4. act' \in [Actors -> Local] /\ act'[a] = l
  BY <1>3, MoveTyped DEF Observe, IInv, TypeOK
<1>5. act'[a].phase = act[a].phase /\ act'[a].seen = act[a].seen /\ act'[a].pc = "write" /\ act'[a].got = got
  BY <1>1, <1>4 DEF Local
<1>6. Step(a)' = Step(a) /\ entry' = entry
  BY <1>5 DEF Step, Observe, storeVars
<1>7. ASSUME NEW i \in Items
      PROVE  IF Step(a).op = "record" THEN i \in Step(a).scope => got[i] # None
             ELSE got[i] # None => /\ act[a].seen[i] # None
                                   /\ Step(a).op = "backfill" => got[i].at = act[a].seen[i].at
  <2>1. ASSUME i \in DOMAIN new
        PROVE  got[i] # None /\ got[i].at = ObservedAt(a, i)
    BY <2>1, <1>2, ObserveTyped, SnapshotShape
  <2>2. i \notin DOMAIN new => got[i] = None
    OBVIOUS
  <2>3. Step(a).op = "record" /\ i \in Step(a).scope => i \in DOMAIN new
    BY <1>2 DEF ToObserve
  <2>4. i \in DOMAIN new /\ Step(a).op # "record" => act[a].seen[i] # None
    BY <1>2 DEF ToObserve
  <2> QED
    BY <2>1, <2>2, <2>3, <2>4 DEF ObservedAt
<1>8. TypeOK'
  BY <1>4 DEF Observe, IInv, TypeOK, storeVars, Rows
<1> QED
  BY <1>5, <1>6, <1>7, <1>8 DEF Fits, IInv, At

LEMMA WriteKeeps ==
    ASSUME IInv, NEW a \in Actors, Write(a)
    PROVE  TypeOK' /\ Fits(a)'
<1>1. act[a] \in Local /\ act[a].phase >= 1 /\ Grow /\ entry' \in Rows /\ latest' \in Rows
  BY WriteGrows DEF IInv, TypeOK, Fits
<1>2. ASSUME NEW r \in SUBSET Items, act' = [act EXCEPT ![a] = Fresh(act[a].phase + 1, r)]
      PROVE  act' \in [Actors -> Local] /\ Fits(a)'
  <2>1. act[a].phase + 1 \in Nat /\ act[a].phase + 1 >= 1
    BY <1>1 DEF Local
  <2>2. act' \in [Actors -> Local] /\ act'[a] = Fresh(act[a].phase + 1, r)
    BY <2>1, <1>2, FreshTyped DEF IInv, TypeOK
  <2> QED
    BY <2>1, <2>2, FreshFits
<1>3. act' \in [Actors -> Local] /\ Fits(a)'
  <2>1. CASE Step(a).op = "record" /\ Move(a, NextStep(a))
    <3>1. act[a].recovered \in SUBSET Items
      BY <1>1 DEF Local
    <3> QED
      BY <3>1, <1>2, <2>1 DEF NextStep, Move
  <2>2. CASE Step(a).op = "backfill" /\ Move(a, Fresh(act[a].phase + 1, Counted(a)))
    <3>1. Counted(a) \in SUBSET Items
      BY DEF Counted
    <3> QED
      BY <3>1, <1>2, <2>2 DEF Move
  <2>3. CASE Step(a).op = "refresh" /\ Move(a, [act[a] EXCEPT !.pc = "answered"])
    <3>1. [act[a] EXCEPT !.pc = "answered"] \in Local
      BY <1>1 DEF Local
    <3>2. act' \in [Actors -> Local] /\ act'[a] = [act[a] EXCEPT !.pc = "answered"]
      BY <3>1, <2>3, MoveTyped DEF IInv, TypeOK
    <3>3. act'[a].phase = act[a].phase /\ act'[a].seen = act[a].seen /\ act'[a].pc = "answered"
      BY <1>1, <3>2 DEF Local
    <3>4. Step(a)' = Step(a)
      BY <3>3 DEF Step
    <3>5. \A i \in Items : act[a].seen[i] # None =>
              entry'[i] # None /\ entry'[i].at = act[a].seen[i].at
      BY <1>1 DEF Grow, IInv, Fits
    <3>6. ~At(a, "write")' /\ Step(a)'.op # "record" /\ act'[a].phase >= 1
      BY <1>1, <2>3, <3>3, <3>4 DEF At
    <3> QED
      BY <3>2, <3>3, <3>5, <3>6 DEF Fits
  <2> QED
    BY <2>1, <2>2, <2>3 DEF Write
<1> QED
  BY <1>1, <1>3 DEF Write, IInv, TypeOK

\* What an answer shows is typed, and a price in it is the stored one.
LEMMA AnswerTyped ==
    ASSUME IInv, NEW a \in Actors, NEW i \in Items
    PROVE  /\ Answer(a)[i] \in Shown
           /\ Answer(a)[i] # None /\ Priced(Answer(a)[i].entry) => Answer(a)[i].entry = entry[i]
<1>1. act[a].seen \in Rows /\ act[a].got \in Rows
  BY DEF IInv, TypeOK, Local
<1> QED
  BY <1>1 DEF Answer, Shown, Rows, IInv, ShownEntryIsStored

LEMMA AnsweredKeeps ==
    ASSUME IInv, NEW a \in Actors, Summarize(a) \/ Deliver(a)
    PROVE  TypeOK' /\ Fits(a)'
<1>1. act' \in [Actors -> Local] /\ act'[a] = NextStep(a)
  BY NextStepFits, MoveTyped DEF Summarize, Deliver, IInv, TypeOK
<1>2. act[a].phase + 1 \in Nat /\ act[a].phase + 1 >= 1
  BY DEF IInv, TypeOK, Local, Fits
<1>3. Fits(a)'
  BY <1>1, <1>2, FreshFits DEF NextStep
<1>4. shown' \in [Items -> Shown] /\ run' \in {"running", "completed", "failed"}
  BY AnswerTyped DEF Summarize, Deliver, IInv, TypeOK
<1> QED
  BY <1>1, <1>3, <1>4 DEF Summarize, Deliver, IInv, TypeOK, storeVars, Rows

LEMMA DatabaseFailsKeeps ==
    ASSUME IInv, NEW a \in Actors, DatabaseFails(a)
    PROVE  TypeOK' /\ Fits(a)'
<1>1. Len(Program[a]) + 1 \in Nat /\ Len(Program[a]) + 1 >= 1
  BY PricesAssumption
<1>2. act[a].phase + 1 \in Nat /\ act[a].phase + 1 >= 1
  BY DEF IInv, TypeOK, Local, Fits
<1>3. CASE a \in Page
  <2>1. act' \in [Actors -> Local] /\ act'[a] = Fresh(Len(Program[a]) + 1, {})
    BY <1>1, <1>3, FreshTyped, MoveTyped DEF DatabaseFails, IInv, TypeOK
  <2> QED
    BY <1>1, <2>1, FreshFits DEF DatabaseFails, IInv, TypeOK, storeVars, Rows, MayFault
<1>4. CASE a \notin Page
  <2>1. act' \in [Actors -> Local] /\ act'[a] = NextStep(a)
    BY <1>4, NextStepFits, MoveTyped DEF DatabaseFails, IInv, TypeOK
  <2> QED
    BY <1>2, <2>1, FreshFits DEF NextStep, DatabaseFails, IInv, TypeOK, storeVars, Rows, MayFault
<1> QED
  BY <1>3, <1>4

\* An action leaves typed variables and locals of its actor that fit.
LEMMA ActionKeeps ==
    ASSUME IInv, NEW a \in Actors, Progress(a) \/ LookupRaises(a) \/ DatabaseFails(a)
    PROVE  TypeOK' /\ Fits(a)'
<1>1. CASE Lookup(a)
  <2>1. PICK new \in Replies(a) : Observe(a, {}, new)
    BY <1>1 DEF Lookup
  <2> QED
    BY <1>1, <2>1, ObserveKeeps DEF Lookup, IInv, TypeOK
<1>2. CASE LookupRaises(a)
  <2>1. PICK i \in ToObserve(a, act[a].seen), new \in Replies(a) : Observe(a, {i}, new)
    BY <1>2 DEF LookupRaises
  <2>2. faults' \in SUBSET MayFail
    BY <1>2 DEF LookupRaises, MayFault, IInv, TypeOK
  <2> QED
    BY <1>2, <2>1, <2>2, ObserveKeeps DEF LookupRaises
<1> QED
  BY <1>1, <1>2, BeginRecordKeeps, BeginQueryKeeps, WriteKeeps, AnsweredKeeps, DatabaseFailsKeeps
     DEF Progress

\* An action leaves the locals of the other actors alone.
LEMMA OthersRest ==
    ASSUME IInv, NEW a \in Actors, Progress(a) \/ LookupRaises(a) \/ DatabaseFails(a),
           NEW b \in Actors, b # a
    PROVE  act'[b] = act[b]
<1> USE DEF IInv, TypeOK, Move
<1>1. BeginRecord(a) \/ BeginQuery(a) => act'[b] = act[b]
  BY DEF BeginRecord, BeginQuery
<1>2. Lookup(a) \/ LookupRaises(a) => act'[b] = act[b]
  BY DEF Lookup, LookupRaises, Observe
<1>3. Write(a) => act'[b] = act[b]
  BY DEF Write
<1>4. Summarize(a) \/ Deliver(a) \/ DatabaseFails(a) => act'[b] = act[b]
  BY DEF Summarize, Deliver, DatabaseFails
<1> QED
  BY <1>1, <1>2, <1>3, <1>4 DEF Progress

\* What an actor knows of the table outlives the steps of the others.
LEMMA FitsStays ==
    ASSUME IInv, Grow, NEW b \in Actors, act'[b] = act[b]
    PROVE  Fits(b)'
<1>1. Fits(b)
  BY DEF IInv
<1>2. Step(b)' = Step(b) /\ (At(b, "answered")' <=> At(b, "answered")) /\ (At(b, "write")' <=> At(b, "write"))
  BY DEF Step, At, Done
<1>3. \A i \in Items : act[b].seen[i] # None => entry'[i] # None /\ entry'[i].at = act[b].seen[i].at
  BY <1>1 DEF Fits, Grow
<1> QED
  BY <1>1, <1>2, <1>3 DEF Fits

\* The type and the locals through every step.
LEMMA LocalsKept ==
    ASSUME IInv, [Next]_vars
    PROVE  TypeOK' /\ \A b \in Actors : Fits(b)'
<1>1. Grow
  BY EntriesGrow
<1>2. CASE UNCHANGED vars
  BY <1>2 DEF vars, IInv, TypeOK, Fits, At, Step, Done, Rows
<1>3. ASSUME NEW a \in Actors, Progress(a) \/ LookupRaises(a) \/ DatabaseFails(a)
      PROVE  TypeOK' /\ \A b \in Actors : Fits(b)'
  BY <1>1, <1>3, ActionKeeps, OthersRest, FitsStays
<1> QED
  BY <1>2, <1>3 DEF Next

----------------------------------------------------------------------------
(* What an actor has read, and how far it is.                              *)

\* A lookup leaves its actor where it is in its program, with the rows it has read.
LEMMA LookupMoves ==
    ASSUME IInv, NEW a \in Actors, Lookup(a) \/ LookupRaises(a)
    PROVE  act'[a].seen = act[a].seen /\ act'[a].phase = act[a].phase
<1>1. act[a] \in Local /\ act \in [Actors -> Local]
  BY DEF IInv, TypeOK
<1>2. PICK new \in Replies(a), raising \in {{}} \cup {{i} : i \in ToObserve(a, act[a].seen)} :
          Observe(a, raising, new)
  <2>1. CASE Lookup(a)
    BY <2>1 DEF Lookup
  <2>2. CASE LookupRaises(a)
    <3>1. PICK i \in ToObserve(a, act[a].seen), new \in Replies(a) : Observe(a, {i}, new)
      BY <2>2 DEF LookupRaises
    <3> QED
      BY <3>1
  <2> QED
    BY <2>1, <2>2
<1> DEFINE got == [i \in Items |-> IF i \in DOMAIN new THEN new[i] ELSE None]
<1>3. act' = [act EXCEPT ![a] = [act[a] EXCEPT !.pc = "write", !.got = got]]
  BY <1>2 DEF Observe, Move
<1> HIDE DEF got
<1> QED
  BY <1>1, <1>3 DEF Local

\* An action keeps the rows its actor has read, drops them, or reads them anew.
LEMMA SeenAfter ==
    ASSUME IInv, NEW a \in Actors, Progress(a) \/ LookupRaises(a) \/ DatabaseFails(a)
    PROVE  \/ act'[a].seen = act[a].seen
           \/ act'[a].seen = NoRows
           \/ act'[a].seen = InScope(a, entry) /\ entry' = entry
<1>1. act[a] \in Local /\ act \in [Actors -> Local]
  BY DEF IInv, TypeOK
<1>2. CASE BeginQuery(a)
  BY <1>1, <1>2 DEF BeginQuery, Move, NextStep, Fresh, storeVars, Local
<1>3. CASE BeginRecord(a)
  BY <1>1, <1>3 DEF BeginRecord, Move, Local
<1>4. CASE Lookup(a) \/ LookupRaises(a)
  BY <1>4, LookupMoves
<1>5. CASE Write(a)
  BY <1>1, <1>5 DEF Write, Move, NextStep, Fresh, Local
<1>6. CASE Summarize(a) \/ Deliver(a) \/ DatabaseFails(a)
  BY <1>1, <1>6 DEF Summarize, Deliver, DatabaseFails, Move, NextStep, Fresh, Local
<1> QED
  BY <1>2, <1>3, <1>4, <1>5, <1>6 DEF Progress

\* An actor gets past a recording by its write, or because the database has failed.
LEMMA PhaseAfter ==
    ASSUME IInv, NEW a \in Actors, Progress(a) \/ LookupRaises(a) \/ DatabaseFails(a)
    PROVE  \/ act'[a].phase = act[a].phase
           \/ "database" \in faults'
           \/ act'[a].phase = act[a].phase + 1 /\ (Step(a).op = "record" => Write(a))
<1>1. act[a] \in Local /\ act \in [Actors -> Local] /\ faults \subseteq MayFail
  BY DEF IInv, TypeOK
<1>2. CASE BeginQuery(a)
  BY <1>1, <1>2 DEF BeginQuery, Move, NextStep, Fresh, Local
<1>3. CASE BeginRecord(a)
  BY <1>1, <1>3 DEF BeginRecord, Move, Local
<1>4. CASE Lookup(a) \/ LookupRaises(a)
  BY <1>4, LookupMoves
<1>5. CASE Write(a)
  BY <1>1, <1>5 DEF Write, Move, NextStep, Fresh, Local
<1>6. CASE Summarize(a) \/ Deliver(a)
  <2>1. Step(a).op # "record"
    BY <1>6 DEF Summarize, Deliver, IInv, Fits
  <2> QED
    BY <1>1, <1>6, <2>1 DEF Summarize, Deliver, Move, NextStep, Fresh, Local
<1>7. CASE DatabaseFails(a)
  BY <1>7 DEF DatabaseFails
<1> QED
  BY <1>2, <1>3, <1>4, <1>5, <1>6, <1>7 DEF Progress

\* No fault is forgotten.
LEMMA FaultsGrow ==
    ASSUME [Next]_vars
    PROVE  faults \subseteq faults'
BY DEF Next, Progress, vars, BeginRecord, BeginQuery, Lookup, LookupRaises, Write, Summarize, Deliver,
   DatabaseFails

\* Only an answer changes what the page shows.
LEMMA ShownAfter ==
    ASSUME [Next]_vars
    PROVE  \/ shown' = shown
           \/ /\ entry' = entry
              /\ \E a \in Actors : shown' =
                    [i \in Items |-> IF (i \in Delivered[a] \/ Step(a).op = "load") /\ Answer(a)[i] # None
                                     THEN Answer(a)[i] ELSE shown[i]]
BY DEF Next, Progress, vars, storeVars, BeginRecord, BeginQuery, Lookup, LookupRaises, Observe, Write,
   Summarize, Deliver, DatabaseFails

\* A price that is shown or held is the stored one, and stays it through every step.
LEMMA ShownKept ==
    ASSUME IInv, [Next]_vars
    PROVE  ShownEntryIsStored'
<1>1. Grow
  BY EntriesGrow
<1>2. ASSUME NEW i \in Items, shown'[i] # None, Priced(shown'[i].entry)
      PROVE  shown'[i].entry = entry'[i]
  <2>1. CASE shown' = shown
    <3>1. shown[i].entry = entry[i] /\ shown[i].entry \in Snapshots
      BY <1>2, <2>1 DEF IInv, ShownEntryIsStored, TypeOK, Shown
    <3> QED
      BY <1>1, <1>2, <2>1, <3>1, SnapshotShape DEF Grow
  <2>2. CASE shown' # shown
    <3>1. PICK a \in Actors :
              shown' = [j \in Items |-> IF (j \in Delivered[a] \/ Step(a).op = "load") /\ Answer(a)[j] # None
                                        THEN Answer(a)[j] ELSE shown[j]]
      BY <2>2, ShownAfter
    <3>2. entry' = entry
      BY <2>2, ShownAfter
    <3>3. shown'[i] = Answer(a)[i] \/ shown'[i] = shown[i]
      BY <3>1
    <3> QED
      BY <1>2, <3>2, <3>3, AnswerTyped DEF IInv, ShownEntryIsStored
  <2> QED
    BY <2>1, <2>2
<1>3. ASSUME NEW b \in Actors, NEW i \in Items, act'[b].seen[i] # None, Priced(act'[b].seen[i])
      PROVE  act'[b].seen[i] = entry'[i]
  <2>1. CASE act'[b].seen = act[b].seen
    <3>1. act[b].seen[i] = entry[i] /\ entry[i] # None
      BY <1>3, <2>1 DEF IInv, ShownEntryIsStored
    <3> QED
      BY <1>1, <1>3, <2>1, <3>1 DEF Grow
  <2>2. CASE act'[b].seen = NoRows
    BY <1>3, <2>2, NoRowsTyped
  <2>3. CASE act'[b].seen = InScope(b, entry) /\ entry' = entry
    BY <1>3, <2>3 DEF InScope
  <2>4. CASE UNCHANGED vars
    BY <2>1, <2>4 DEF vars
  <2>5. ASSUME NEW a \in Actors, Progress(a) \/ LookupRaises(a) \/ DatabaseFails(a)
        PROVE  \/ act'[b].seen = act[b].seen
               \/ act'[b].seen = NoRows
               \/ act'[b].seen = InScope(b, entry) /\ entry' = entry
    BY <2>5, SeenAfter, OthersRest
  <2> QED
    BY <2>1, <2>2, <2>3, <2>4, <2>5 DEF Next
<1> QED
  BY <1>2, <1>3 DEF ShownEntryIsStored

\* The write of a recording leaves an entry for every item of its scope.
LEMMA RecordingComplete ==
    ASSUME IInv, NEW a \in Actors, Write(a), Step(a).op = "record"
    PROVE  \A i \in Step(a).scope : entry'[i] # None
<1>1. Step(a).scope \subseteq Items
  BY StepTyped DEF Write, At, IInv, Fits
<1>2. \A i \in Step(a).scope : act[a].got[i] # None
  BY <1>1 DEF Write, IInv, Fits
<1>3. StoreEntries(act[a].got)
  BY DEF Write
<1> QED
  BY <1>1, <1>2, <1>3 DEF StoreEntries

\* A recording that is over has written its entries.
LEMMA PicksKept ==
    ASSUME IInv, [Next]_vars
    PROVE  PicksRecorded'
<1>1. Grow /\ faults \subseteq faults'
  BY EntriesGrow, FaultsGrow
<1>2. SUFFICES ASSUME NEW b \in Actors, NEW n \in DOMAIN Program[b],
                      Program[b][n].op = "record", act'[b].phase > n, "database" \notin faults'
               PROVE  \A i \in Program[b][n].scope : entry'[i] # None
  BY DEF PicksRecorded
<1>3. n \in Nat /\ act[b].phase \in Nat /\ Program[b][n].scope \subseteq Items
  <2>1. Program[b] \in Seq([op : Ops, scope : SUBSET Items])
    BY PricesAssumption
  <2>2. n \in 1 .. Len(Program[b])
    BY <2>1
  <2>3. Program[b][n] \in [op : Ops, scope : SUBSET Items]
    BY <2>1, <2>2, ElementsTyped
  <2> QED
    BY <2>2, <2>3 DEF IInv, TypeOK, Local
<1>4. CASE act[b].phase > n
  BY <1>1, <1>2, <1>3, <1>4 DEF IInv, PicksRecorded, Grow
<1>5. CASE ~(act[b].phase > n)
  <2>1. PICK a \in Actors : Progress(a) \/ LookupRaises(a) \/ DatabaseFails(a)
    BY <1>2, <1>5 DEF Next, vars
  <2>2. a = b
    BY <1>2, <1>5, <2>1, OthersRest
  <2>3. act'[b].phase = act[b].phase + 1 /\ (Step(b).op = "record" => Write(b))
    BY <1>2, <1>5, <2>1, <2>2, PhaseAfter
  <2>4. act[b].phase = n
    BY <1>2, <1>3, <1>5, <2>3
  <2> QED
    BY <1>2, <2>3, <2>4, RecordingComplete DEF Step
<1> QED
  BY <1>4, <1>5

----------------------------------------------------------------------------
(* The inductive invariant and what follows from it.                       *)

LEMMA InitInv == Init => IInv
<1> SUFFICES ASSUME Init PROVE IInv
  OBVIOUS
<1>1. \A a \in Actors : Fresh(1, {}) \in Local /\ act[a] = Fresh(1, {})
  BY FreshTyped DEF Init
<1>2. TypeOK
  BY <1>1, NoRowsTyped, PricesAssumption, LookupAssumption DEF Init, TypeOK, Rows, Shown
<1>3. \A a \in Actors : Fits(a)
  BY <1>1, NoRowsTyped DEF Fits, Fresh, At
<1>4. ShownEntryIsStored
  BY <1>1, NoRowsTyped DEF Init, ShownEntryIsStored, Fresh
<1>5. PicksRecorded
  <2>1. ASSUME NEW a \in Actors, NEW n \in DOMAIN Program[a]
        PROVE  ~(act[a].phase > n)
    <3>1. Program[a] \in Seq([op : Ops, scope : SUBSET Items])
      BY PricesAssumption
    <3>2. n \in Nat /\ n >= 1
      BY <3>1
    <3> QED
      BY <1>1, <3>2 DEF Fresh
  <2> QED
    BY <2>1 DEF PicksRecorded
<1> QED
  BY <1>2, <1>3, <1>4, <1>5 DEF IInv

LEMMA StepInv == IInv /\ [Next]_vars => IInv'
BY LocalsKept, ShownKept, PicksKept DEF IInv

LEMMA Invariant == Spec => []IInv
BY InitInv, StepInv, PTL DEF Spec

\* Every table row, read row and shown row is an observation of the right kind.
THEOREM PricesTypeCorrect == Spec => []TypeOK
<1>1. IInv => TypeOK
  BY DEF IInv
<1> QED
  BY <1>1, Invariant, PTL

\* A price that the page or a running query has for an entry is the stored one, however
\* many queries, recordings and recoveries overlap (price_repository.py).
THEOREM ShownIsStored == Spec => []ShownEntryIsStored
<1>1. IInv => ShownEntryIsStored
  BY DEF IInv
<1> QED
  BY <1>1, Invariant, PTL

\* A recording leaves an entry for each of its picks unless the database has failed
\* (record_entries).
THEOREM PicksAreRecorded == Spec => []PicksRecorded
<1>1. IInv => PicksRecorded
  BY DEF IInv
<1> QED
  BY <1>1, Invariant, PTL

----------------------------------------------------------------------------
(* The counted recoveries.                                                 *)

\* A counted item has a price, is in the scope of what is left, and a query that has
\* begun since has read its price.
Counts(a) ==
    /\ \A i \in act[a].recovered :
          /\ entry[i] # None /\ Priced(entry[i])
          /\ \A n \in DOMAIN Program[a] : n >= act[a].phase => i \in Program[a][n].scope
          /\ ~Done(a) /\ Step(a).op \in {"refresh", "load"} /\ act[a].pc # "begin" =>
                Priced(act[a].seen[i])
    /\ At(a, "answered") => Step(a).op # "backfill"
    /\ At(a, "write") /\ Step(a).op = "backfill" =>
          \A i \in Items : act[a].got[i] # None => i \in Step(a).scope

\* A step that is over hands its count on.
LEMMA CountsHandedOn ==
    ASSUME IInv, NEW a \in Actors, Grow, NEW n \in Nat, NEW r \in SUBSET Items, act'[a] = Fresh(n, r),
           \A i \in r : /\ entry'[i] # None /\ Priced(entry'[i])
                        /\ \A m \in DOMAIN Program[a] : m >= n => i \in Program[a][m].scope
    PROVE  Counts(a)'
BY DEF Counts, Fresh, At

\* What is counted at one step is kept at the next.
LEMMA NextStepCounts ==
    ASSUME IInv, NEW a \in Actors, Counts(a), Grow, Move(a, NextStep(a))
    PROVE  Counts(a)'
<1>1. act[a] \in Local /\ act[a].phase + 1 \in Nat /\ act'[a] = Fresh(act[a].phase + 1, act[a].recovered)
  BY DEF IInv, TypeOK, Local, Move, NextStep
<1>2. act[a].recovered \in SUBSET Items
  BY <1>1 DEF Local
<1>3. ASSUME NEW i \in act[a].recovered
      PROVE  /\ entry'[i] # None /\ Priced(entry'[i])
             /\ \A m \in DOMAIN Program[a] : m >= act[a].phase + 1 => i \in Program[a][m].scope
  <2>1. entry'[i] = entry[i]
    BY <1>2, <1>3 DEF Grow, Counts
  <2>2. \A m \in DOMAIN Program[a] : m \in Nat
    BY PricesAssumption
  <2>3. \A m \in DOMAIN Program[a] : m >= act[a].phase + 1 => m >= act[a].phase
    BY <1>1, <2>2 DEF Local
  <2> QED
    BY <2>1, <2>3 DEF Counts
<1> QED
  BY <1>1, <1>2, <1>3, CountsHandedOn

\* An action that stays in its step and keeps what has been read.
LEMMA SameStepCounts ==
    ASSUME IInv, NEW a \in Actors, Counts(a), Grow,
           act'[a].phase = act[a].phase, act'[a].recovered = act[a].recovered,
           act'[a].seen = act[a].seen, act[a].pc # "begin" \/ Step(a).op = "record",
           At(a, "answered")' => Step(a).op # "backfill",
           At(a, "write")' /\ Step(a).op = "backfill" =>
               \A i \in Items : act'[a].got[i] # None => i \in Step(a).scope
    PROVE  Counts(a)'
<1>1. Step(a)' = Step(a) /\ (Done(a)' <=> Done(a)) /\ act[a].recovered \subseteq Items
  BY DEF Step, Done, IInv, TypeOK, Local
<1>2. \A i \in act[a].recovered : entry'[i] = entry[i]
  BY <1>1 DEF Grow, Counts
<1> QED
  BY <1>1, <1>2 DEF Counts

LEMMA BeginQueryCounts ==
    ASSUME IInv, NEW a \in Actors, Counts(a), Grow, BeginQuery(a)
    PROVE  Counts(a)'
<1>1. act[a] \in Local /\ entry \in Rows /\ latest \in Rows /\ entry' = entry /\ ~Done(a)
  BY DEF IInv, TypeOK, BeginQuery, storeVars, At
<1> DEFINE read == [act[a] EXCEPT !.at = clock + 1, !.seen = InScope(a, entry),
                        !.got = IF Step(a).op = "load" THEN InScope(a, latest) ELSE NoRows]
<1>2. ASSUME NEW pc \in {"lookup", "answered"}, Move(a, [read EXCEPT !.pc = pc]),
             pc = "answered" => Step(a).op # "backfill"
      PROVE  Counts(a)'
  <2>1. act'[a] = [read EXCEPT !.pc = pc]
    BY <1>2 DEF Move, IInv, TypeOK
  <2>2. /\ act'[a].phase = act[a].phase /\ act'[a].seen = InScope(a, entry) /\ act'[a].pc = pc
        /\ act'[a].recovered = act[a].recovered
    BY <1>1, <2>1 DEF Local
  <2>3. Step(a)' = Step(a) /\ act[a].phase \in DOMAIN Program[a]
    BY <1>1, <2>2, StepTyped DEF Step, IInv, Fits
  <2>4. ASSUME NEW i \in act[a].recovered
        PROVE  InScope(a, entry)[i] = entry[i]
    <3>1. i \in Items /\ i \in Step(a).scope
      BY <1>1, <2>3 DEF Counts, Step, Local
    <3> QED
      BY <3>1 DEF InScope
  <2> QED
    BY <1>1, <1>2, <2>2, <2>3, <2>4 DEF Counts, At
<1>3. \/ Move(a, [read EXCEPT !.pc = "lookup"]) \/ Move(a, NextStep(a))
      \/ Step(a).op # "backfill" /\ Move(a, [read EXCEPT !.pc = "answered"])
  BY DEF BeginQuery
<1> QED
  BY <1>2, <1>3, NextStepCounts

LEMMA ObserveCounts ==
    ASSUME IInv, NEW a \in Actors, Counts(a), Grow, At(a, "lookup"), NEW raising, NEW new \in Replies(a),
           Observe(a, raising, new)
    PROVE  Counts(a)'
<1> DEFINE got == [i \in Items |-> IF i \in DOMAIN new THEN new[i] ELSE None]
           l == [act[a] EXCEPT !.pc = "write", !.got = got]
<1>1. act[a] \in Local /\ act'[a] = l
  BY DEF Observe, Move, IInv, TypeOK
<1>2. /\ act'[a].phase = act[a].phase /\ act'[a].seen = act[a].seen /\ act'[a].pc = "write"
      /\ act'[a].got = got /\ act'[a].recovered = act[a].recovered
  BY <1>1 DEF Local
<1>3. \A i \in Items : got[i] # None => i \in Step(a).scope
  BY ObserveTyped DEF ToObserve
<1> HIDE DEF got
<1> QED
  BY <1>2, <1>3, SameStepCounts DEF At

\* The write of a recovery: the items it counts have a price, its own or an earlier one.
LEMMA WriteCounts ==
    ASSUME LaterStepsCover, IInv, NEW a \in Actors, Counts(a), Grow, Write(a)
    PROVE  Counts(a)'
<1>1. act[a] \in Local /\ At(a, "write") /\ act[a].phase \in DOMAIN Program[a]
  BY StepTyped DEF IInv, TypeOK, Write, At, Fits
<1>2. CASE Step(a).op = "record" /\ Move(a, NextStep(a))
  BY <1>2, NextStepCounts
<1>3. CASE Step(a).op = "backfill" /\ BackfillEntries(act[a].got) /\ Move(a, Fresh(act[a].phase + 1, Counted(a)))
  <2>1. act'[a] = Fresh(act[a].phase + 1, Counted(a)) /\ act[a].phase + 1 \in Nat /\ Counted(a) \in SUBSET Items
    BY <1>1, <1>3 DEF Move, IInv, TypeOK, Local, Counted
  <2>2. ASSUME NEW i \in Counted(a)
        PROVE  /\ entry'[i] # None /\ Priced(entry'[i])
               /\ \A m \in DOMAIN Program[a] : m >= act[a].phase + 1 => i \in Program[a][m].scope
    <3>1. i \in Items /\ act[a].got[i] # None /\ Priced(act[a].got[i])
      BY <2>2 DEF Counted
    <3>2. entry[i] # None
      BY <1>1, <1>3, <3>1 DEF IInv, Fits
    <3>3. entry'[i] # None /\ Priced(entry'[i])
      BY <1>3, <3>1, <3>2 DEF BackfillEntries, Unpriced
    <3>4. i \in Program[a][act[a].phase].scope
      BY <1>1, <1>3, <3>1 DEF Counts, Step
    <3>5. \A m \in DOMAIN Program[a] : m >= act[a].phase + 1 => act[a].phase < m
      <4>1. \A m \in DOMAIN Program[a] : m \in Nat
        BY PricesAssumption
      <4> QED
        BY <1>1, <4>1 DEF Local
    <3> QED
      BY <1>1, <1>3, <3>3, <3>4, <3>5 DEF LaterStepsCover, Step
  <2> QED
    BY <2>1, <2>2, CountsHandedOn
<1>4. CASE Step(a).op = "refresh" /\ Move(a, [act[a] EXCEPT !.pc = "answered"])
  <2>1. act'[a] = [act[a] EXCEPT !.pc = "answered"]
    BY <1>4 DEF Move, IInv, TypeOK
  <2>2. /\ act'[a].phase = act[a].phase /\ act'[a].seen = act[a].seen /\ act'[a].pc = "answered"
        /\ act'[a].recovered = act[a].recovered
    BY <1>1, <2>1 DEF Local
  <2> QED
    BY <1>1, <1>4, <2>2, SameStepCounts DEF At
<1> QED
  BY <1>2, <1>3, <1>4 DEF Write

LEMMA ActionCounts ==
    ASSUME LaterStepsCover, IInv, NEW a \in Actors, Counts(a), Grow,
           Progress(a) \/ LookupRaises(a) \/ DatabaseFails(a)
    PROVE  Counts(a)'
<1>1. CASE BeginRecord(a)
  <2>1. act[a] \in Local /\ act'[a] = [act[a] EXCEPT !.at = clock + 1, !.pc = "lookup"] /\ Step(a).op = "record"
    BY <1>1 DEF BeginRecord, Move, IInv, TypeOK
  <2>2. /\ act'[a].phase = act[a].phase /\ act'[a].seen = act[a].seen /\ act'[a].pc = "lookup"
        /\ act'[a].recovered = act[a].recovered
    BY <2>1 DEF Local
  <2> QED
    BY <2>1, <2>2, SameStepCounts DEF At
<1>2. CASE Lookup(a)
  BY <1>2, ObserveCounts DEF Lookup
<1>3. CASE LookupRaises(a)
  BY <1>3, ObserveCounts DEF LookupRaises
<1>4. CASE Summarize(a) \/ Deliver(a)
  BY <1>4, NextStepCounts DEF Summarize, Deliver
<1>5. CASE DatabaseFails(a)
  <2>1. ASSUME Move(a, Fresh(Len(Program[a]) + 1, {}))
        PROVE  Counts(a)'
    <3>1. Len(Program[a]) + 1 \in Nat /\ act'[a] = Fresh(Len(Program[a]) + 1, {})
      BY <2>1, PricesAssumption DEF Move, IInv, TypeOK
    <3> QED
      BY <3>1, CountsHandedOn
  <2> QED
    BY <1>5, <2>1, NextStepCounts DEF DatabaseFails
<1> QED
  BY <1>1, <1>2, <1>3, <1>4, <1>5, BeginQueryCounts, WriteCounts DEF Progress

\* Every step keeps every count.
LEMMA CountsKept ==
    ASSUME LaterStepsCover, IInv, \A b \in Actors : Counts(b), [Next]_vars
    PROVE  \A b \in Actors : Counts(b)'
<1>1. Grow
  BY EntriesGrow
<1>2. ASSUME NEW b \in Actors, act'[b] = act[b]
      PROVE  Counts(b)'
  <2>1. \A i \in act[b].recovered : entry'[i] = entry[i]
    BY <1>1 DEF Grow, Counts, IInv, TypeOK, Local
  <2> QED
    BY <1>2, <2>1 DEF Counts, At, Done, Step
<1>3. CASE UNCHANGED vars
  BY <1>2, <1>3 DEF vars
<1>4. ASSUME NEW a \in Actors, Progress(a) \/ LookupRaises(a) \/ DatabaseFails(a)
      PROVE  \A b \in Actors : Counts(b)'
  BY <1>1, <1>2, <1>4, ActionCounts, OthersRest
<1> QED
  BY <1>3, <1>4 DEF Next

\* Where the answer covers what was recovered, the count of a recovery is true: each
\* item has a price from then on, whoever wrote it, and the answer shows it.
THEOREM CountsAreTrue == LaterStepsCover /\ Spec => []RecoveredCountIsTrue
<1> SUFFICES ASSUME LaterStepsCover PROVE Spec => []RecoveredCountIsTrue
  OBVIOUS
<1>1. Init => \A a \in Actors : Counts(a)
  BY DEF Init, Counts, Fresh, At
<1>2. IInv /\ (\A a \in Actors : Counts(a)) /\ [Next]_vars => (\A a \in Actors : Counts(a))'
  BY CountsKept
<1>3. IInv /\ (\A a \in Actors : Counts(a)) => RecoveredCountIsTrue
  <2> SUFFICES ASSUME IInv, NEW a \in Actors, Counts(a), NEW i \in act[a].recovered
               PROVE  Priced(entry[i]) /\ (At(a, "answered") => Priced(act[a].seen[i]))
    BY DEF RecoveredCountIsTrue
  <2>1. At(a, "answered") => Step(a).op \in {"refresh", "load"}
    BY StepTyped DEF IInv, Fits, At, Counts, Ops
  <2> QED
    BY <2>1 DEF Counts, At
<1> QED
  BY <1>1, <1>2, <1>3, Invariant, PTL DEF Spec

----------------------------------------------------------------------------
(* The refinement.                                                         *)

\* A step of the queries is a step of the ledger, or leaves the table alone.
LEMMA LedgerStep ==
    ASSUME IInv, [Next]_vars
    PROVE  [Ledger!LedgerNext]_Ledger!ledgerVars
<1>1. CASE UNCHANGED <<entry, latest>>
  BY <1>1 DEF Ledger!ledgerVars
<1>2. ASSUME NEW a \in Actors, Write(a)
      PROVE  Ledger!LedgerNext
  <2>1. entry \in Rows /\ latest \in Rows /\ act[a].got \in Rows /\ entry' \in Rows /\ latest' \in Rows
    BY <1>2, WriteGrows DEF IInv, TypeOK, Local
  <2>2. CASE Step(a).op = "record" /\ StoreEntries(act[a].got)
    <3>1. \A i \in Items : entry'[i] # entry[i] => Ledger!Recorded(i)
      BY <2>1, <2>2 DEF StoreEntries, Ledger!Recorded, Rows
    <3> QED
      BY <2>1, <2>2, <3>1 DEF StoreEntries, Ledger!LedgerNext, Ledger!WriteEntries, Rows
  <2>3. CASE Step(a).op = "backfill" /\ BackfillEntries(act[a].got)
    <3>1. ASSUME NEW i \in Items, entry'[i] # entry[i]
          PROVE  Ledger!Recovered(i)
      <4>1. Unpriced(i) /\ entry'[i] = act[a].got[i] /\ act[a].got[i] # None
        BY <2>1, <2>3, <3>1 DEF BackfillEntries, Rows
      <4>2. entry[i] \in Snapshots /\ entry'[i] \in Snapshots /\ entry[i].status = "unavailable"
        BY <2>1, <4>1, SnapshotShape DEF Unpriced, Priced, Rows
      <4>3. act[a].got[i].at = act[a].seen[i].at /\ entry[i].at = act[a].seen[i].at
        BY <1>2, <2>3, <4>1 DEF Write, IInv, Fits
      <4> QED
        BY <4>1, <4>2, <4>3 DEF Ledger!Recovered
    <3> QED
      BY <2>1, <2>3, <3>1 DEF BackfillEntries, Ledger!LedgerNext, Ledger!WriteEntries, Rows
  <2>4. CASE Step(a).op = "refresh" /\ UpsertLatest(act[a].got)
    <3>1. ASSUME NEW i \in Items, latest'[i] # latest[i]
          PROVE  entry[i] # None /\ latest'[i] \in Snapshots
      <4>1. latest'[i] = act[a].got[i] /\ act[a].got[i] # None
        BY <2>1, <2>4, <3>1 DEF UpsertLatest, Rows
      <4>2. act[a].seen[i] # None
        BY <1>2, <2>4, <4>1 DEF Write, IInv, Fits
      <4> QED
        BY <2>1, <4>1, <4>2 DEF IInv, Fits, Rows
    <3> QED
      BY <2>1, <2>4, <3>1 DEF UpsertLatest, Ledger!LedgerNext, Ledger!WriteLatest, Rows
  <2> QED
    BY <1>2, <2>2, <2>3, <2>4 DEF Write
<1>3. \/ UNCHANGED <<entry, latest>>
      \/ \E a \in Actors : Write(a)
  BY DEF Next, Progress, vars, storeVars, BeginRecord, BeginQuery, Lookup, Observe, LookupRaises,
     Summarize, Deliver, DatabaseFails
<1> QED
  BY <1>1, <1>2, <1>3

\* The queries on the table implement the ledger: one entry per recommendation, of its own
\* time, that may still get a price and never loses one (price_repository.py).
THEOREM PricesImplementLedger == Spec => LedgerKept
<1>1. Init => Ledger!LedgerInit
  BY NoRowsTyped DEF Init, Ledger!LedgerInit, NoRows
<1>2. IInv /\ [Next]_vars => [Ledger!LedgerNext]_Ledger!ledgerVars
  BY LedgerStep
<1> QED
  BY <1>1, <1>2, Invariant, PTL DEF Spec, LedgerKept, Ledger!LedgerSpec

=============================================================================
