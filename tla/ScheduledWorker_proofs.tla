------------------------ MODULE ScheduledWorker_proofs ------------------------
(***************************************************************************)
(* Proofs about ScheduledWorker for every number of workers, settings      *)
(* pages, crons, faults and saves, every clock bound and lease length.     *)
(***************************************************************************)
EXTENDS ScheduledWorker, TLAPS

----------------------------------------------------------------------------
(* Types *)

\* There are settings to start from, because there is a cron.
LEMMA SettingsExist == AnySettings \in Settings
<1>1. PICK c \in Crons : TRUE
  BY StoreAssumption
<1>2. [active |-> FALSE, cron |-> c, telegram |-> FALSE] \in Settings
  BY <1>1 DEF Settings
<1>. QED
  BY <1>2 DEF AnySettings

\* The constants of the store are numbers, and its time sets are sets of numbers.
LEMMA StoreConstants == MaxTime \in Nat /\ Horizon \in Nat /\ LeaseLen \in Nat
                        /\ Times \subseteq Nat /\ Instants \subseteq Nat /\ Times \subseteq Instants
BY StoreAssumption DEF Times, Instants

\* A time plus a lease is an instant the lease column can hold.
LEMMA LeaseEnds == ASSUME NEW t \in Times PROVE t + LeaseLen \in Instants
BY StoreAssumption DEF Times, Instants

\* The states a worker is reset to.
LEMMA ResetStates ==
    /\ Asleep \in WorkerStates /\ Down \in WorkerStates
    /\ \A t \in Times : Polling(t) \in WorkerStates
<1>1. 0 \in Times /\ 0 \in Nat
  BY StoreAssumption DEF Times
<1>2. Asleep \in WorkerStates
  BY <1>1 DEF Asleep, WorkerStates
<1>3. Down \in WorkerStates
  BY <1>2 DEF Down, WorkerStates
<1>4. ASSUME NEW t \in Times PROVE Polling(t) \in WorkerStates
  BY <1>2 DEF Polling, WorkerStates
<1>. QED
  BY <1>2, <1>3, <1>4

\* A freshly loaded form of the settings page is a form, whatever its version.
LEMMA FormsTyped == \A n \in Nat : Form(n) \in Forms
BY SettingsExist, StoreAssumption DEF Form, Forms, Instants

\* Replacing the state of one worker keeps the workers typed.
LEMMA BecomesTyped ==
    ASSUME TypeOK, NEW w \in Workers, NEW state \in WorkerStates, Becomes(w, state)
    PROVE  worker' \in [Workers -> WorkerStates]
BY DEF TypeOK, Becomes

\* The empty tables and the sleeping workers of the start are typed.
LEMMA InitTyped == Init => TypeOK
<1>. SUFFICES ASSUME Init PROVE TypeOK
  OBVIOUS
<1>1. StoreTypeOK
  BY SettingsExist, StoreConstants, StoreAssumption
     DEF Init, StoreInit, StoreTypeOK, JobRows, Statuses, Instants, Null
<1>2. now \in Times /\ runs \in [Times -> Nat] /\ told \in [Times -> Nat] /\ faults \in 0 .. MaxFaults
  BY StoreAssumption, WorkerAssumption DEF Init, Times
<1>3. worker \in [Workers -> WorkerStates]
  BY ResetStates DEF Init
<1>4. editor \in [Editors -> Forms]
  BY FormsTyped DEF Init
<1>. QED
  BY <1>1, <1>2, <1>3, <1>4 DEF TypeOK

\* The transactions keep the tables typed.
LEMMA LeaseSlotTyped ==
    ASSUME StoreTypeOK, NEW t \in Times, NEW owner \in Owners, NEW until \in Instants,
           LeaseSlot(t, owner, until)
    PROVE  StoreTypeOK' /\ job.next \in Times
<1>1. job.next \in Times
  BY StoreAssumption DEF StoreTypeOK, JobRows, LeaseSlot, Due, Times, Instants
<1>2. job' \in JobRows
  BY <1>1 DEF StoreTypeOK, JobRows, LeaseSlot
<1>3. execs' \in [Times -> Statuses]
  BY DEF StoreTypeOK, LeaseSlot, Statuses
<1>. QED
  BY <1>1, <1>2, <1>3 DEF StoreTypeOK

\* Passing a claimed slot keeps the tables typed; the slot is in the past.
LEMMA AbandonSlotTyped ==
    ASSUME StoreTypeOK, NEW t \in Times, AbandonSlot(t)
    PROVE  StoreTypeOK' /\ job.next \in Times
<1>1. job.next \in Times
  BY StoreAssumption DEF StoreTypeOK, JobRows, AbandonSlot, Due, Times, Instants
<1>2. job' \in JobRows
  BY <1>1 DEF StoreTypeOK, JobRows, AbandonSlot
<1>3. execs' \in [Times -> Statuses]
  BY DEF StoreTypeOK, AbandonSlot, Statuses, Terminal
<1>. QED
  BY <1>1, <1>2, <1>3 DEF StoreTypeOK

\* complete_execution keeps the tables typed.
LEMMA CompleteTyped ==
    ASSUME StoreTypeOK, NEW s \in Times, NEW owner, NEW status \in Terminal,
           CompleteExecution(s, owner, status)
    PROVE  StoreTypeOK'
BY DEF StoreTypeOK, JobRows, CompleteExecution, Statuses

\* A step that leaves the tables alone keeps them typed.
LEMMA StoreUnchangedTyped ==
    ASSUME StoreTypeOK, UNCHANGED storeVars
    PROVE  StoreTypeOK'
BY DEF StoreTypeOK, storeVars

\* renew_lease keeps the tables typed.
LEMMA ExtendTyped ==
    ASSUME StoreTypeOK, NEW owner, NEW until \in Instants, ExtendLease(owner, until)
    PROVE  StoreTypeOK'
BY DEF StoreTypeOK, JobRows, ExtendLease

\* save keeps the tables typed.
LEMMA SaveTyped ==
    ASSUME StoreTypeOK, NEW set \in Settings, NEW next \in Instants, NEW v \in Nat,
           SaveJob(set, next, v)
    PROVE  StoreTypeOK'
<1>1. v + 1 \in Nat
  OBVIOUS
<1>2. job' \in JobRows
  BY <1>1 DEF StoreTypeOK, JobRows, SaveJob
<1>. QED
  BY <1>2 DEF StoreTypeOK, SaveJob

\* What is left to show of a step that only moves worker w: its new state is typed.
LEMMA WorkerStepTyped ==
    ASSUME TypeOK, NEW w \in Workers, NEW state \in WorkerStates, Becomes(w, state),
           StoreTypeOK', UNCHANGED <<now, editor>>,
           runs' \in [Times -> Nat], told' \in [Times -> Nat], faults' \in 0 .. MaxFaults
    PROVE  TypeOK'
BY BecomesTyped DEF TypeOK

\* Every step of run_forever, run_due and _run_claim keeps the state typed.
LEMMA MainStepTyped ==
    ASSUME TypeOK, NEW w \in Workers, MainStep(w)
    PROVE  TypeOK'
<1>. USE DEF TypeOK
<1>0. /\ worker[w] \in WorkerStates /\ worker[w].polled \in Times /\ worker[w].slot \in Times
      /\ now \in Times /\ OwnerOf[w] \in Owners /\ StoreTypeOK
  BY WorkerAssumption DEF WorkerStates
<1>1. CASE Poll(w)
  BY <1>0, <1>1, ResetStates, WorkerStepTyped, StoreUnchangedTyped DEF Poll
<1>2. CASE ClaimSlot(w)
  <2>1. StoreTypeOK' /\ job.next \in Times /\ job.set.telegram \in BOOLEAN
    BY <1>0, <1>2, LeaseSlotTyped, LeaseEnds DEF ClaimSlot, StoreTypeOK, JobRows, Settings
  <2>2. now + RenewEvery \in Nat
    BY <1>0, StoreConstants, WorkerAssumption
  <2>3. [pc |-> "running", polled |-> worker[w].polled, slot |-> job.next,
         telegram |-> job.set.telegram,
         renewer |-> "sleeping", wakeAt |-> now + RenewEvery] \in WorkerStates
    BY <1>0, <2>1, <2>2 DEF WorkerStates
  <2>4. runs' \in [Times -> Nat]
    BY <1>2, <2>1 DEF ClaimSlot
  <2>. QED
    BY <1>2, <2>1, <2>3, <2>4, WorkerStepTyped DEF ClaimSlot
<1>3. CASE PassClaimedSlot(w)
  <2>1. StoreTypeOK'
    BY <1>0, <1>3, AbandonSlotTyped DEF PassClaimedSlot
  <2>. QED
    BY <1>3, <2>1, ResetStates, WorkerStepTyped DEF PassClaimedSlot
<1>4. CASE NothingToRun(w)
  BY <1>0, <1>4, ResetStates, WorkerStepTyped, StoreUnchangedTyped DEF NothingToRun, NothingDue
<1>5. CASE RowLocked(w)
  BY <1>0, <1>5, ResetStates, WorkerStepTyped, StoreUnchangedTyped DEF RowLocked
<1>6. CASE PollRaises(w)
  BY <1>0, <1>6, ResetStates, WorkerStepTyped, StoreUnchangedTyped DEF PollRaises, ClaimRaises
<1>7. CASE RunReturns(w)
  <2>1. [worker[w] EXCEPT !.pc = "recording", !.renewer = "off", !.wakeAt = 0] \in WorkerStates
    BY <1>0 DEF WorkerStates
  <2>2. (IF worker[w].renewer = "raised" THEN Down
         ELSE [worker[w] EXCEPT !.pc = "recording", !.renewer = "off", !.wakeAt = 0]) \in WorkerStates
    BY <2>1, ResetStates
  <2>. QED
    BY <1>0, <1>7, <2>2, WorkerStepTyped, StoreUnchangedTyped DEF RunReturns
<1>8. CASE RunRaises(w)
  <2>1. [worker[w] EXCEPT !.pc = "failing"] \in WorkerStates
    BY <1>0 DEF WorkerStates
  <2>. QED
    BY <1>0, <1>8, <2>1, WorkerStepTyped, StoreUnchangedTyped DEF RunRaises
<1>9. CASE RecordFailed(w)
  <2>1. StoreTypeOK'
    BY <1>0, <1>9, CompleteTyped, StoreUnchangedTyped DEF RecordFailed, CompletionRefused, Terminal
  <2>2. (IF worker[w].renewer = "raised" THEN Down ELSE Polling(worker[w].polled)) \in WorkerStates
    BY <1>0, ResetStates
  <2>. QED
    BY <1>9, <2>1, <2>2, WorkerStepTyped DEF RecordFailed
<1>10. CASE RecordCompleted(w)
  <2>1. StoreTypeOK'
    BY <1>0, <1>10, CompleteTyped DEF RecordCompleted, Terminal
  <2>2. [worker[w] EXCEPT !.pc = "reporting"] \in WorkerStates
    BY <1>0 DEF WorkerStates
  <2>3. (IF worker[w].telegram /\ Reporter THEN [worker[w] EXCEPT !.pc = "reporting"]
         ELSE Polling(worker[w].polled)) \in WorkerStates
    BY <1>0, <2>2, ResetStates
  <2>. QED
    BY <1>10, <2>1, <2>3, WorkerStepTyped DEF RecordCompleted
<1>11. CASE RecordRefused(w)
  BY <1>0, <1>11, ResetStates, WorkerStepTyped, StoreUnchangedTyped DEF RecordRefused, CompletionRefused
<1>12. CASE Deliver(w)
  <2>1. told' \in [Times -> Nat]
    BY <1>0, <1>12 DEF Deliver
  <2>. QED
    BY <1>0, <1>12, <2>1, ResetStates, WorkerStepTyped, StoreUnchangedTyped DEF Deliver
<1>. QED
  BY <1>1, <1>2, <1>3, <1>4, <1>5, <1>6, <1>7, <1>8, <1>9, <1>10, <1>11, <1>12 DEF MainStep

\* Every step of the renewal task keeps the state typed.
LEMMA RenewStepTyped ==
    ASSUME TypeOK, NEW w \in Workers, RenewStep(w)
    PROVE  TypeOK'
<1>. USE DEF TypeOK
<1>0. /\ worker[w] \in WorkerStates /\ now \in Times /\ StoreTypeOK
      /\ \A step \in {"sleeping", "checked", "returned"} :
            [worker[w] EXCEPT !.renewer = step] \in WorkerStates
  BY DEF WorkerStates
<1>1. CASE RenewCheck(w)
  <2>1. [worker[w] EXCEPT !.renewer =
            IF RenewalAllowed(worker[w].slot) THEN "checked" ELSE "returned"] \in WorkerStates
    BY <1>0
  <2>. QED
    BY <1>0, <1>1, <2>1, WorkerStepTyped, StoreUnchangedTyped DEF RenewCheck
<1>2. CASE RenewUpdate(w)
  <2>1. CASE ExtendLease(OwnerOf[w], now + LeaseLen)
             /\ Becomes(w, [worker[w] EXCEPT !.renewer = "sleeping", !.wakeAt = now + RenewEvery])
    <3>1. now + RenewEvery \in Nat
      BY <1>0, StoreConstants, WorkerAssumption
    <3>2. [worker[w] EXCEPT !.renewer = "sleeping", !.wakeAt = now + RenewEvery] \in WorkerStates
      BY <1>0, <3>1 DEF WorkerStates
    <3>3. StoreTypeOK'
      BY <1>0, <2>1, LeaseEnds, ExtendTyped
    <3>. QED
      BY <1>2, <2>1, <3>2, <3>3, WorkerStepTyped DEF RenewUpdate
  <2>2. CASE Becomes(w, [worker[w] EXCEPT !.renewer = "returned"]) /\ UNCHANGED storeVars
    BY <1>0, <1>2, <2>2, WorkerStepTyped, StoreUnchangedTyped DEF RenewUpdate
  <2>. QED
    BY <1>2, <2>1, <2>2 DEF RenewUpdate
<1>. QED
  BY <1>1, <1>2 DEF RenewStep

\* Crashes, failing renewals and restarts keep the state typed.
LEMMA FaultStepTyped ==
    ASSUME TypeOK, NEW w \in Workers, RenewRaises(w) \/ Crash(w) \/ Restart(w)
    PROVE  TypeOK'
<1>. USE DEF TypeOK
<1>0. worker[w] \in WorkerStates /\ StoreTypeOK
  BY DEF WorkerStates
<1>1. Fault => faults' \in 0 .. MaxFaults
  BY WorkerAssumption DEF Fault
<1>2. CASE RenewRaises(w)
  <2>1. [worker[w] EXCEPT !.renewer = "raised"] \in WorkerStates
    BY <1>0 DEF WorkerStates
  <2>. QED
    BY <1>0, <1>1, <1>2, <2>1, WorkerStepTyped, StoreUnchangedTyped DEF RenewRaises
<1>3. CASE Crash(w)
  BY <1>0, <1>1, <1>3, ResetStates, WorkerStepTyped, StoreUnchangedTyped DEF Crash
<1>4. CASE Restart(w)
  BY <1>0, <1>4, ResetStates, WorkerStepTyped, StoreUnchangedTyped DEF Restart
<1>. QED
  BY <1>2, <1>3, <1>4

\* Every step of a settings page keeps the state typed.
LEMMA EditorStepTyped ==
    ASSUME TypeOK, NEW e \in Editors, OpenForm(e) \/ SubmitForm(e) \/ SaveSchedule(e)
    PROVE  TypeOK'
<1>. USE DEF TypeOK
<1>0. /\ editor[e] \in Forms /\ StoreTypeOK
      /\ editor[e].seen \in Nat /\ editor[e].seen + 1 \in Nat /\ job.version \in Nat
  BY DEF Forms, StoreTypeOK, JobRows
<1>1. CASE OpenForm(e)
  <2>1. PICK n \in Nat : editor' = [editor EXCEPT ![e] = Form(n)]
    BY <1>0, <1>1 DEF OpenForm
  <2>2. editor' \in [Editors -> Forms]
    BY <2>1, FormsTyped
  <2>. QED
    BY <1>0, <1>1, <2>2, StoreUnchangedTyped DEF OpenForm
<1>2. CASE SubmitForm(e)
  <2>1. PICK set \in Submitted, next \in Instants :
           editor' = [editor EXCEPT ![e] =
                [at |-> "saving", seen |-> job.version, set |-> set, next |-> next]]
    BY <1>2 DEF SubmitForm
  <2>2. [at |-> "saving", seen |-> job.version, set |-> set, next |-> next] \in Forms
    BY <1>0, WorkerAssumption DEF Forms
  <2>3. editor' \in [Editors -> Forms]
    BY <2>1, <2>2
  <2>. QED
    BY <1>0, <1>2, <2>3, StoreUnchangedTyped DEF SubmitForm
<1>3. CASE SaveSchedule(e)
  <2>1. editor' \in [Editors -> Forms]
    BY <1>0, <1>3, FormsTyped DEF SaveSchedule
  <2>2. editor[e].set \in Settings /\ editor[e].next \in Instants
    BY <1>0 DEF Forms
  <2>3. StoreTypeOK'
    BY <1>0, <1>3, <2>2, SaveTyped, StoreUnchangedTyped DEF SaveSchedule
  <2>. QED
    BY <1>3, <2>1, <2>3 DEF SaveSchedule
<1>. QED
  BY <1>1, <1>2, <1>3

\* The types are inductive.
LEMMA NextTyped == TypeOK /\ [Next]_vars => TypeOK'
<1>. SUFFICES ASSUME TypeOK, [Next]_vars PROVE TypeOK'
  OBVIOUS
<1>1. CASE Tick
  <2>1. now' \in Times
    BY <1>1, StoreAssumption DEF Tick, TypeOK, Times
  <2>. QED
    BY <1>1, <2>1, StoreUnchangedTyped DEF Tick, TypeOK
<1>2. CASE \E w \in Workers : MainStep(w)
  BY <1>2, MainStepTyped
<1>3. CASE \E w \in Workers : RenewStep(w)
  BY <1>3, RenewStepTyped
<1>4. CASE \E w \in Workers : RenewRaises(w) \/ Crash(w) \/ Restart(w)
  BY <1>4, FaultStepTyped
<1>5. CASE \E e \in Editors : OpenForm(e) \/ SubmitForm(e) \/ SaveSchedule(e)
  BY <1>5, EditorStepTyped
<1>6. CASE UNCHANGED vars
  BY <1>6, StoreUnchangedTyped DEF vars, TypeOK
<1>. QED
  BY <1>1, <1>2, <1>3, <1>4, <1>5, <1>6 DEF Next

\* Every reachable state is typed: tables, clock, workers, forms and counters.
THEOREM TypeCorrect == Spec => []TypeOK
<1>. QED
  BY InitTyped, NextTyped, PTL DEF Spec

----------------------------------------------------------------------------
(* The inductive invariant *)

\* The lease column of the job and the status column of the executions agree:
\* while a lease is held, the slot claimed last is running.
LeaseGuardsRunningSlot ==
    job.owner # NoOwner => job.last \in Times /\ execs[job.last] = "running"

\* From the claim to the report a worker owns its slot.
Claimed(w) == worker[w].pc \in {"running", "failing", "recording", "reporting"}

ClaimsDistinct ==
    \A v, w \in Workers :
        Claimed(v) /\ Claimed(w) /\ v # w => worker[v].slot # worker[w].slot

ClaimsRecorded == \A w \in Workers : Claimed(w) => execs[worker[w].slot] # "absent"

ReportsDue ==
    \A w \in Workers : worker[w].pc = "reporting"
        => execs[worker[w].slot] = "completed" /\ told[worker[w].slot] = 0

IInv ==
    /\ TypeOK
    /\ SlotRunsAtMostOnce
    /\ SummaryFollowsCompletion
    /\ LeaseGuardsRunningSlot
    /\ ClaimsDistinct
    /\ ClaimsRecorded
    /\ ReportsDue

\* The invariant holds of the empty tables.
LEMMA InitInv == Init => IInv
<1>. SUFFICES ASSUME Init PROVE IInv
  OBVIOUS
<1>1. TypeOK
  BY InitTyped
<1>2. \A w \in Workers : ~Claimed(w)
  BY DEF Init, Claimed, Asleep
<1>3. SlotRunsAtMostOnce /\ SummaryFollowsCompletion
  BY StoreConstants DEF Init, SlotRunsAtMostOnce, SummaryFollowsCompletion
<1>4. LeaseGuardsRunningSlot
  BY DEF Init, StoreInit, LeaseGuardsRunningSlot
<1>. QED
  BY <1>1, <1>2, <1>3, <1>4 DEF IInv, ClaimsDistinct, ClaimsRecorded, ReportsDue, Claimed

\* A step that leaves the outcomes, the counters and the holder of the lease
\* alone and gives no worker a claim or a report to send.
Quiet ==
    /\ UNCHANGED <<execs, runs, told>>
    /\ job'.owner = job.owner /\ job'.last = job.last
    /\ \A w \in Workers : Claimed(w)' =>
          /\ Claimed(w) /\ worker'[w].slot = worker[w].slot
          /\ worker'[w].pc = "reporting" <=> worker[w].pc = "reporting"

\* A quiet step keeps the invariant.
LEMMA QuietKeepsInv == ASSUME IInv, TypeOK', Quiet PROVE IInv'
<1>1. SlotRunsAtMostOnce' /\ SummaryFollowsCompletion' /\ LeaseGuardsRunningSlot'
  BY DEF IInv, Quiet, SlotRunsAtMostOnce, SummaryFollowsCompletion, LeaseGuardsRunningSlot
<1>2. ClaimsDistinct'
  BY DEF IInv, Quiet, ClaimsDistinct
<1>3. ClaimsRecorded'
  BY DEF IInv, Quiet, ClaimsRecorded
<1>4. ReportsDue'
  BY DEF IInv, Quiet, ReportsDue, Claimed
<1>. QED
  BY <1>1, <1>2, <1>3, <1>4 DEF IInv

\* What a step of worker w may turn it into without disturbing the invariant.
LEMMA QuietWorker ==
    ASSUME TypeOK, NEW w \in Workers, NEW state, Becomes(w, state),
           \/ state.pc \in {"down", "sleeping", "polling"}
           \/ Working(w) /\ state.slot = worker[w].slot /\ state.pc # "reporting",
           UNCHANGED <<execs, runs, told>>, job'.owner = job.owner, job'.last = job.last
    PROVE  Quiet
<1>1. worker'[w] = state /\ \A v \in Workers \ {w} : worker'[v] = worker[v]
  BY DEF TypeOK, Becomes
<1>. QED
  BY <1>1 DEF Quiet, Claimed, Working

\* claim_due leases a slot nobody claimed before, so the invariant survives a claim.
LEMMA ClaimSlotKeepsInv == ASSUME IInv, TypeOK', NEW w \in Workers, ClaimSlot(w) PROVE IInv'
<1>. DEFINE s == job.next
<1>1. /\ s \in Times /\ execs[s] = "absent"
      /\ execs' = [execs EXCEPT ![s] = "running"]
      /\ job'.last = s
      /\ runs' = [runs EXCEPT ![s] = @ + 1] /\ told' = told
  <2>1. worker[w].polled \in Times /\ StoreTypeOK /\ OwnerOf[w] \in Owners
    BY WorkerAssumption DEF IInv, TypeOK, WorkerStates
  <2>2. s \in Times
    BY <2>1, LeaseSlotTyped, LeaseEnds DEF ClaimSlot
  <2>. QED
    BY <2>1, <2>2 DEF ClaimSlot, LeaseSlot, StoreTypeOK, JobRows
<1>2. /\ worker'[w].pc = "running" /\ worker'[w].slot = s
      /\ \A v \in Workers \ {w} : worker'[v] = worker[v]
  BY DEF ClaimSlot, Becomes, IInv, TypeOK
<1>3. \A t \in Times : execs[t] \in Statuses /\ runs[t] \in Nat /\ told[t] \in Nat
  BY DEF IInv, TypeOK, StoreTypeOK
<1>4. \A t \in Times : t # s => execs'[t] = execs[t] /\ runs'[t] = runs[t]
  BY <1>1, <1>3 DEF IInv, TypeOK, StoreTypeOK
<1>5. execs'[s] = "running" /\ runs'[s] = runs[s] + 1
  BY <1>1 DEF IInv, TypeOK, StoreTypeOK
<1>6. \A v \in Workers \ {w} : Claimed(v) => worker[v].slot \in Times /\ worker[v].slot # s
  BY <1>1 DEF IInv, ClaimsRecorded, TypeOK, WorkerStates
<1>7. SlotRunsAtMostOnce'
  BY <1>1, <1>3, <1>4, <1>5 DEF IInv, SlotRunsAtMostOnce
<1>8. SummaryFollowsCompletion'
  BY <1>1, <1>3, <1>4, <1>5 DEF IInv, SummaryFollowsCompletion
<1>9. LeaseGuardsRunningSlot'
  BY <1>1, <1>5 DEF LeaseGuardsRunningSlot
<1>10. ClaimsDistinct' /\ ClaimsRecorded' /\ ReportsDue'
  BY <1>1, <1>2, <1>4, <1>5, <1>6
     DEF IInv, ClaimsDistinct, ClaimsRecorded, ReportsDue, Claimed
<1>. QED
  BY <1>7, <1>8, <1>9, <1>10 DEF IInv

\* An outcome written over a running execution, with the lease released, keeps
\* the invariant whatever the outcome is, as long as the worker drops its claim
\* or goes on to report a completed one.
LEMMA OutcomeKeepsInv ==
    ASSUME IInv, TypeOK', NEW w \in Workers, NEW s \in Times, NEW status \in Terminal,
           execs[s] = "running", execs' = [execs EXCEPT ![s] = status],
           job'.owner = NoOwner, UNCHANGED <<runs, told>>,
           \A v \in Workers : v # w => worker'[v] = worker[v],
           \/ ~Claimed(w)'
           \/ /\ Claimed(w) /\ worker[w].slot = s /\ worker'[w].slot = s
              /\ status = "completed"
    PROVE  IInv'
<1>1. \A t \in Times : execs'[t] = IF t = s THEN status ELSE execs[t]
  BY DEF IInv, TypeOK, StoreTypeOK
<1>2. told[s] = 0
  BY DEF IInv, TypeOK, SummaryFollowsCompletion
<1>3. \A v \in Workers : Claimed(v)' => /\ Claimed(v) /\ worker'[v].slot = worker[v].slot
                                        /\ worker[v].slot \in Times
  BY DEF IInv, TypeOK, WorkerStates, Claimed
<1>4. SlotRunsAtMostOnce'
  BY <1>1 DEF IInv, SlotRunsAtMostOnce, Terminal
<1>5. SummaryFollowsCompletion'
  BY <1>1, <1>2 DEF IInv, SummaryFollowsCompletion
<1>6. LeaseGuardsRunningSlot'
  BY DEF LeaseGuardsRunningSlot
<1>7. ClaimsDistinct' /\ ClaimsRecorded'
  BY <1>1, <1>3 DEF IInv, ClaimsDistinct, ClaimsRecorded, Terminal
<1>8. ReportsDue'
  <2>. SUFFICES ASSUME NEW v \in Workers, worker'[v].pc = "reporting"
                PROVE  execs'[worker'[v].slot] = "completed" /\ told'[worker'[v].slot] = 0
    BY DEF ReportsDue
  <2>1. Claimed(v)'
    BY DEF Claimed
  <2>2. CASE v = w
    BY <1>1, <1>2, <2>1, <2>2
  <2>3. CASE v # w
    BY <1>1, <1>3, <2>1, <2>3 DEF IInv, ReportsDue
  <2>. QED
    BY <2>2, <2>3
<1>. QED
  BY <1>4, <1>5, <1>6, <1>7, <1>8 DEF IInv

\* Passing a slot that has an execution keeps the invariant.
LEMMA PassKeepsInv == ASSUME IInv, TypeOK', NEW w \in Workers, PassClaimedSlot(w) PROVE IInv'
<1>. DEFINE s == job.next
<1>1. s \in Times
  BY AbandonSlotTyped DEF PassClaimedSlot, IInv, TypeOK, WorkerStates
<1>2. /\ execs' = IF execs[s] = "running" THEN [execs EXCEPT ![s] = "abandoned"] ELSE execs
      /\ job'.owner = NoOwner /\ UNCHANGED <<runs, told>>
  BY DEF PassClaimedSlot, AbandonSlot, IInv, TypeOK, StoreTypeOK, JobRows
<1>3. worker'[w] = Asleep /\ \A v \in Workers : v # w => worker'[v] = worker[v]
  BY DEF PassClaimedSlot, Becomes, IInv, TypeOK
<1>4. ~Claimed(w)'
  BY <1>3 DEF Claimed, Asleep
<1>5. CASE execs[s] = "running"
  BY <1>1, <1>2, <1>3, <1>4, <1>5, OutcomeKeepsInv DEF Terminal
<1>6. CASE execs[s] # "running"
  <2>1. LeaseGuardsRunningSlot'
    BY <1>2 DEF LeaseGuardsRunningSlot
  <2>2. UNCHANGED <<execs, runs, told>>
    BY <1>2, <1>6
  <2>3. SlotRunsAtMostOnce' /\ SummaryFollowsCompletion'
    BY <2>2 DEF IInv, SlotRunsAtMostOnce, SummaryFollowsCompletion
  <2>4. \A v \in Workers : worker'[v].pc = "reporting" => Claimed(v)'
    BY DEF Claimed
  <2>5. \A v \in Workers : Claimed(v)' => Claimed(v) /\ worker'[v] = worker[v]
    BY <1>3, <1>4 DEF Claimed
  <2>6. ClaimsDistinct' /\ ClaimsRecorded' /\ ReportsDue'
    BY <2>2, <2>4, <2>5 DEF IInv, ClaimsDistinct, ClaimsRecorded, ReportsDue
  <2>. QED
    BY <2>1, <2>3, <2>6 DEF IInv
<1>. QED
  BY <1>5, <1>6

\* Recording a failure, or being refused, keeps the invariant.
LEMMA RecordFailedKeepsInv == ASSUME IInv, TypeOK', NEW w \in Workers, RecordFailed(w) PROVE IInv'
<1>. DEFINE state == IF worker[w].renewer = "raised" THEN Down ELSE Polling(worker[w].polled)
<1>1. Becomes(w, state) /\ state.pc \in {"down", "polling"}
  BY DEF RecordFailed, Down, Polling, Asleep
<1>2. CASE CompleteExecution(worker[w].slot, OwnerOf[w], "failed")
  <2>1. worker[w].slot \in Times
    BY DEF IInv, TypeOK, WorkerStates
  <2>2. worker'[w].pc \in {"down", "polling"} /\ \A v \in Workers : v # w => worker'[v] = worker[v]
    BY <1>1 DEF Becomes, IInv, TypeOK
  <2>3. job'.owner = NoOwner
    BY <1>2 DEF CompleteExecution, IInv, TypeOK, StoreTypeOK, JobRows
  <2>. QED
    BY <1>2, <2>1, <2>2, <2>3, OutcomeKeepsInv
       DEF RecordFailed, CompleteExecution, CanComplete, Terminal, Claimed
<1>3. CASE CompletionRefused(worker[w].slot, OwnerOf[w])
  BY <1>1, <1>3, QuietWorker, QuietKeepsInv DEF RecordFailed, CompletionRefused, storeVars, IInv
<1>. QED
  BY <1>2, <1>3 DEF RecordFailed

\* Recording a completion keeps the invariant.
LEMMA RecordCompletedKeepsInv ==
    ASSUME IInv, TypeOK', NEW w \in Workers, RecordCompleted(w) PROVE IInv'
<1>1. worker[w] \in WorkerStates /\ worker[w].slot \in Times
  BY DEF IInv, TypeOK, WorkerStates
<1>2. \/ worker'[w].pc = "polling"
      \/ worker'[w].slot = worker[w].slot
  BY <1>1 DEF RecordCompleted, Becomes, Polling, Asleep, IInv, TypeOK, WorkerStates
<1>3. \A v \in Workers : v # w => worker'[v] = worker[v]
  BY DEF RecordCompleted, Becomes, IInv, TypeOK
<1>4. job'.owner = NoOwner
  BY DEF RecordCompleted, CompleteExecution, IInv, TypeOK, StoreTypeOK, JobRows
<1>5. Claimed(w)
  BY DEF RecordCompleted, Claimed
<1>. QED
  BY <1>1, <1>2, <1>3, <1>4, <1>5, OutcomeKeepsInv
     DEF RecordCompleted, CompleteExecution, CanComplete, Terminal, Claimed

\* Sending the summary of a reporting worker keeps the invariant.
LEMMA DeliverKeepsInv == ASSUME IInv, TypeOK', NEW w \in Workers, Deliver(w) PROVE IInv'
<1>. DEFINE s == worker[w].slot
<1>1. s \in Times /\ execs[s] = "completed" /\ told[s] = 0 /\ Claimed(w)
  BY DEF Deliver, IInv, ReportsDue, TypeOK, WorkerStates, Claimed
<1>2. UNCHANGED <<job, execs, runs>>
  BY DEF Deliver, storeVars
<1>3. worker'[w].pc = "polling" /\ \A v \in Workers : v # w => worker'[v] = worker[v]
  BY DEF Deliver, Becomes, Polling, Asleep, IInv, TypeOK
<1>4. /\ \A t \in Times : t # s => told'[t] = told[t]
      /\ told'[s] \in {0, 1}
  BY <1>1 DEF Deliver, IInv, TypeOK
<1>5. SlotRunsAtMostOnce' /\ LeaseGuardsRunningSlot'
  BY <1>2 DEF IInv, SlotRunsAtMostOnce, LeaseGuardsRunningSlot
<1>6. SummaryFollowsCompletion'
  BY <1>1, <1>2, <1>4 DEF IInv, SummaryFollowsCompletion
<1>7. \A v \in Workers : Claimed(v)' =>
         /\ v # w /\ Claimed(v) /\ worker'[v] = worker[v]
         /\ worker[v].slot \in Times /\ worker[v].slot # s
  BY <1>1, <1>3 DEF Claimed, IInv, ClaimsDistinct, TypeOK, WorkerStates
<1>8. ClaimsDistinct' /\ ClaimsRecorded'
  BY <1>2, <1>7 DEF IInv, ClaimsDistinct, ClaimsRecorded
<1>9. \A v \in Workers : worker'[v].pc = "reporting" => Claimed(v)'
  BY DEF Claimed
<1>10. ReportsDue'
  BY <1>2, <1>4, <1>7, <1>9 DEF IInv, ReportsDue
<1>. QED
  BY <1>5, <1>6, <1>8, <1>10 DEF IInv

\* The steps that are neither a claim, an outcome nor a report are quiet.
LEMMA QuietSteps ==
    ASSUME TypeOK, NEW w \in Workers,
           \/ Poll(w) \/ NothingToRun(w) \/ RowLocked(w) \/ PollRaises(w)
           \/ RunReturns(w) \/ RunRaises(w) \/ RecordRefused(w)
           \/ RenewStep(w) \/ RenewRaises(w) \/ Crash(w) \/ Restart(w)
    PROVE  Quiet
<1>. USE DEF storeVars, Asleep, Down, Polling
<1>0. worker[w] \in WorkerStates /\ StoreTypeOK
  BY DEF TypeOK
<1>1. CASE Poll(w)
  BY <1>1, QuietWorker DEF Poll
<1>2. CASE NothingToRun(w)
  BY <1>2, QuietWorker DEF NothingToRun, NothingDue
<1>3. CASE RowLocked(w)
  BY <1>3, QuietWorker DEF RowLocked
<1>4. CASE PollRaises(w)
  BY <1>4, QuietWorker DEF PollRaises, ClaimRaises
<1>5. CASE RunReturns(w)
  <2>. DEFINE state == IF worker[w].renewer = "raised" THEN Down
                       ELSE [worker[w] EXCEPT !.pc = "recording", !.renewer = "off", !.wakeAt = 0]
  <2>1. \/ state.pc = "down"
        \/ Working(w) /\ state.slot = worker[w].slot /\ state.pc = "recording"
    BY <1>0, <1>5 DEF RunReturns, Working, WorkerStates
  <2>2. Becomes(w, state) /\ UNCHANGED <<job, execs, runs, told>>
    BY <1>5 DEF RunReturns
  <2>. HIDE DEF state
  <2>. QED
    BY <2>1, <2>2, QuietWorker
<1>6. CASE RunRaises(w)
  <2>. DEFINE state == [worker[w] EXCEPT !.pc = "failing"]
  <2>1. Working(w) /\ state.slot = worker[w].slot /\ state.pc = "failing"
    BY <1>0, <1>6 DEF RunRaises, Working, WorkerStates
  <2>2. Becomes(w, state) /\ UNCHANGED <<job, execs, runs, told>>
    BY <1>6 DEF RunRaises
  <2>. HIDE DEF state
  <2>. QED
    BY <2>1, <2>2, QuietWorker
<1>7. CASE RecordRefused(w)
  BY <1>7, QuietWorker DEF RecordRefused, CompletionRefused
<1>8. CASE RenewStep(w) \/ RenewRaises(w)
  <2>1. PICK state : /\ Becomes(w, state)
                     /\ state.pc = worker[w].pc /\ state.slot = worker[w].slot
    <3>1. ASSUME NEW step
          PROVE  /\ [worker[w] EXCEPT !.renewer = step].pc = worker[w].pc
                 /\ [worker[w] EXCEPT !.renewer = step].slot = worker[w].slot
      BY <1>0 DEF WorkerStates
    <3>2. ASSUME NEW t
          PROVE  /\ [worker[w] EXCEPT !.renewer = "sleeping", !.wakeAt = t].pc = worker[w].pc
                 /\ [worker[w] EXCEPT !.renewer = "sleeping", !.wakeAt = t].slot = worker[w].slot
      BY <1>0 DEF WorkerStates
    <3>. QED
      BY <1>8, <3>1, <3>2 DEF RenewStep, RenewCheck, RenewUpdate, RenewRaises
  <2>2. UNCHANGED <<execs, runs, told>> /\ job'.owner = job.owner /\ job'.last = job.last
    BY <1>0, <1>8 DEF RenewStep, RenewCheck, RenewUpdate, RenewRaises, ExtendLease,
                      StoreTypeOK, JobRows
  <2>3. /\ worker'[w].pc = worker[w].pc /\ worker'[w].slot = worker[w].slot
        /\ \A v \in Workers : v # w => worker'[v] = worker[v]
    BY <2>1 DEF Becomes, TypeOK
  <2>. QED
    BY <2>2, <2>3 DEF Quiet, Claimed
<1>9. CASE Crash(w)
  BY <1>9, QuietWorker DEF Crash
<1>10. CASE Restart(w)
  BY <1>10, QuietWorker DEF Restart
<1>. QED
  BY <1>1, <1>2, <1>3, <1>4, <1>5, <1>6, <1>7, <1>8, <1>9, <1>10

\* Every step of the renewal task, a fault, a page or the clock is quiet.
LEMMA OtherStepsQuiet ==
    ASSUME TypeOK,
           \/ Tick \/ UNCHANGED vars
           \/ \E e \in Editors : OpenForm(e) \/ SubmitForm(e) \/ SaveSchedule(e)
    PROVE  Quiet
<1>1. worker' = worker /\ UNCHANGED <<execs, runs, told>>
  BY DEF Tick, vars, storeVars, OpenForm, SubmitForm, SaveSchedule, SaveJob
<1>2. job'.owner = job.owner /\ job'.last = job.last
  BY DEF Tick, vars, storeVars, OpenForm, SubmitForm, SaveSchedule, SaveJob,
         TypeOK, StoreTypeOK, JobRows
<1>. QED
  BY <1>1, <1>2 DEF Quiet, Claimed

\* Every step is a claim, a pass, an outcome, a report, or quiet.
LEMMA StepKinds ==
    ASSUME TypeOK, [Next]_vars
    PROVE  \/ Quiet
           \/ \E w \in Workers : \/ ClaimSlot(w) \/ PassClaimedSlot(w) \/ RecordFailed(w)
                                 \/ RecordCompleted(w) \/ Deliver(w)
BY QuietSteps, OtherStepsQuiet DEF Next, MainStep

\* The invariant is inductive.
LEMMA NextKeepsInv == IInv /\ [Next]_vars => IInv'
<1>. SUFFICES ASSUME IInv, [Next]_vars PROVE IInv'
  OBVIOUS
<1>1. TypeOK /\ TypeOK'
  BY NextTyped DEF IInv
<1>. QED
  BY <1>1, StepKinds, QuietKeepsInv, ClaimSlotKeepsInv, PassKeepsInv, RecordFailedKeepsInv,
     RecordCompletedKeepsInv, DeliverKeepsInv

\* The inductive invariant: no two live workers hold a claim of one slot, every
\* claim has its execution and its one start, and a reporting worker's slot is
\* completed and unreported.
THEOREM InvariantHolds == Spec => []IInv
<1>. QED
  BY InitInv, NextKeepsInv, PTL DEF Spec

\* The pipeline is started at most once for a slot: whatever the lease owner
\* names, the crashes, the late renewals and the stale saves are.
THEOREM RunsAtMostOnce == Spec => []SlotRunsAtMostOnce
<1>1. IInv => SlotRunsAtMostOnce
  BY DEF IInv
<1>. QED
  BY <1>1, InvariantHolds, PTL

\* A Telegram summary is sent at most once, for a recorded completion.
THEOREM SummaryAfterCompletion == Spec => []SummaryFollowsCompletion
<1>1. IInv => SummaryFollowsCompletion
  BY DEF IInv
<1>. QED
  BY <1>1, InvariantHolds, PTL

----------------------------------------------------------------------------
(* What distinct lease owner names add *)

DistinctNames == \A v, w \in Workers : OwnerOf[v] = OwnerOf[w] => v = w

\* A quiet step keeps leases and the runs of their owners together.
LEMMA QuietKeepsNames == ASSUME LeaseNamesItsRun, Quiet PROVE LeaseNamesItsRun'
<1>. SUFFICES ASSUME NEW w \in Workers, Working(w)', job'.owner = OwnerOf[w]
              PROVE  job'.last = worker'[w].slot
  BY DEF LeaseNamesItsRun
<1>1. Claimed(w)' /\ worker'[w].pc # "reporting"
  BY DEF Working, Claimed
<1>2. Claimed(w) /\ worker'[w].slot = worker[w].slot /\ worker[w].pc # "reporting"
  BY <1>1 DEF Quiet
<1>. QED
  BY <1>2 DEF Quiet, LeaseNamesItsRun, Working, Claimed

\* A step that ends with the lease released.
LEMMA ReleaseKeepsNames ==
    ASSUME job'.owner = NoOwner PROVE LeaseNamesItsRun'
BY StoreAssumption, WorkerAssumption DEF LeaseNamesItsRun

\* With distinct names, every step keeps a lease and the run of its owner together.
LEMMA NextKeepsNames ==
    ASSUME DistinctNames, TypeOK, LeaseNamesItsRun, [Next]_vars
    PROVE  LeaseNamesItsRun'
<1>0. StoreTypeOK
  BY DEF TypeOK
<1>1. CASE Quiet
  BY <1>1, QuietKeepsNames
<1>2. ASSUME NEW w \in Workers, ClaimSlot(w) PROVE LeaseNamesItsRun'
  <2>1. job'.owner = OwnerOf[w] /\ job'.last = job.next
    BY <1>0, <1>2 DEF ClaimSlot, LeaseSlot, StoreTypeOK, JobRows
  <2>2. worker'[w].slot = job.next
    BY <1>2 DEF ClaimSlot, Becomes, TypeOK
  <2>. QED
    BY <2>1, <2>2 DEF LeaseNamesItsRun, DistinctNames
<1>3. ASSUME NEW w \in Workers, PassClaimedSlot(w) PROVE LeaseNamesItsRun'
  BY <1>0, <1>3, ReleaseKeepsNames DEF PassClaimedSlot, AbandonSlot, StoreTypeOK, JobRows
<1>4. ASSUME NEW w \in Workers, RecordFailed(w) PROVE LeaseNamesItsRun'
  <2>1. CASE CompleteExecution(worker[w].slot, OwnerOf[w], "failed")
    BY <1>0, <2>1, ReleaseKeepsNames DEF CompleteExecution, StoreTypeOK, JobRows
  <2>2. CASE CompletionRefused(worker[w].slot, OwnerOf[w])
    <3>1. Quiet
      BY <1>4, <2>2, QuietWorker
         DEF RecordFailed, CompletionRefused, storeVars, Down, Polling, Asleep
    <3>. QED
      BY <3>1, QuietKeepsNames
  <2>. QED
    BY <1>4, <2>1, <2>2 DEF RecordFailed
<1>5. ASSUME NEW w \in Workers, RecordCompleted(w) PROVE LeaseNamesItsRun'
  BY <1>0, <1>5, ReleaseKeepsNames DEF RecordCompleted, CompleteExecution, StoreTypeOK, JobRows
<1>6. ASSUME NEW w \in Workers, Deliver(w) PROVE LeaseNamesItsRun'
  <2>1. UNCHANGED job /\ \A v \in Workers : Working(v)' => worker'[v] = worker[v]
    BY <1>6 DEF Deliver, storeVars, Becomes, Polling, Asleep, TypeOK, Working
  <2>. QED
    BY <2>1 DEF LeaseNamesItsRun, Working
<1>. QED
  BY <1>1, <1>2, <1>3, <1>4, <1>5, <1>6, StepKinds

\* With distinct names a worker that reads its own name on the lease holds the
\* lease of its own slot.
THEOREM NamesIdentifyRuns ==
    ASSUME DistinctNames
    PROVE  Spec => []LeaseNamesItsRun
<1>1. Init => LeaseNamesItsRun
  BY DEF Init, Asleep, LeaseNamesItsRun, Working
<1>2. TypeOK /\ LeaseNamesItsRun /\ [Next]_vars => LeaseNamesItsRun'
  BY NextKeepsNames
<1>. QED
  BY <1>1, <1>2, TypeCorrect, PTL DEF Spec

\* With distinct names a worker that was overtaken records no outcome.
THEOREM OvertakenRunsRecordNothing ==
    ASSUME DistinctNames
    PROVE  Spec => NoOvertakenOutcome
<1>. DEFINE Fenced == \A s \in Times :
        execs[s] = "running" /\ execs'[s] \in {"completed", "failed"} => job.last = s
<1>1. ASSUME TypeOK, LeaseNamesItsRun, [Next]_vars PROVE Fenced
  <2>. SUFFICES ASSUME NEW s \in Times, execs[s] = "running", execs'[s] \in {"completed", "failed"}
                PROVE  job.last = s
    OBVIOUS
  <2>1. ~Quiet
    BY DEF Quiet
  <2>2. PICK w \in Workers : \/ ClaimSlot(w) \/ PassClaimedSlot(w) \/ RecordFailed(w)
                            \/ RecordCompleted(w) \/ Deliver(w)
    BY <1>1, <2>1, StepKinds
  <2>3. PICK status : CompleteExecution(worker[w].slot, OwnerOf[w], status) /\ Working(w)
    BY <1>1, <2>2 DEF ClaimSlot, LeaseSlot, PassClaimedSlot, AbandonSlot, RecordFailed,
       RecordCompleted, Deliver, CompletionRefused, storeVars, TypeOK, StoreTypeOK, Working
  <2>4. worker[w].slot = s
    BY <1>1, <2>3 DEF CompleteExecution, TypeOK, StoreTypeOK
  <2>. QED
    BY <1>1, <2>3, <2>4 DEF CompleteExecution, CanComplete, LeaseNamesItsRun
<1>2. TypeOK /\ LeaseNamesItsRun /\ [Next]_vars => [Fenced]_vars
  BY <1>1
<1>. HIDE DEF Fenced
<1>3. Spec => [][Fenced]_vars
  BY <1>2, TypeCorrect, NamesIdentifyRuns, PTL DEF Spec
<1>. QED
  BY <1>3 DEF NoOvertakenOutcome, Fenced

----------------------------------------------------------------------------
(* Who ends a lease *)

\* A held lease has an expiry, and nobody looks at leases with a clock ahead of now.
LeaseHasExpiry == job.owner # NoOwner => job.until # Null
PolledBefore == \A w \in Workers : worker[w].polled <= now

LEMMA NextKeepsExpiry ==
    ASSUME TypeOK, LeaseHasExpiry, [Next]_vars
    PROVE  LeaseHasExpiry'
<1>0. job \in JobRows /\ worker \in [Workers -> WorkerStates] /\ now \in Nat /\ LeaseLen \in Nat
  BY StoreConstants DEF TypeOK, StoreTypeOK
<1>1. CASE job' = job
  BY <1>1 DEF LeaseHasExpiry
<1>2. ASSUME NEW t \in Nat, job'.until = t PROVE LeaseHasExpiry'
  BY <1>2 DEF LeaseHasExpiry, Null
<1>3. ASSUME NEW w \in Workers, ClaimSlot(w) PROVE LeaseHasExpiry'
  <2>1. worker[w].polled + LeaseLen \in Nat
    <3>1. worker[w] \in WorkerStates
      BY <1>0
    <3>2. worker[w].polled \in Times
      BY <3>1 DEF WorkerStates
    <3>3. worker[w].polled \in Nat
      BY <3>2, StoreConstants
    <3>. QED
      BY <1>0, <3>3
  <2>2. job'.until = worker[w].polled + LeaseLen
    BY <1>0, <1>3 DEF ClaimSlot, LeaseSlot, JobRows
  <2>. QED
    BY <1>2, <2>1, <2>2
<1>4. ASSUME NEW t, AbandonSlot(t) PROVE LeaseHasExpiry'
  BY <1>0, <1>4 DEF AbandonSlot, JobRows, LeaseHasExpiry
<1>5. ASSUME NEW slot, NEW owner, NEW status, CompleteExecution(slot, owner, status)
      PROVE  LeaseHasExpiry'
  BY <1>0, <1>5 DEF CompleteExecution, JobRows, LeaseHasExpiry
<1>6. ASSUME NEW owner, ExtendLease(owner, now + LeaseLen) PROVE LeaseHasExpiry'
  <2>1. job'.until = now + LeaseLen /\ now + LeaseLen \in Nat
    BY <1>0, <1>6 DEF ExtendLease, JobRows
  <2>. QED
    BY <1>2, <2>1
<1>7. ASSUME NEW e \in Editors, SaveSchedule(e) PROVE LeaseHasExpiry'
  BY <1>0, <1>7 DEF SaveSchedule, SaveJob, storeVars, JobRows, LeaseHasExpiry
<1>8. \/ job' = job
      \/ \E w \in Workers : ClaimSlot(w) \/ AbandonSlot(worker[w].polled)
      \/ \E slot, owner, status : CompleteExecution(slot, owner, status)
      \/ \E owner : ExtendLease(owner, now + LeaseLen)
      \/ \E e \in Editors : SaveSchedule(e)
  BY DEF Next, MainStep, RenewStep, Tick, Poll, PassClaimedSlot, NothingToRun, NothingDue,
     RowLocked, PollRaises, ClaimRaises, RunReturns, RunRaises, RecordFailed, RecordCompleted,
     RecordRefused, CompletionRefused, Deliver, RenewCheck, RenewUpdate, RenewRaises, Crash,
     Restart, OpenForm, SubmitForm, vars, storeVars
<1>. QED
  BY <1>1, <1>3, <1>4, <1>5, <1>6, <1>7, <1>8

LEMMA NextKeepsPolls ==
    ASSUME TypeOK, PolledBefore, [Next]_vars
    PROVE  PolledBefore'
<1>0. worker \in [Workers -> WorkerStates] /\ now \in Nat
  BY StoreConstants DEF TypeOK
<1>1. ASSUME worker' = worker, now' = now \/ now' = now + 1 PROVE PolledBefore'
  <2>. SUFFICES ASSUME NEW w \in Workers PROVE worker[w].polled <= now'
    BY <1>1 DEF PolledBefore
  <2>1. worker[w].polled \in Nat /\ worker[w].polled <= now
    BY <1>0, StoreConstants DEF WorkerStates, PolledBefore
  <2>. QED
    BY <1>0, <1>1, <2>1
<1>2. ASSUME NEW w \in Workers, NEW state, Becomes(w, state), now' = now,
             state.polled \in {0, now, worker[w].polled}
      PROVE  PolledBefore'
  <2>1. \A v \in Workers : worker'[v] = IF v = w THEN state ELSE worker[v]
    BY <1>0, <1>2 DEF Becomes
  <2>2. worker[w].polled <= now /\ now <= now /\ 0 <= now
    BY <1>0 DEF PolledBefore
  <2>. QED
    BY <1>2, <2>1, <2>2 DEF PolledBefore
<1>3. /\ Asleep.polled = 0 /\ Down.polled = 0
      /\ \A t : Polling(t).polled = t
  BY DEF Asleep, Down, Polling
<1>4. ASSUME NEW w \in Workers,
             \/ MainStep(w) \/ RenewStep(w) \/ RenewRaises(w) \/ Crash(w) \/ Restart(w)
      PROVE  PolledBefore'
  <2>1. PICK s \in WorkerStates : s = worker[w]
    BY <1>0
  <2>2. \A pc, r : /\ [s EXCEPT !.pc = pc].polled = s.polled
                   /\ [s EXCEPT !.renewer = r].polled = s.polled
    BY DEF WorkerStates
  <2>3. \A r, t : [s EXCEPT !.renewer = r, !.wakeAt = t].polled = s.polled
    BY DEF WorkerStates
  <2>4. [s EXCEPT !.pc = "recording", !.renewer = "off", !.wakeAt = 0].polled = s.polled
    BY DEF WorkerStates
  <2>5. CASE \/ Poll(w) \/ PassClaimedSlot(w) \/ NothingToRun(w) \/ RowLocked(w) \/ PollRaises(w)
             \/ RecordFailed(w) \/ RecordRefused(w) \/ Deliver(w) \/ Crash(w) \/ Restart(w)
    <3>1. now' = now
      BY <2>5 DEF Poll, PassClaimedSlot, NothingToRun, RowLocked, PollRaises, RecordFailed,
         RecordRefused, Deliver, Crash, Restart
    <3>2. \E state : Becomes(w, state) /\ state.polled \in {0, now, worker[w].polled}
      BY <1>3, <2>5 DEF Poll, PassClaimedSlot, NothingToRun, RowLocked, PollRaises, RecordFailed,
         RecordRefused, Deliver, Crash, Restart
    <3>. QED
      BY <1>2, <3>1, <3>2
  <2>6. CASE ClaimSlot(w)
    <3>1. PICK state : Becomes(w, state) /\ state.polled = worker[w].polled
      BY <2>6 DEF ClaimSlot
    <3>2. now' = now
      BY <2>6 DEF ClaimSlot
    <3>. QED
      BY <1>2, <3>1, <3>2
  <2>7. CASE RunReturns(w) \/ RunRaises(w) \/ RecordCompleted(w)
    <3>1. \/ Becomes(w, Down) \/ Becomes(w, Polling(s.polled))
          \/ \E pc : Becomes(w, [s EXCEPT !.pc = pc])
          \/ Becomes(w, [s EXCEPT !.pc = "recording", !.renewer = "off", !.wakeAt = 0])
      BY <2>1, <2>7 DEF RunReturns, RunRaises, RecordCompleted
    <3>2. now' = now
      BY <2>7 DEF RunReturns, RunRaises, RecordCompleted
    <3>. QED
      BY <1>2, <1>3, <2>1, <2>2, <2>4, <3>1, <3>2
  <2>8. CASE RenewStep(w) \/ RenewRaises(w)
    <3>1. \/ \E r : Becomes(w, [s EXCEPT !.renewer = r])
          \/ \E r, t : Becomes(w, [s EXCEPT !.renewer = r, !.wakeAt = t])
      BY <2>1, <2>8 DEF RenewStep, RenewCheck, RenewUpdate, RenewRaises
    <3>2. now' = now
      BY <2>8 DEF RenewStep, RenewCheck, RenewUpdate, RenewRaises
    <3>. QED
      BY <1>2, <2>1, <2>2, <2>3, <3>1, <3>2
  <2>. QED
    BY <1>4, <2>5, <2>6, <2>7, <2>8 DEF MainStep
<1>5. \/ worker' = worker /\ (now' = now \/ now' = now + 1)
      \/ \E w \in Workers : MainStep(w) \/ RenewStep(w) \/ RenewRaises(w) \/ Crash(w) \/ Restart(w)
  BY DEF Next, Tick, OpenForm, SubmitForm, SaveSchedule, vars
<1>. QED
  BY <1>1, <1>4, <1>5

\* With distinct names nobody but its own worker ends a lease that has not
\* expired, and that worker records its outcome with it (claim_due,
\* complete_execution): an overtaken worker does not release a newer lease.
THEOREM LeasesHeldToTheirEnds ==
    ASSUME DistinctNames
    PROVE  Spec => LeaseHeldToItsEnd
<1>. DEFINE Held ==
        job.owner # NoOwner /\ <<job'.owner, job'.last>> # <<job.owner, job.last>>
        => \/ job.until < now
           \/ \E w \in Workers :
                 /\ Working(w) /\ OwnerOf[w] = job.owner /\ worker[w].slot = job.last
                 /\ worker'[w].pc # worker[w].pc
                 /\ execs[job.last] = "running" /\ execs'[job.last] \in {"completed", "failed"}
<1>1. ASSUME IInv, LeaseNamesItsRun, LeaseHasExpiry, PolledBefore, [Next]_vars PROVE Held
  <2>. SUFFICES ASSUME job.owner # NoOwner,
                       <<job'.owner, job'.last>> # <<job.owner, job.last>>
                PROVE  \/ job.until < now
                       \/ \E w \in Workers :
                             /\ Working(w) /\ OwnerOf[w] = job.owner /\ worker[w].slot = job.last
                             /\ worker'[w].pc # worker[w].pc
                             /\ execs[job.last] = "running"
                             /\ execs'[job.last] \in {"completed", "failed"}
    OBVIOUS
  <2>0. /\ TypeOK /\ job \in JobRows /\ execs \in [Times -> Statuses] /\ now \in Nat
        /\ worker \in [Workers -> WorkerStates]
    BY <1>1, StoreConstants DEF IInv, TypeOK, StoreTypeOK
  <2>1. ~Quiet
    BY DEF Quiet
  <2>2. PICK w \in Workers : \/ ClaimSlot(w) \/ PassClaimedSlot(w) \/ RecordFailed(w)
                            \/ RecordCompleted(w) \/ Deliver(w)
    BY <1>1, <2>0, <2>1, StepKinds
  <2>3. ~Deliver(w)
    BY DEF Deliver, storeVars
  <2>4. CASE ClaimSlot(w) \/ PassClaimedSlot(w)
    <3>1. job.until = Null \/ job.until < worker[w].polled
      BY <2>4 DEF ClaimSlot, PassClaimedSlot, LeaseSlot, AbandonSlot, Due
    <3>2. job.until \in Nat /\ worker[w].polled \in Nat
      BY <1>1, <2>0, StoreConstants DEF JobRows, WorkerStates, LeaseHasExpiry
    <3>3. job.until < worker[w].polled /\ worker[w].polled <= now
      BY <1>1, <3>1 DEF LeaseHasExpiry, PolledBefore
    <3>. QED
      BY <2>0, <3>2, <3>3
  <2>5. CASE RecordFailed(w) \/ RecordCompleted(w)
    <3>1. /\ Working(w) /\ worker[w].pc \in {"failing", "recording"}
      BY <2>5 DEF RecordFailed, RecordCompleted, Working
    <3>2. PICK status \in {"completed", "failed"} :
             CompleteExecution(worker[w].slot, OwnerOf[w], status)
      BY <2>5 DEF RecordFailed, RecordCompleted, CompletionRefused, storeVars
    <3>3. job.owner = OwnerOf[w] /\ job.last = worker[w].slot /\ job.last \in Times
      BY <1>1, <3>1, <3>2 DEF CompleteExecution, CanComplete, LeaseNamesItsRun,
         IInv, LeaseGuardsRunningSlot
    <3>4. execs[job.last] = "running" /\ execs'[job.last] = status
      BY <2>0, <3>2, <3>3 DEF CompleteExecution, CanComplete
    <3>5. worker'[w].pc \in {"down", "polling", "reporting"}
      <4>1. PICK s \in WorkerStates : s = worker[w]
        BY <2>0
      <4>2. [s EXCEPT !.pc = "reporting"].pc = "reporting"
        BY DEF WorkerStates
      <4>3. Down.pc = "down" /\ \A t : Polling(t).pc = "polling"
        BY DEF Down, Polling, Asleep
      <4>4. \/ Becomes(w, Down) \/ \E t : Becomes(w, Polling(t))
            \/ Becomes(w, [s EXCEPT !.pc = "reporting"])
        BY <2>5, <4>1 DEF RecordFailed, RecordCompleted
      <4>. QED
        BY <2>0, <4>2, <4>3, <4>4 DEF Becomes
    <3>. QED
      BY <3>1, <3>3, <3>4, <3>5
  <2>. QED
    BY <2>2, <2>3, <2>4, <2>5
<1>2. IInv /\ LeaseNamesItsRun /\ LeaseHasExpiry /\ PolledBefore /\ [Next]_vars => [Held]_vars
  BY <1>1
<1>3. Init => LeaseHasExpiry /\ PolledBefore
  BY DEF Init, StoreInit, Asleep, LeaseHasExpiry, PolledBefore
<1>4. TypeOK /\ LeaseHasExpiry /\ PolledBefore /\ [Next]_vars => LeaseHasExpiry' /\ PolledBefore'
  BY NextKeepsExpiry, NextKeepsPolls
<1>. HIDE DEF Held
<1>5. Spec => [][Held]_vars
  BY <1>2, <1>3, <1>4, InvariantHolds, TypeCorrect, NamesIdentifyRuns, PTL DEF Spec
<1>. QED
  BY <1>5 DEF LeaseHeldToItsEnd, Held

----------------------------------------------------------------------------
(* What moves next_run_at and the version *)

\* Only a save changes the version; only a claim and a pass, besides it, move
\* next_run_at, and they move it by one slot.
THEOREM SchedulesAdvanceSlotBySlot == Spec => NoSlotDropped
<1>. DEFINE ByOne == job'.version = job.version /\ job'.next # job.next
                       => IsNextSlot(job.set.cron, job.next, job'.next) /\ execs'[job.next] # "absent"
<1>1. ASSUME TypeOK, [Next]_vars PROVE ByOne
  <2>0. job \in JobRows /\ execs \in [Times -> Statuses] /\ worker \in [Workers -> WorkerStates]
    BY <1>1 DEF TypeOK, StoreTypeOK
  <2>1. ASSUME NEW w \in Workers, ClaimSlot(w) PROVE ByOne
    <3>1. job.next \in Times
      BY <1>1, <2>1, LeaseSlotTyped, LeaseEnds, WorkerAssumption DEF ClaimSlot, WorkerStates, TypeOK
    <3>2. PICK next \in Instants : IsNextSlot(job.set.cron, job.next, next) /\ job'.next = next
      BY <2>0, <2>1 DEF ClaimSlot, LeaseSlot, JobRows
    <3>3. execs'[job.next] = "running"
      BY <2>0, <2>1, <3>1 DEF ClaimSlot, LeaseSlot
    <3>. QED
      BY <3>2, <3>3
  <2>2. ASSUME NEW w \in Workers, PassClaimedSlot(w) PROVE ByOne
    <3>1. job.next \in Times
      BY <1>1, <2>2, AbandonSlotTyped DEF PassClaimedSlot, WorkerStates, TypeOK
    <3>2. PICK next \in Instants : IsNextSlot(job.set.cron, job.next, next) /\ job'.next = next
      BY <2>0, <2>2 DEF PassClaimedSlot, AbandonSlot, JobRows
    <3>3. execs'[job.next] # "absent"
      BY <2>0, <2>2, <3>1 DEF PassClaimedSlot, AbandonSlot
    <3>. QED
      BY <3>2, <3>3
  <2>3. CASE job'.next = job.next
    BY <2>3
  <2>4. ASSUME NEW e \in Editors, SaveSchedule(e) PROVE ByOne
    <3>1. CASE SaveJob(editor[e].set, editor[e].next, editor[e].seen)
      <4>1. job'.version = editor[e].seen + 1 /\ job.version = editor[e].seen /\ job.version \in Nat
        BY <2>0, <3>1 DEF SaveJob, VersionMatches, JobRows
      <4>. QED
        BY <4>1
    <3>2. CASE job' = job
      BY <3>2
    <3>. QED
      BY <2>4, <3>1, <3>2 DEF SaveSchedule, storeVars
  <2>5. \/ \E w \in Workers : ClaimSlot(w) \/ PassClaimedSlot(w)
        \/ \E e \in Editors : SaveSchedule(e)
        \/ job'.next = job.next
    <3>1. ASSUME NEW slot, NEW owner, NEW status, CompleteExecution(slot, owner, status)
          PROVE  job'.next = job.next
      BY <2>0, <3>1 DEF CompleteExecution, JobRows
    <3>2. ASSUME NEW owner, NEW until, ExtendLease(owner, until) PROVE job'.next = job.next
      BY <2>0, <3>2 DEF ExtendLease, JobRows
    <3>. HIDE DEF ByOne
    <3>. QED
      BY <1>1, <3>1, <3>2 DEF Next, MainStep, RenewStep, Tick, Poll, NothingToRun, NothingDue,
         RowLocked, PollRaises, ClaimRaises, RunReturns, RunRaises, RecordFailed, RecordCompleted,
         RecordRefused, CompletionRefused, Deliver, RenewCheck, RenewUpdate, RenewRaises, Crash,
         Restart, OpenForm, SubmitForm, vars, storeVars
  <2>. HIDE DEF ByOne
  <2>. QED
    BY <2>1, <2>2, <2>3, <2>4, <2>5
<1>2. TypeOK /\ [Next]_vars => [ByOne]_vars
  BY <1>1
<1>. HIDE DEF ByOne
<1>3. Spec => [][ByOne]_vars
  BY <1>2, TypeCorrect, PTL DEF Spec
<1>. QED
  BY <1>3 DEF NoSlotDropped, ByOne

\* Every save replaces exactly the version that its form was loaded with (web/app.py,
\* schedule_repository.py): no claim, renewal or outcome changes a version.
THEOREM SavesReplaceSeenVersions == Spec => SaveReplacesSeenVersion
<1>. DEFINE Seen == job'.version # job.version
                      => /\ job'.version = job.version + 1
                         /\ \E e \in Editors : /\ editor[e].at = "saving" /\ editor'[e].at = "form"
                                               /\ editor[e].seen = job.version
<1>1. ASSUME TypeOK, [Next]_vars PROVE Seen
  <2>0. job \in JobRows /\ editor \in [Editors -> Forms]
    BY <1>1 DEF TypeOK, StoreTypeOK
  <2>1. ASSUME NEW e \in Editors, SaveSchedule(e) PROVE Seen
    <3>1. CASE SaveJob(editor[e].set, editor[e].next, editor[e].seen)
      <4>1. job'.version = editor[e].seen + 1 /\ job.version = editor[e].seen
        BY <2>0, <3>1 DEF SaveJob, VersionMatches, JobRows
      <4>2. editor[e].at = "saving" /\ editor'[e].at = "form"
        BY <2>0, <2>1 DEF SaveSchedule, Form
      <4>. QED
        BY <4>1, <4>2
    <3>2. CASE job' = job
      BY <3>2
    <3>. QED
      BY <2>1, <3>1, <3>2 DEF SaveSchedule, storeVars
  <2>2. (\E e \in Editors : SaveSchedule(e)) \/ job'.version = job.version
    <3>1. ASSUME NEW slot, NEW owner, NEW status, CompleteExecution(slot, owner, status)
          PROVE  job'.version = job.version
      BY <2>0, <3>1 DEF CompleteExecution, JobRows
    <3>2. ASSUME NEW owner, NEW until, ExtendLease(owner, until) PROVE job'.version = job.version
      BY <2>0, <3>2 DEF ExtendLease, JobRows
    <3>3. ASSUME NEW t, NEW owner, NEW until, LeaseSlot(t, owner, until) PROVE job'.version = job.version
      BY <2>0, <3>3 DEF LeaseSlot, JobRows
    <3>4. ASSUME NEW t, AbandonSlot(t) PROVE job'.version = job.version
      BY <2>0, <3>4 DEF AbandonSlot, JobRows
    <3>. HIDE DEF Seen
    <3>. QED
      BY <1>1, <3>1, <3>2, <3>3, <3>4 DEF Next, MainStep, RenewStep, Tick, Poll, ClaimSlot,
         PassClaimedSlot, NothingToRun, NothingDue, RowLocked, PollRaises, ClaimRaises, RunReturns,
         RunRaises, RecordFailed, RecordCompleted, RecordRefused, CompletionRefused, Deliver,
         RenewCheck, RenewUpdate, RenewRaises, Crash, Restart, OpenForm, SubmitForm, vars, storeVars
  <2>. HIDE DEF Seen
  <2>. QED
    BY <2>1, <2>2 DEF Seen
<1>2. TypeOK /\ [Next]_vars => [Seen]_vars
  BY <1>1
<1>. HIDE DEF Seen
<1>3. Spec => [][Seen]_vars
  BY <1>2, TypeCorrect, PTL DEF Spec
<1>. QED
  BY <1>3 DEF SaveReplacesSeenVersion, Seen

----------------------------------------------------------------------------
(* Renewals *)

\* The renewal task lives as long as the pipeline and, when that raised, up to the outcome.
RenewersWork ==
    \A w \in Workers : worker[w].renewer \in {"sleeping", "checked"} => worker[w].pc \in {"running", "failing"}

LEMMA NextKeepsRenewers ==
    ASSUME TypeOK, RenewersWork, [Next]_vars
    PROVE  RenewersWork'
<1>0. worker \in [Workers -> WorkerStates]
  BY DEF TypeOK
<1>1. CASE UNCHANGED worker
  BY <1>1 DEF RenewersWork
<1>2. ASSUME NEW w \in Workers, NEW state, Becomes(w, state),
             \/ state.renewer \notin {"sleeping", "checked"}
             \/ state.pc \in {"running", "failing"}
      PROVE  RenewersWork'
  <2>1. \A v \in Workers : worker'[v] = IF v = w THEN state ELSE worker[v]
    BY <1>0, <1>2 DEF Becomes
  <2>. QED
    BY <1>2, <2>1 DEF RenewersWork
<1>3. /\ Asleep.renewer = "off" /\ Down.renewer = "off"
      /\ \A t : Polling(t).renewer = "off"
  BY DEF Asleep, Down, Polling
<1>4. ASSUME NEW w \in Workers,
             \/ Poll(w) \/ PassClaimedSlot(w) \/ NothingToRun(w) \/ RowLocked(w) \/ PollRaises(w)
             \/ RecordFailed(w) \/ RecordRefused(w) \/ Deliver(w) \/ Crash(w) \/ Restart(w)
      PROVE  RenewersWork'
  <2>1. \E state : Becomes(w, state) /\ state.renewer = "off"
    BY <1>3, <1>4 DEF Poll, PassClaimedSlot, NothingToRun, RowLocked, PollRaises, RecordFailed,
       RecordRefused, Deliver, Crash, Restart
  <2>. QED
    BY <1>2, <2>1
<1>5. ASSUME NEW w \in Workers, ClaimSlot(w) PROVE RenewersWork'
  <2>1. PICK state : Becomes(w, state) /\ state.pc = "running"
    BY <1>5 DEF ClaimSlot
  <2>. QED
    BY <1>2, <2>1
<1>6. ASSUME NEW w \in Workers, RunReturns(w) \/ RunRaises(w) PROVE RenewersWork'
  <2>1. PICK s \in WorkerStates : s = worker[w]
    BY <1>0
  <2>2. [s EXCEPT !.pc = "recording", !.renewer = "off", !.wakeAt = 0].renewer = "off"
    BY DEF WorkerStates
  <2>3. [s EXCEPT !.pc = "failing"].pc = "failing"
    BY DEF WorkerStates
  <2>4. PICK state : /\ Becomes(w, state)
                     /\ \/ state = Down
                        \/ state = [s EXCEPT !.pc = "recording", !.renewer = "off", !.wakeAt = 0]
                        \/ state = [s EXCEPT !.pc = "failing"]
    BY <1>6, <2>1 DEF RunReturns, RunRaises
  <2>. QED
    BY <1>2, <1>3, <2>2, <2>3, <2>4
<1>7. ASSUME NEW w \in Workers, RecordCompleted(w) PROVE RenewersWork'
  <2>1. PICK s \in WorkerStates : s = worker[w] /\ s.renewer \notin {"sleeping", "checked"}
    BY <1>0, <1>7 DEF RecordCompleted, RenewersWork
  <2>2. [s EXCEPT !.pc = "reporting"].renewer = s.renewer
    BY DEF WorkerStates
  <2>3. PICK state : /\ Becomes(w, state)
                     /\ state = [s EXCEPT !.pc = "reporting"] \/ state = Polling(s.polled)
    BY <1>7, <2>1 DEF RecordCompleted
  <2>. QED
    BY <1>2, <1>3, <2>1, <2>2, <2>3
<1>8. ASSUME NEW w \in Workers, RenewStep(w) \/ RenewRaises(w) PROVE RenewersWork'
  <2>1. PICK s \in WorkerStates : s = worker[w] /\ s.pc \in {"running", "failing"}
    BY <1>0, <1>8 DEF RenewStep, RenewCheck, RenewUpdate, RenewRaises, RenewersWork
  <2>2. ASSUME NEW r, Becomes(w, [s EXCEPT !.renewer = r]) PROVE RenewersWork'
    <3>1. [s EXCEPT !.renewer = r].pc = s.pc
      BY DEF WorkerStates
    <3>. QED
      BY <1>2, <2>1, <2>2, <3>1
  <2>3. ASSUME NEW t, Becomes(w, [s EXCEPT !.renewer = "sleeping", !.wakeAt = t]) PROVE RenewersWork'
    <3>1. [s EXCEPT !.renewer = "sleeping", !.wakeAt = t].pc = s.pc
      BY DEF WorkerStates
    <3>. QED
      BY <1>2, <2>1, <2>3, <3>1
  <2>4. CASE RenewCheck(w)
    BY <2>1, <2>2, <2>4 DEF RenewCheck
  <2>5. CASE RenewUpdate(w)
    BY <2>1, <2>2, <2>3, <2>5 DEF RenewUpdate
  <2>6. CASE RenewRaises(w)
    BY <2>1, <2>2, <2>6 DEF RenewRaises
  <2>. QED
    BY <1>8, <2>4, <2>5, <2>6 DEF RenewStep
<1>9. \/ UNCHANGED worker
      \/ \E w \in Workers : MainStep(w) \/ RenewStep(w) \/ RenewRaises(w) \/ Crash(w) \/ Restart(w)
  BY DEF Next, Tick, OpenForm, SubmitForm, SaveSchedule, vars
<1>. QED
  BY <1>1, <1>4, <1>5, <1>6, <1>7, <1>8, <1>9 DEF MainStep

\* With distinct names a renewal that comes late, between whose two statements anything may
\* have happened, prolongs the lease of its own slot or nothing
\* (scheduled_recommendations.py, schedule_repository.py).
THEOREM RenewalsKeepOwnLeases ==
    ASSUME DistinctNames
    PROVE  Spec => RenewalKeepsOwnLease
<1>. DEFINE Own == job'.owner # NoOwner /\ job'.owner = job.owner /\ job'.last = job.last
                     /\ job'.until # job.until
                   => \E w \in Workers : /\ Working(w) /\ worker[w].slot = job.last
                                         /\ worker'[w].renewer # worker[w].renewer
<1>1. ASSUME IInv, LeaseNamesItsRun, RenewersWork, [Next]_vars PROVE Own
  <2>. SUFFICES ASSUME job'.owner # NoOwner, job'.owner = job.owner, job'.last = job.last,
                       job'.until # job.until
                PROVE  \E w \in Workers : /\ Working(w) /\ worker[w].slot = job.last
                                          /\ worker'[w].renewer # worker[w].renewer
    OBVIOUS
  <2>0. job \in JobRows /\ worker \in [Workers -> WorkerStates]
    BY <1>1 DEF IInv, TypeOK, StoreTypeOK
  <2>1. ASSUME NEW w \in Workers, ClaimSlot(w) PROVE FALSE
    <3>1. execs[job.next] = "absent" /\ job'.last = job.next
      BY <2>0, <2>1 DEF ClaimSlot, LeaseSlot, JobRows
    <3>2. execs[job.last] = "running"
      BY <1>1 DEF IInv, LeaseGuardsRunningSlot
    <3>. QED
      BY <3>1, <3>2
  <2>2. ASSUME NEW t, AbandonSlot(t) PROVE FALSE
    BY <2>0, <2>2 DEF AbandonSlot, JobRows
  <2>3. ASSUME NEW slot, NEW owner, NEW status, CompleteExecution(slot, owner, status) PROVE FALSE
    BY <2>0, <2>3 DEF CompleteExecution, JobRows
  <2>4. ASSUME NEW e \in Editors, SaveSchedule(e) PROVE FALSE
    BY <2>0, <2>4 DEF SaveSchedule, SaveJob, storeVars, JobRows
  <2>5. \E w \in Workers : RenewUpdate(w)
    BY <1>1, <2>1, <2>2, <2>3, <2>4 DEF Next, MainStep, RenewStep, Tick, Poll, PassClaimedSlot,
       NothingToRun, NothingDue, RowLocked, PollRaises, ClaimRaises, RunReturns, RunRaises,
       RecordFailed, RecordCompleted, RecordRefused, CompletionRefused, Deliver, RenewCheck,
       RenewRaises, Crash, Restart, OpenForm, SubmitForm, vars, storeVars
  <2>6. PICK w \in Workers : /\ worker[w].renewer = "checked" /\ job.owner = OwnerOf[w]
                             /\ Becomes(w, [worker[w] EXCEPT !.renewer = "sleeping", !.wakeAt = now + RenewEvery])
    BY <2>5 DEF RenewUpdate, ExtendLease, storeVars
  <2>7. Working(w) /\ job.last = worker[w].slot
    BY <1>1, <2>6 DEF RenewersWork, LeaseNamesItsRun, Working
  <2>8. worker'[w].renewer = "sleeping"
    BY <2>0, <2>6 DEF Becomes, WorkerStates
  <2>. QED
    BY <2>6, <2>7, <2>8
<1>2. IInv /\ LeaseNamesItsRun /\ RenewersWork /\ [Next]_vars => [Own]_vars
  BY <1>1
<1>3. Init => RenewersWork
  BY DEF Init, Asleep, RenewersWork
<1>4. IInv => TypeOK
  BY DEF IInv
<1>. HIDE DEF Own
<1>5. Spec => []RenewersWork
  BY <1>3, <1>4, NextKeepsRenewers, InvariantHolds, PTL DEF Spec
<1>6. Spec => [][Own]_vars
  BY <1>2, <1>5, InvariantHolds, NamesIdentifyRuns, PTL DEF Spec
<1>. QED
  BY <1>6 DEF RenewalKeepsOwnLease, Own

----------------------------------------------------------------------------
(* Refinement *)

\* Every step of the workers is a step of the slot ledger or leaves it alone.
LEMMA StepsRefine ==
    ASSUME IInv, [Next]_vars
    PROVE  [Ledger!LedgerNext]_(Ledger!ledgerVars)
<1>. USE DEF IInv, TypeOK, StoreTypeOK, Ledger!ledgerVars
<1>1. CASE Quiet
  BY <1>1 DEF Quiet
<1>2. ASSUME NEW w \in Workers, ClaimSlot(w) PROVE Ledger!LedgerNext
  <2>. DEFINE s == job.next
  <2>1. s \in Times
    BY <1>2, LeaseSlotTyped, LeaseEnds, WorkerAssumption DEF ClaimSlot, WorkerStates
  <2>2. execs[s] = "absent" /\ runs[s] = 0 /\ execs' = [execs EXCEPT ![s] = "running"]
    BY <1>2, <2>1 DEF ClaimSlot, LeaseSlot, SlotRunsAtMostOnce
  <2>3. runs' = [runs EXCEPT ![s] = 1] /\ told' = told
    BY <1>2, <2>1, <2>2 DEF ClaimSlot
  <2>4. Ledger!Start(s)
    BY <2>2, <2>3 DEF Ledger!Start
  <2>. QED
    BY <2>1, <2>4 DEF Ledger!LedgerNext
<1>3. ASSUME NEW s \in Times, NEW status \in Terminal, execs[s] = "running",
             execs' = [execs EXCEPT ![s] = status], UNCHANGED <<runs, told>>
      PROVE  Ledger!LedgerNext
  BY <1>3 DEF Ledger!LedgerNext, Ledger!Finish, Terminal
<1>4. ASSUME NEW w \in Workers, PassClaimedSlot(w)
      PROVE  Ledger!LedgerNext \/ UNCHANGED <<execs, runs, told>>
  <2>1. job.next \in Times
    BY <1>4, AbandonSlotTyped DEF PassClaimedSlot, WorkerStates
  <2>. QED
    BY <1>3, <1>4, <2>1 DEF PassClaimedSlot, AbandonSlot, Terminal
<1>5. ASSUME NEW w \in Workers, RecordFailed(w) \/ RecordCompleted(w)
      PROVE  Ledger!LedgerNext \/ UNCHANGED <<execs, runs, told>>
  <2>1. worker[w].slot \in Times
    BY DEF WorkerStates
  <2>. QED
    BY <1>3, <1>5, <2>1 DEF RecordFailed, RecordCompleted, CompleteExecution, CanComplete,
       CompletionRefused, storeVars, Terminal
<1>6. ASSUME NEW w \in Workers, Deliver(w)
      PROVE  Ledger!LedgerNext \/ UNCHANGED <<execs, runs, told>>
  <2>. DEFINE s == worker[w].slot
  <2>1. s \in Times /\ execs[s] = "completed" /\ told[s] = 0
    BY <1>6 DEF Deliver, ReportsDue, WorkerStates
  <2>2. told' = [told EXCEPT ![s] = 1] \/ told' = told
    BY <1>6, <2>1 DEF Deliver
  <2>. QED
    BY <1>6, <2>1, <2>2 DEF Deliver, storeVars, Ledger!LedgerNext, Ledger!Report
<1>. QED
  BY <1>1, <1>2, <1>4, <1>5, <1>6, StepKinds

\* The system implements the slot ledger, for every assignment of owner names.
THEOREM WorkersImplementLedger == Spec => LedgerKept
<1>1. Init => Ledger!LedgerInit
  BY DEF Init, StoreInit, Ledger!LedgerInit
<1>2. IInv /\ [Next]_vars => [Ledger!LedgerNext]_(Ledger!ledgerVars)
  BY StepsRefine
<1>. QED
  BY <1>1, <1>2, InvariantHolds, PTL DEF Spec, LedgerKept, Ledger!LedgerSpec
=============================================================================
