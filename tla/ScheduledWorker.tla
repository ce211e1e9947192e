--------------------------- MODULE ScheduledWorker ---------------------------
(***************************************************************************)
(* The periodic recommendations: schedule workers that poll the schedule   *)
(* store, run the recommendation pipeline for a leased slot while a        *)
(* background task renews the lease, record the outcome and report it to   *)
(* Telegram (app/harness/scheduled_recommendations.py and                  *)
(* app/scheduled_worker.py), together with the browsers that edit the      *)
(* schedule through the dashboard (save_schedule of app/web/app.py).       *)
(*                                                                         *)
(* Worker processes can die between any two steps and are restarted        *)
(* (docker-compose.yml: restart unless-stopped).                           *)
(***************************************************************************)
EXTENDS ScheduleStore

CONSTANTS
    Workers,       \* worker processes
    OwnerOf,       \* the lease owner name each one is configured with
    Reporter,      \* whether Telegram credentials are configured
    RenewEvery,    \* pause of the renewal task (300 seconds)
    Prompt,        \* whether only the pipeline and the pauses take time
    Editors,       \* browsers with the settings page
    Submitted,     \* the settings they submit
    MaxVersion,    \* bound on the saves
    MaxFaults,     \* bound on crashes and failing renewals
    LastFault      \* no fault happens after this time

ASSUME WorkerAssumption ==
    /\ OwnerOf \in [Workers -> Owners]
    /\ Reporter \in BOOLEAN
    /\ Submitted \subseteq Settings
    /\ RenewEvery \in Nat \ {0} /\ Prompt \in BOOLEAN
    /\ MaxVersion \in Nat /\ MaxFaults \in Nat /\ LastFault \in Nat

VARIABLES
    now,      \* the clock
    worker,   \* each worker process: its main task and its renewal task
    editor,   \* each browser: the version its form holds, or the save in flight
    runs,     \* how often the pipeline was started for each slot
    told,     \* how many Telegram summaries were sent for each slot
    faults    \* crashes and failed renewals so far

vars == <<storeVars, now, worker, editor, runs, told, faults>>

\* A worker: where its main task is, the now_utc run_due was called with, its
\* claim (slot, Telegram flag), where its renewal task is and its wake-up time.
WorkerStates ==
    [pc : {"down", "sleeping", "polling", "running", "failing", "recording", "reporting"},
     polled : Times, slot : Times, telegram : BOOLEAN,
     renewer : {"off", "sleeping", "checked", "returned", "raised"}, wakeAt : Nat]

Forms == [at : {"form", "saving"}, seen : Nat, set : Settings, next : Instants]

TypeOK ==
    /\ StoreTypeOK
    /\ now \in Times
    /\ worker \in [Workers -> WorkerStates]
    /\ editor \in [Editors -> Forms]
    /\ runs \in [Times -> Nat]
    /\ told \in [Times -> Nat]
    /\ faults \in 0 .. MaxFaults

Asleep == [pc |-> "sleeping", polled |-> 0, slot |-> 0, telegram |-> FALSE,
           renewer |-> "off", wakeAt |-> 0]
Down == [Asleep EXCEPT !.pc = "down"]
Polling(t) == [Asleep EXCEPT !.pc = "polling", !.polled = t]
Form(seen) == [at |-> "form", seen |-> seen, set |-> AnySettings, next |-> 0]

Init ==
    /\ StoreInit
    /\ now = 0
    /\ worker = [w \in Workers |-> Asleep]
    /\ editor = [e \in Editors |-> Form(0)]
    /\ runs = [s \in Times |-> 0]
    /\ told = [s \in Times |-> 0]
    /\ faults = 0

\* A worker inside _run_claim: its pipeline was started, its outcome is unrecorded.
Working(w) == worker[w].pc \in {"running", "failing", "recording"}

Becomes(w, state) == worker' = [worker EXCEPT ![w] = state]

----------------------------------------------------------------------------
(* The main task of a worker: run_forever, run_due and _run_claim *)

\* run_forever wakes up, reads the clock once and calls run_due with it.
Poll(w) ==
    /\ worker[w].pc = "sleeping"
    /\ Becomes(w, Polling(now))
    /\ UNCHANGED <<storeVars, now, editor, runs, told, faults>>

\* claim_due leases a slot; the renewal task is created and the pipeline starts.
\* The lease runs from the time run_due was called with, not from the clock.
ClaimSlot(w) ==
    /\ worker[w].pc = "polling"
    /\ LeaseSlot(worker[w].polled, OwnerOf[w], worker[w].polled + LeaseLen)
    /\ Becomes(w, [pc |-> "running", polled |-> worker[w].polled, slot |-> job.next,
                   telegram |-> job.set.telegram,
                   renewer |-> "sleeping", wakeAt |-> now + RenewEvery])
    /\ runs' = [runs EXCEPT ![job.next] = @ + 1]
    /\ UNCHANGED <<now, editor, told, faults>>

\* The slot was claimed before: claim_due returns None after moving past it,
\* so run_due returns although a later slot may be due as well.
PassClaimedSlot(w) ==
    /\ worker[w].pc = "polling"
    /\ AbandonSlot(worker[w].polled)
    /\ Becomes(w, Asleep)
    /\ UNCHANGED <<now, editor, runs, told, faults>>

NothingToRun(w) ==
    /\ worker[w].pc = "polling"
    /\ NothingDue(worker[w].polled)
    /\ Becomes(w, Asleep)
    /\ UNCHANGED <<now, editor, runs, told, faults>>

\* FOR UPDATE SKIP LOCKED: another transaction holds the row of the job.
RowBusy(w) ==
    \/ \E v \in Workers \ {w} :
          worker[v].pc \in {"polling", "failing", "recording"} \/ worker[v].renewer = "checked"
    \/ \E e \in Editors : editor[e].at = "saving"

RowLocked(w) ==
    /\ worker[w].pc = "polling"
    /\ Due(worker[w].polled) /\ RowBusy(w)
    /\ Becomes(w, Asleep)
    /\ UNCHANGED <<storeVars, now, editor, runs, told, faults>>

\* next_run_at raises inside claim_due: nothing catches it, the process ends.
PollRaises(w) ==
    /\ worker[w].pc = "polling"
    /\ ClaimRaises(worker[w].polled)
    /\ Becomes(w, Down)
    /\ UNCHANGED <<now, editor, runs, told, faults>>

\* The pipeline returned: the finally block cancels and awaits the renewal
\* task, and an exception that task ended with ends the process instead.
RunReturns(w) ==
    /\ worker[w].pc = "running"
    /\ Becomes(w, IF worker[w].renewer = "raised" THEN Down
                  ELSE [worker[w] EXCEPT !.pc = "recording", !.renewer = "off", !.wakeAt = 0])
    /\ UNCHANGED <<storeVars, now, editor, runs, told, faults>>

\* The pipeline raised: the outcome is recorded first, with the renewal task
\* still alive.
RunRaises(w) ==
    /\ worker[w].pc = "running"
    /\ Becomes(w, [worker[w] EXCEPT !.pc = "failing"])
    /\ UNCHANGED <<storeVars, now, editor, runs, told, faults>>

\* Slip: the exception is swallowed and no outcome is recorded.
RecordFailed_Swallowed(w) ==
    /\ worker[w].pc = "failing"
    /\ Becomes(w, Polling(worker[w].polled))
    /\ UNCHANGED <<storeVars, now, editor, runs, told, faults>>

RecordFailed(w) ==
    /\ worker[w].pc = "failing"
    /\ \/ CompleteExecution(worker[w].slot, OwnerOf[w], "failed")
       \/ CompletionRefused(worker[w].slot, OwnerOf[w])
    /\ Becomes(w, IF worker[w].renewer = "raised" THEN Down ELSE Polling(worker[w].polled))
    /\ UNCHANGED <<now, editor, runs, told, faults>>

RecordCompleted(w) ==
    /\ worker[w].pc = "recording"
    /\ CompleteExecution(worker[w].slot, OwnerOf[w], "completed")
    /\ Becomes(w, IF worker[w].telegram /\ Reporter THEN [worker[w] EXCEPT !.pc = "reporting"]
                  ELSE Polling(worker[w].polled))
    /\ UNCHANGED <<now, editor, runs, told, faults>>

\* Slip: the early return after a refused outcome is missing.
RecordRefused_Reports(w) ==
    /\ worker[w].pc = "recording"
    /\ CompletionRefused(worker[w].slot, OwnerOf[w])
    /\ Becomes(w, [worker[w] EXCEPT !.pc = "reporting"])
    /\ UNCHANGED <<now, editor, runs, told, faults>>

\* The terminal status was not recorded: a warning, and no Telegram summary.
RecordRefused(w) ==
    /\ worker[w].pc = "recording"
    /\ CompletionRefused(worker[w].slot, OwnerOf[w])
    /\ Becomes(w, Polling(worker[w].polled))
    /\ UNCHANGED <<now, editor, runs, told, faults>>

\* deliver sends the summary, or returns an error that is only logged.
Deliver(w) ==
    /\ worker[w].pc = "reporting"
    /\ \/ told' = [told EXCEPT ![worker[w].slot] = @ + 1]
       \/ told' = told
    /\ Becomes(w, Polling(worker[w].polled))
    /\ UNCHANGED <<storeVars, now, editor, runs, faults>>

----------------------------------------------------------------------------
(* The renewal task: _renew_lease_until_finished *)

\* It wakes up and reads whether its execution is still running.
RenewCheck(w) ==
    /\ worker[w].renewer = "sleeping" /\ now >= worker[w].wakeAt
    /\ Becomes(w, [worker[w] EXCEPT !.renewer =
                      IF RenewalAllowed(worker[w].slot) THEN "checked" ELSE "returned"])
    /\ UNCHANGED <<storeVars, now, editor, runs, told, faults>>

\* It extends the lease if its name is still on it, otherwise it gives up.
RenewUpdate(w) ==
    /\ worker[w].renewer = "checked"
    /\ \/ /\ ExtendLease(OwnerOf[w], now + LeaseLen)
          /\ Becomes(w, [worker[w] EXCEPT !.renewer = "sleeping", !.wakeAt = now + RenewEvery])
       \/ /\ job.owner # OwnerOf[w]
          /\ Becomes(w, [worker[w] EXCEPT !.renewer = "returned"])
          /\ UNCHANGED storeVars
    /\ UNCHANGED <<now, editor, runs, told, faults>>

----------------------------------------------------------------------------
(* Faults: at most MaxFaults, none after LastFault *)

Fault == faults < MaxFaults /\ now <= LastFault /\ faults' = faults + 1

\* A database error inside the renewal task ends it with an exception.
RenewRaises(w) ==
    /\ Fault
    /\ worker[w].renewer \in {"sleeping", "checked"} /\ now >= worker[w].wakeAt
    /\ Becomes(w, [worker[w] EXCEPT !.renewer = "raised"])
    /\ UNCHANGED <<storeVars, now, editor, runs, told>>

\* The process ends: a crash, or an error of the database that no one catches.
Crash(w) ==
    /\ Fault
    /\ worker[w].pc # "down"
    /\ Becomes(w, Down)
    /\ UNCHANGED <<storeVars, now, editor, runs, told>>

Restart(w) ==
    /\ worker[w].pc = "down"
    /\ Becomes(w, Asleep)
    /\ UNCHANGED <<storeVars, now, editor, runs, told, faults>>

----------------------------------------------------------------------------
(* The settings page and save_schedule *)

\* GET: the page shows the version it loaded.  When the next slot cannot be
\* computed the request fails and the page keeps no version at all.
OpenForm(e) ==
    /\ editor[e].at = "form"
    /\ LET loaded == IF Exists /\ HasNextSlot(job.set.cron, now) THEN job.version ELSE 0
       IN /\ loaded # editor[e].seen
          /\ editor' = [editor EXCEPT ![e] = Form(loaded)]
    /\ UNCHANGED <<storeVars, now, worker, runs, told, faults>>

\* PUT, first transaction: the stored version is compared with the form's and
\* the next slot is computed from the clock.
SubmitForm(e) ==
    /\ editor[e].at = "form"
    /\ VersionMatches(editor[e].seen)
    /\ job.version < MaxVersion
    /\ \E set \in Submitted, next \in Instants :
          /\ IsNextSlot(set.cron, now, next)
          /\ editor' = [editor EXCEPT ![e] =
                [at |-> "saving", seen |-> job.version, set |-> set, next |-> next]]
    /\ UNCHANGED <<storeVars, now, worker, runs, told, faults>>

\* PUT, second transaction: the save itself, or a version conflict (409).
SaveSchedule(e) ==
    /\ editor[e].at = "saving"
    /\ \/ /\ SaveJob(editor[e].set, editor[e].next, editor[e].seen)
          /\ editor' = [editor EXCEPT ![e] = Form(editor[e].seen + 1)]
       \/ /\ ~VersionMatches(editor[e].seen)
          /\ editor' = [editor EXCEPT ![e] = Form(editor[e].seen)]
          /\ UNCHANGED storeVars
    /\ UNCHANGED <<now, worker, runs, told, faults>>

----------------------------------------------------------------------------
\* The clock.  Unless Prompt, any step can be arbitrarily late: a blocked event
\* loop, a slow database.
OnlyPausesAndRuns ==
    /\ \A w \in Workers :
          /\ worker[w].pc \in {"down", "sleeping", "running"}
          /\ worker[w].renewer \in {"sleeping", "checked"} => now < worker[w].wakeAt
    /\ \A e \in Editors : editor[e].at = "form"

Tick ==
    /\ now < MaxTime
    /\ Prompt => OnlyPausesAndRuns
    /\ now' = now + 1
    /\ UNCHANGED <<storeVars, worker, editor, runs, told, faults>>

MainStep(w) ==
    \/ Poll(w) \/ ClaimSlot(w) \/ PassClaimedSlot(w) \/ NothingToRun(w) \/ RowLocked(w)
    \/ PollRaises(w) \/ RunReturns(w) \/ RunRaises(w) \/ RecordFailed(w)
    \/ RecordCompleted(w) \/ RecordRefused(w) \/ Deliver(w)

RenewStep(w) == RenewCheck(w) \/ RenewUpdate(w)

Next ==
    \/ Tick
    \/ \E w \in Workers :
          MainStep(w) \/ RenewStep(w) \/ RenewRaises(w) \/ Crash(w) \/ Restart(w)
    \/ \E e \in Editors : OpenForm(e) \/ SubmitForm(e) \/ SaveSchedule(e)

Spec == Init /\ [][Next]_vars

----------------------------------------------------------------------------
(* Fairness.  A live worker's event loop keeps stepping, its pipeline and  *)
(* its database calls end (every external call of theirs has a timeout),   *)
(* and Docker restarts a dead process.  Row locks are held for one short   *)
(* transaction, so a worker is not locked out of the row again and again:  *)
(* strong fairness of the claim.                                           *)

Fairness ==
    /\ WF_vars(Tick)
    /\ \A w \in Workers :
          /\ WF_vars(MainStep(w))
          /\ WF_vars(RenewStep(w))
          /\ WF_vars(Restart(w))
          /\ SF_vars(ClaimSlot(w))
          /\ SF_vars(PassClaimedSlot(w))
    /\ \A e \in Editors : WF_vars(SaveSchedule(e))

FairSpec == Spec /\ Fairness

----------------------------------------------------------------------------
(* Properties *)

\* What the detailed system implements: each slot's pipeline starts at most
\* once, outcomes are final, and a summary follows its recorded completion once.
Ledger == INSTANCE SlotLedger WITH
              Slots <- Times, outcome <- execs, started <- runs, sent <- told

LedgerKept == Ledger!LedgerSpec

\* The same slot is never processed twice (README.md:193), even when a stale
\* settings save moves next_run_at back onto a slot that was claimed already.
SlotRunsAtMostOnce ==
    \A s \in Times : runs[s] <= 1 /\ (execs[s] = "absent" => runs[s] = 0)

\* A summary is sent at most once per slot, and only for a slot whose completed
\* outcome is in the database; it stays there (scheduled_recommendations.py:132).
SummaryFollowsCompletion ==
    \A s \in Times : told[s] <= 1 /\ (told[s] > 0 => execs[s] = "completed")

\* A worker that finds its own name on the lease is working on the leased slot,
\* so complete_execution and renew_lease, which compare names only, act on the
\* lease of their own claim.  It takes distinct names.
LeaseNamesItsRun ==
    \A w \in Workers :
        Working(w) /\ job.owner = OwnerOf[w] => job.last = worker[w].slot

\* Fencing: a worker that lost its lease records nothing.  Whenever an
\* execution ends as completed or failed, no slot was claimed after it.
NoOvertakenOutcome ==
    [][\A s \in Times :
          execs[s] = "running" /\ execs'[s] \in {"completed", "failed"} => job.last = s]_vars

\* A lease is held to its end: it is taken from its holder, or released, only
\* after it expired or by its own worker, which records the outcome of the leased
\* slot in the same transaction.  An overtaken worker leaves a newer lease alone.
LeaseHeldToItsEnd ==
    [][job.owner # NoOwner /\ <<job'.owner, job'.last>> # <<job.owner, job.last>>
       => \/ job.until < now
          \/ \E w \in Workers :
                /\ Working(w) /\ OwnerOf[w] = job.owner /\ worker[w].slot = job.last
                /\ worker'[w].pc # worker[w].pc
                /\ execs[job.last] = "running" /\ execs'[job.last] \in {"completed", "failed"}]_vars

\* A renewal never prolongs the lease of another claim: when the expiry of a
\* held lease moves, it moves for a worker that is working on the leased slot.
RenewalKeepsOwnLease ==
    [][job'.owner # NoOwner /\ job'.owner = job.owner /\ job'.last = job.last
          /\ job'.until # job.until
       => \E w \in Workers : /\ Working(w) /\ worker[w].slot = job.last
                             /\ worker'[w].renewer # worker[w].renewer]_vars

\* Workers move the schedule one slot at a time: between two saves next_run_at
\* only advances to the next match of its cron, past a slot that has an
\* execution, so no slot is dropped however late the workers are.
NoSlotDropped ==
    [][job'.version = job.version /\ job'.next # job.next
       => IsNextSlot(job.set.cron, job.next, job'.next) /\ execs'[job.next] # "absent"]_vars

\* Optimistic concurrency of the settings page: every save replaces exactly the
\* version its form was loaded with, and versions go up by one.
SaveReplacesSeenVersion ==
    [][job'.version # job.version
       => /\ job'.version = job.version + 1
          /\ \E e \in Editors : /\ editor[e].at = "saving" /\ editor'[e].at = "form"
                                /\ editor[e].seen = job.version]_vars

\* A due slot is eventually claimed or passed, whatever crashes happened before,
\* unless a save moves the schedule elsewhere or switches it off.
DueSlotHandled ==
    \A s \in Times :
        (Exists /\ job.set.active /\ job.next = s /\ s <= now)
            ~> (job.next # s \/ ~job.set.active)

\* With one worker, every slot it works on gets a recorded outcome unless its own
\* process ends first; earlier crashes and failing renewals excuse nothing, and a
\* failing renewal of this run only by ending the process after the pipeline.
EveryRunEnds ==
    \A w \in Workers, s \in Times :
        (Working(w) /\ worker[w].slot = s) ~> (execs[s] \in Terminal \/ worker[w].pc = "down")

----------------------------------------------------------------------------
(* Statements of the documents that the code does not keep *)

\* An execution that lost its lease is left with the terminal observation
\* lease_expired before the schedule moves on: a new slot is never leased while
\* an earlier execution is still recorded as running.
LostRunIsAbandoned ==
    \A s, t \in Times : execs[s] = "running" /\ execs[t] = "running" => s = t

\* The renewal task keeps the lease of a live pipeline ahead of its expiry.
LeaseKeptAhead ==
    \A w \in Workers :
        worker[w].pc = "running" /\ worker[w].renewer = "sleeping" /\ job.last = worker[w].slot
            => job.owner = OwnerOf[w] /\ job.until >= now
=============================================================================
