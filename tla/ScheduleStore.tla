---------------------------- MODULE ScheduleStore ----------------------------
(***************************************************************************)
(* The two tables behind the periodic recommendations and the transactions *)
(* on them (app/persistence/schedule_repository.py).  The dashboard only   *)
(* ever stores the job "default", so the job table is one row, absent      *)
(* while its version is 0; the executions of that job are a function from  *)
(* the slot (scheduled_for) to the status column, "absent" where there is  *)
(* no row, which is what UNIQUE(job_id, scheduled_for) allows.             *)
(*                                                                         *)
(* Every operator below is one transaction.  claim_due and                 *)
(* complete_execution take the row lock of the job with their first        *)
(* statement and save is one statement, so each is atomic under READ       *)
(* COMMITTED; renew_lease locks nothing while it reads and is two.         *)
(***************************************************************************)
EXTENDS Integers

CONSTANTS
    Crons,        \* the cron expressions in use
    Fires(_, _),  \* Fires(c, t): cron c matches the instant t
    Horizon,      \* how far the next slot is looked for (527_040 minutes)
    MaxTime,      \* bound on the clock
    LeaseLen,     \* length of a lease (30 minutes)
    Owners,       \* lease owner names (SCHEDULE_WORKER_ID)
    NoOwner       \* lease_owner IS NULL

ASSUME StoreAssumption ==
    /\ Horizon \in Nat /\ MaxTime \in Nat /\ LeaseLen \in Nat
    /\ NoOwner \notin Owners
    /\ Crons # {}

VARIABLES
    job,    \* the row of scheduled_recommendation_jobs
    execs   \* status of the row of scheduled_recommendation_executions per slot

storeVars == <<job, execs>>

Null == -1                     \* NULL in last_run_at and lease_until
Times == 0 .. MaxTime
Instants == 0 .. MaxTime + Horizon + LeaseLen
Terminal == {"completed", "failed", "abandoned"}
Statuses == Terminal \cup {"absent", "running"}
Settings == [active : BOOLEAN, cron : Crons, telegram : BOOLEAN]
AnySettings == CHOOSE set \in Settings : TRUE   \* where there are none yet

\* next_run_at(after): the first match strictly after `after`, looked for
\* within the horizon only; when there is none the code raises ValueError.
IsNextSlot(c, after, s) ==
    /\ s \in (after + 1) .. (after + Horizon)
    /\ Fires(c, s)
    /\ \A r \in (after + 1) .. (s - 1) : ~Fires(c, r)

HasNextSlot(c, after) == \E s \in (after + 1) .. (after + Horizon) : Fires(c, s)

JobRows == [set : Settings, version : Nat, next : Instants, last : Times \cup {Null},
            owner : Owners \cup {NoOwner}, until : Instants \cup {Null}]

StoreTypeOK == job \in JobRows /\ execs \in [Times -> Statuses]

StoreInit ==
    /\ job = [set |-> AnySettings, version |-> 0, next |-> 0, last |-> Null,
              owner |-> NoOwner, until |-> Null]
    /\ execs = [s \in Times |-> "absent"]

Exists == job.version > 0

----------------------------------------------------------------------------
(* claim_due *)

\* Slips: a lease that has expired is taken for a live one; the lease is not
\* looked at.
Due_NoExpiry(now) ==
    Exists /\ job.set.active /\ job.next <= now /\ job.until = Null

Due_AnyLease(now) == Exists /\ job.set.active /\ job.next <= now

Due(now) ==
    /\ Exists
    /\ job.set.active
    /\ job.next <= now
    /\ job.until = Null \/ job.until < now

\* Slips: the execution of the slot is not looked for; the slots between the
\* claimed one and the current time are skipped.
LeaseSlot_Again(now, owner, until) ==
    /\ Due(now)
    /\ \E next \in Instants :
          /\ IsNextSlot(job.set.cron, job.next, next)
          /\ job' = [job EXCEPT !.next = next, !.last = job.next,
                                !.owner = owner, !.until = until]
    /\ execs' = [execs EXCEPT ![job.next] = "running"]

LeaseSlot_SkipsMissed(now, owner, until) ==
    /\ Due(now)
    /\ execs[job.next] = "absent"
    /\ \E next \in Instants :
          /\ IsNextSlot(job.set.cron, now, next)
          /\ job' = [job EXCEPT !.next = next, !.last = job.next,
                                !.owner = owner, !.until = until]
    /\ execs' = [execs EXCEPT ![job.next] = "running"]

\* The slot has no execution: insert a running one and lease the job.
LeaseSlot(now, owner, until) ==
    /\ Due(now)
    /\ execs[job.next] = "absent"
    /\ \E next \in Instants :
          /\ IsNextSlot(job.set.cron, job.next, next)
          /\ job' = [job EXCEPT !.next = next, !.last = job.next,
                                !.owner = owner, !.until = until]
    /\ execs' = [execs EXCEPT ![job.next] = "running"]

\* Slips: the error goes into the status column; a status other than running is
\* overwritten as well.
AbandonSlot_Writes(now, status, overwritten) ==
    /\ Due(now)
    /\ execs[job.next] # "absent"
    /\ \E next \in Instants :
          /\ IsNextSlot(job.set.cron, job.next, next)
          /\ job' = [job EXCEPT !.next = next, !.last = job.next,
                                !.owner = NoOwner, !.until = Null]
    /\ execs' = IF execs[job.next] \in overwritten
                THEN [execs EXCEPT ![job.next] = status] ELSE execs

AbandonSlot_WrongColumn(now) == AbandonSlot_Writes(now, "lease_expired", {"running"})
AbandonSlot_Overwrites(now) == AbandonSlot_Writes(now, "abandoned", Statuses)

\* The slot already has one: move past it, and if it is still running (its
\* lease has expired) record it as abandoned.
AbandonSlot(now) ==
    /\ Due(now)
    /\ execs[job.next] # "absent"
    /\ \E next \in Instants :
          /\ IsNextSlot(job.set.cron, job.next, next)
          /\ job' = [job EXCEPT !.next = next, !.last = job.next,
                                !.owner = NoOwner, !.until = Null]
    /\ execs' = IF execs[job.next] = "running"
                THEN [execs EXCEPT ![job.next] = "abandoned"] ELSE execs

NothingDue(now) == ~Due(now) /\ UNCHANGED storeVars

\* The next slot cannot be computed: the exception rolls the claim back.
ClaimRaises(now) ==
    /\ Due(now)
    /\ ~HasNextSlot(job.set.cron, job.next)
    /\ UNCHANGED storeVars

----------------------------------------------------------------------------
(* complete_execution and renew_lease *)

\* Slips: the owner is not compared; the lease is kept.
CanComplete_AnyOwner(slot, owner) == execs[slot] = "running"

CompleteExecution_KeepsLease(slot, owner, status) ==
    /\ job.owner = owner /\ execs[slot] = "running"
    /\ execs' = [execs EXCEPT ![slot] = status]
    /\ UNCHANGED job

CanComplete(slot, owner) == job.owner = owner /\ execs[slot] = "running"

CompleteExecution(slot, owner, status) ==
    /\ CanComplete(slot, owner)
    /\ execs' = [execs EXCEPT ![slot] = status]
    /\ job' = [job EXCEPT !.owner = NoOwner, !.until = Null]

CompletionRefused(slot, owner) ==
    ~CanComplete(slot, owner) /\ UNCHANGED storeVars

RenewalAllowed(slot) == execs[slot] = "running"

\* Slips: the lease of any owner is extended; it is taken over as well.
ExtendLease_AnyOwner(owner, until) ==
    /\ job.owner # NoOwner
    /\ job' = [job EXCEPT !.until = until]
    /\ UNCHANGED execs

ExtendLease_TakesOver(owner, until) ==
    /\ job' = [job EXCEPT !.owner = owner, !.until = until]
    /\ UNCHANGED execs

ExtendLease(owner, until) ==
    /\ job.owner = owner
    /\ job' = [job EXCEPT !.until = until]
    /\ UNCHANGED execs

----------------------------------------------------------------------------
(* save: INSERT ... ON CONFLICT DO NOTHING without an expected version,    *)
(* UPDATE ... WHERE version = expected with one.  The lease and last_run_at*)
(* columns are not among the values it writes.                             *)

VersionMatches(expected) == job.version = expected

\* Slip: UPDATE without the version predicate.
SaveJob_Unchecked(set, next, expected) ==
    /\ job' = [job EXCEPT !.set = set, !.version = expected + 1, !.next = next]
    /\ UNCHANGED execs

SaveJob(set, next, expected) ==
    /\ VersionMatches(expected)
    /\ job' = [job EXCEPT !.set = set, !.version = expected + 1, !.next = next]
    /\ UNCHANGED execs
=============================================================================
