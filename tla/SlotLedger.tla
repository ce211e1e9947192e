------------------------------ MODULE SlotLedger ------------------------------
(***************************************************************************)
(* What the periodic recommendations promise about one schedule, whoever   *)
(* the workers are: the pipeline is started at most once for a slot, a     *)
(* recorded outcome is final, and a Telegram summary is sent at most once, *)
(* after a completed outcome was recorded (README.md, the schedule-worker  *)
(* bullet; docs/WORKFLOW.md, the periodic execution section).              *)
(***************************************************************************)
EXTENDS Naturals

CONSTANT Slots

VARIABLES
    outcome,  \* per slot: absent, running, completed, failed or abandoned
    started,  \* per slot: how often its pipeline was started
    sent      \* per slot: how many summaries were sent

ledgerVars == <<outcome, started, sent>>

LedgerInit ==
    /\ outcome = [s \in Slots |-> "absent"]
    /\ started = [s \in Slots |-> 0]
    /\ sent = [s \in Slots |-> 0]

Start(s) ==
    /\ outcome[s] = "absent" /\ started[s] = 0
    /\ outcome' = [outcome EXCEPT ![s] = "running"]
    /\ started' = [started EXCEPT ![s] = 1]
    /\ UNCHANGED sent

Finish(s) ==
    /\ outcome[s] = "running"
    /\ \E result \in {"completed", "failed", "abandoned"} :
          outcome' = [outcome EXCEPT ![s] = result]
    /\ UNCHANGED <<started, sent>>

Report(s) ==
    /\ outcome[s] = "completed" /\ sent[s] = 0
    /\ sent' = [sent EXCEPT ![s] = 1]
    /\ UNCHANGED <<outcome, started>>

LedgerNext == \E s \in Slots : Start(s) \/ Finish(s) \/ Report(s)

LedgerSpec == LedgerInit /\ [][LedgerNext]_ledgerVars
=============================================================================
