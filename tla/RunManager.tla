------------------------------ MODULE RunManager ------------------------------
(***************************************************************************)
(* DashboardRunManager (app/web/app.py): the recommendation runs of the    *)
(* dashboard process.  A run has one task (_execute), one heartbeat task,  *)
(* and one event queue that every event stream of the run takes from.      *)
(* The queue is unbounded, so putting an event never suspends a task and   *)
(* each operator below is one step between two suspensions.                *)
(***************************************************************************)
EXTENDS Naturals, Sequences, FiniteSets

CONSTANTS
    Runs,      \* run ids
    LastNode,  \* workflow nodes are 1 .. LastNode, in graph order; 1 is evaluate
    SkipTo,    \* the node evaluate branches to without accepted articles
    MaxBeats   \* bound on the heartbeats of a run

ASSUME RunAssumption ==
    /\ LastNode \in Nat \ {0} /\ SkipTo \in 1 .. LastNode
    /\ MaxBeats \in Nat

VARIABLES
    phase,  \* per run: where its task is, or how it ended
    log,    \* per run: every event ever put into its queue
    taken   \* per run: how many of them a stream has taken

runVars == <<phase, log, taken>>

Executing == {"collecting", "directory", "workflow", "pricing", "reporting"}
TerminalTypes == {"completed", "failed"}
Phases == {"absent", "started", "lost"} \cup Executing \cup TerminalTypes

EventTypes == {"collecting", "collected", "directory", "workflow_started", "workflow",
               "heartbeat"} \cup TerminalTypes
Events == [type : EventTypes \ {"workflow"}, node : {0}]
              \cup [type : {"workflow"}, node : 1 .. LastNode]
Event(type) == [type |-> type, node |-> 0]

RunsTypeOK ==
    /\ phase \in [Runs -> Phases]
    /\ log \in [Runs -> Seq(Events)]
    /\ taken \in [Runs -> Nat]

RunsInit ==
    /\ phase = [r \in Runs |-> "absent"]
    /\ log = [r \in Runs |-> <<>>]
    /\ taken = [r \in Runs |-> 0]

\* How the run ended, as its events tell it.
EndedAs(r, type) == \E i \in DOMAIN log[r] : log[r][i].type = type
Ended(r) == \E type \in TerminalTypes : EndedAs(r, type)

\* The nodes whose completion the workflow reported.
RanNodes(r) == {log[r][i].node : i \in DOMAIN log[r]} \ {0}

Queued(r) == taken[r] < Len(log[r])

\* One step of the task of r: it leaves phase p for q and emits events.
Advance(r, p, q, events) ==
    /\ phase[r] = p
    /\ phase' = [phase EXCEPT ![r] = q]
    /\ log' = [log EXCEPT ![r] = @ \o events]
    /\ taken' = taken

----------------------------------------------------------------------------
(* The task of a run *)

\* POST /api/runs: the run is registered and its task created.
CreateRun(r) == Advance(r, "absent", "started", <<>>)

BeginRun(r) == Advance(r, "started", "collecting", <<Event("collecting")>>)

\* The posts are collected and filtered and the filter snapshot is stored; both
\* events are emitted before the task suspends again.
CollectPosts(r) ==
    Advance(r, "collecting", "directory", <<Event("collected"), Event("directory")>>)

StartWorkflow(r) == Advance(r, "directory", "workflow", <<Event("workflow_started")>>)

\* on_progress: the graph finished a node.  Nodes run in order; evaluate may
\* branch past the nodes before SkipTo.
FinishNode(r, n) ==
    /\ \A m \in RanNodes(r) : m < n
    /\ n = 1 \/ n - 1 \in RanNodes(r) \/ (n = SkipTo /\ RanNodes(r) = {1})
    /\ Advance(r, "workflow", "workflow", <<[type |-> "workflow", node |-> n]>>)

\* run_with_progress returned and the result is stored in the run.
BuildResult(r) == LastNode \in RanNodes(r) /\ Advance(r, "workflow", "pricing", <<>>)

\* The entry prices are recorded; an error of the recorder is only logged.
RecordPrices(r) == Advance(r, "pricing", "reporting", <<>>)

\* The Telegram report is delivered or its error logged; then the run is marked
\* completed and the terminal event emitted in the same step.
CompleteRun(r) == Advance(r, "reporting", "completed", <<Event("completed")>>)

\* An exception of the collection, the directory, the workflow or its audit.
FailRun(r) ==
    \E p \in {"collecting", "directory", "workflow"} :
        Advance(r, p, "failed", <<Event("failed")>>)

\* Slip: the heartbeat task does not look at completed.
Heartbeat_AfterEnd(r) ==
    /\ phase[r] \in Executing \cup TerminalTypes
    /\ Cardinality({i \in DOMAIN log[r] : log[r][i].type = "heartbeat"}) < MaxBeats
    /\ Advance(r, phase[r], phase[r], <<Event("heartbeat")>>)

\* The heartbeat task wakes up; it returns once the run is completed.
Heartbeat(r) ==
    /\ phase[r] \in Executing
    /\ Cardinality({i \in DOMAIN log[r] : log[r][i].type = "heartbeat"}) < MaxBeats
    /\ Advance(r, phase[r], phase[r], <<Event("heartbeat")>>)

RunStep(r) ==
    \/ BeginRun(r) \/ CollectPosts(r) \/ StartWorkflow(r)
    \/ \E n \in 1 .. LastNode : FinishNode(r, n)
    \/ BuildResult(r) \/ RecordPrices(r) \/ CompleteRun(r) \/ FailRun(r)

----------------------------------------------------------------------------
(* What the endpoints read and take *)

\* Slip: the result is answered as soon as it is there.
ResultStatus_Early(r) ==
    CASE phase[r] \in {"absent", "lost"} -> "404"
      [] phase[r] \in {"pricing", "reporting", "completed"} -> "200"
      [] phase[r] = "failed" -> "500"
      [] OTHER -> "409"

\* GET /api/runs/{run_id}
ResultStatus(r) ==
    CASE phase[r] \in {"absent", "lost"} -> "404"
      [] phase[r] = "completed" -> "200"
      [] phase[r] = "failed" -> "500"
      [] OTHER -> "409"

\* events: a stream takes the oldest event of the queue.
NextEvent(r) == log[r][taken[r] + 1]
TakeEvent(r) ==
    /\ Queued(r)
    /\ taken' = [taken EXCEPT ![r] = @ + 1]
    /\ UNCHANGED <<phase, log>>

\* The process restarts: the runs it kept in memory are gone.
LoseRuns ==
    /\ phase' = [r \in Runs |-> IF phase[r] = "absent" THEN "absent" ELSE "lost"]
    /\ UNCHANGED <<log, taken>>
=============================================================================
