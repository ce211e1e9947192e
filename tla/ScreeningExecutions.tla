------------------------- MODULE ScreeningExecutions --------------------------
(***************************************************************************)
(* Executions of the screening around its workflow: the collection of the  *)
(* input and the filter snapshot of a dashboard or schedule run            *)
(* (app/web/app.py), the documents a command-line execution stores         *)
(* (app/persistence), the audit each execution leaves in the database, in  *)
(* the audit log and as alerts (app/harness), and the rotation of that log *)
(* (retention.py).  The executions share one database and one log.         *)
(***************************************************************************)
EXTENDS Collection

CONSTANTS
    Executions,
    CommandLine,     \* the executions of the command line; the others are dashboard runs
    Asked,           \* per execution, the sources in the order it asks for them
    Answers(_),      \* what the sources may answer to an execution
    Limit,           \* posts of an execution
    Filter,          \* themes and topics of the dashboard runs
    WorkflowErrors,  \* errors a workflow may raise
    Slow,            \* the executions that last longer than the alert policy allows
    MaxRotations,    \* bound: rotations of the log
    MaxFaults,       \* bound: what fails beside sources and workflows
    Faulty           \* bound: the executions it happens to

ASSUME ExecutionsAssumption ==
    /\ CommandLine \subseteq Executions /\ {Slow, Faulty} \subseteq SUBSET Executions
    /\ Limit \in Nat \ {0}
    /\ Asked \in [Executions -> Seq(Sources) \ {<<>>}]
    /\ {MaxRotations, MaxFaults} \subseteq Nat
    \* what a workflow raises is told apart from what the set-up, the harness and the audit raise
    /\ WorkflowErrors \cap {"returned", "result", "killed", "AllProvidersFailedError",
           "ConfigurationError", "OperationalError", "ValidationError", "OSError"} = {}
    /\ \A e \in Executions : \A answers \in Answers(e) : Listed(answers)
    /\ None \notin Nat
    /\ None \notin WorkflowErrors \cup {"result", "returned", "IntegrityError", "DBAPIError", "OperationalError"}

VARIABLES
    act,        \* per execution: position, locals and outcome
    snapshots,  \* filter snapshots of the dashboard runs, None without one
    documents,  \* committed rows of source_documents
    audits,     \* rows of workflow_execution_audits, None without one
    files,      \* the log files ever created, as sequences of lines
    active,     \* the file at the path of the audit log, None if there is none
    archives,   \* the files at archive paths, by the second of their name
    rotation,   \* the operator's rotation of the log
    alerts,     \* alerts delivered
    faults

database == <<snapshots, documents, audits>>
log == <<files, active, archives>>
vars == <<act, database, log, rotation, alerts, faults>>

NotStarted == [pc |-> "collect", articles |-> <<>>, filter |-> None, next |-> 1, mine |-> {},
               end |-> None, file |-> None, logged |-> FALSE, outcome |-> None]

Init ==
    /\ act = [e \in Executions |-> NotStarted]
    /\ snapshots = [e \in Executions |-> None] /\ documents = {} /\ audits = [e \in Executions |-> None]
    /\ files = <<>> /\ active = None /\ archives = [t \in {} |-> 0]
    /\ rotation = [pc |-> "idle", name |-> 0, done |-> 0]
    /\ alerts = {} /\ faults = 0

At(e, pc) == act[e].pc = pc
Move(e, local) == act' = [act EXCEPT ![e] = local]
Answer(e, outcome) == Move(e, [act[e] EXCEPT !.pc = "over", !.outcome = outcome])
Fault(e) == e \in Faulty /\ faults < MaxFaults /\ faults' = faults + 1

----------------------------------------------------------------------------
(* Collection and set-up.                                                  *)

\* Both callers let AllProvidersFailedError through; there is no audit of it.
Collect(e) ==
    /\ At(e, "collect")
    /\ \E answers \in Answers(e) :
          LET limit == IF e \in CommandLine THEN Limit ELSE PerSource(Limit, Asked[e])
              posts == CollectPosts(Asked[e], answers, limit)
          IN  IF posts = None THEN Answer(e, "AllProvidersFailedError")
              ELSE IF e \in CommandLine
              THEN Move(e, [act[e] EXCEPT !.pc = "lookup", !.articles = ToArticles(posts)])
              ELSE LET articles == ToArticles(FirstOf(posts, Limit))
                   IN  Move(e, [act[e] EXCEPT !.pc = "snapshot", !.articles = Filtered(articles, Filter),
                                              !.filter = Snapshot(articles, Filter)])
    /\ UNCHANGED <<database, log, rotation, alerts, faults>>

StoreSnapshot(e) ==
    /\ At(e, "snapshot")
    /\ snapshots' = [snapshots EXCEPT ![e] = act[e].filter]
    /\ Move(e, [act[e] EXCEPT !.pc = "work"])
    /\ UNCHANGED <<documents, audits, log, rotation, alerts, faults>>

\* Before the harness, where nothing is audited: the snapshot cannot be stored, or the
\* workflow not assembled because a key or the stock directory is missing.
SetUpFails(e) ==
    /\ \/ At(e, "snapshot") /\ Answer(e, "OperationalError")
       \/ e \notin CommandLine /\ At(e, "work") /\ Answer(e, "ConfigurationError")
       \/ At(e, "lookup") /\ act[e].next = 1 /\ Answer(e, "ConfigurationError")
    /\ Fault(e)
    /\ UNCHANGED <<database, log, rotation, alerts>>

----------------------------------------------------------------------------
(* The documents of an execution: one transaction, with a query and an     *)
(* insert per article.                                                     *)

RowOf(e, n) ==
    LET article == act[e].articles[n]
    IN  [source |-> article.source, id |-> article.id, url |-> article.url, text |-> article.text,
         by |-> e, place |-> n]
Row(e) == RowOf(e, act[e].next)

\* The unique constraints of source_documents; the text has none.
Clash(d, row) == (d.source = row.source /\ d.id = row.id) \/ d.url = row.url

\* DocumentIdentity: any of the three stands for the document.
SameDocument(d, row) == Clash(d, row) \/ d.text = row.text

\* The harness catches what persisting the documents or the workflow raises, and audits it.
\* Leaving the transaction with an exception rolls it back.
Raised(e, error) ==
    Move(e, [act[e] EXCEPT !.pc = "audit", !.mine = {}, !.end = error])

LookupDocument(e) ==
    /\ At(e, "lookup") /\ act[e].next <= Len(act[e].articles)
    /\ Move(e, IF \E d \in documents \cup act[e].mine : SameDocument(d, Row(e))
               THEN [act[e] EXCEPT !.next = @ + 1]
               ELSE [act[e] EXCEPT !.pc = "insert"])
    /\ UNCHANGED <<database, log, rotation, alerts, faults>>

\* An insert waits for the transaction whose row it would repeat.
WaitsFor(e, f) == e # f /\ At(e, "insert") /\ \E d \in act[f].mine : Clash(d, Row(e))

\* Mutant: every document is committed on its own.
InsertDocument_Commits(e) ==
    /\ At(e, "insert")
    /\ documents' = documents \cup {Row(e)}
    /\ Move(e, [act[e] EXCEPT !.pc = "lookup", !.next = @ + 1])
    /\ UNCHANGED <<snapshots, audits, log, rotation, alerts, faults>>

InsertDocument(e) ==
    /\ At(e, "insert")
    /\ ~\E f \in Executions : WaitsFor(e, f)
    /\ IF \E d \in documents : Clash(d, Row(e)) THEN Raised(e, "IntegrityError")
       ELSE Move(e, [act[e] EXCEPT !.pc = "lookup", !.next = @ + 1, !.mine = @ \cup {Row(e)}])
    /\ UNCHANGED <<database, log, rotation, alerts, faults>>

\* The database ends one of the transactions that wait for each other.
BreakDeadlock(e) ==
    /\ \E circle \in SUBSET Executions :
          e \in circle /\ \A f \in circle : \E g \in circle : WaitsFor(f, g)
    /\ Raised(e, "DBAPIError")
    /\ UNCHANGED <<database, log, rotation, alerts, faults>>

CommitDocuments(e) ==
    /\ At(e, "lookup") /\ act[e].next > Len(act[e].articles)
    /\ documents' = documents \cup act[e].mine
    /\ Move(e, [act[e] EXCEPT !.pc = "work", !.mine = {}])
    /\ UNCHANGED <<snapshots, audits, log, rotation, alerts, faults>>

DatabaseFails(e) ==
    /\ At(e, "lookup") \/ At(e, "insert")
    /\ Raised(e, "OperationalError")
    /\ Fault(e)
    /\ UNCHANGED <<database, log, rotation, alerts>>

----------------------------------------------------------------------------
(* The workflow, the audit of its end, and the alerts.                     *)

\* What happens in the workflow is the matter of ScreeningRun.
Work(e) ==
    /\ At(e, "work")
    /\ \E end \in WorkflowErrors \cup {"returned"} : Move(e, [act[e] EXCEPT !.pc = "audit", !.end = end])
    /\ UNCHANGED <<database, log, rotation, alerts, faults>>

\* WorkflowExecutionAudit of an execution.
Audit(e) ==
    [execution |-> e, articles |-> Len(act[e].articles), slow |-> e \in Slow,
     status |-> IF act[e].end = "returned" THEN "succeeded" ELSE "failed",
     error |-> IF act[e].end = "returned" THEN None ELSE act[e].end]

\* What the caller gets once the audit is made: the result, or what was raised.
Outcome(e) == IF act[e].end = "returned" THEN "result" ELSE act[e].end

\* Mutant: the audit log comes before the database.
StoreAudit_LogFirst(e) ==
    /\ \/ At(e, "audit") /\ Move(e, [act[e] EXCEPT !.pc = "open"]) /\ UNCHANGED audits
       \/ /\ At(e, "over") /\ act[e].logged /\ audits[e] = None
          /\ audits' = [audits EXCEPT ![e] = Audit(e)] /\ UNCHANGED act
    /\ UNCHANGED <<snapshots, documents, log, rotation, alerts, faults>>

\* _append, first half.
StoreAudit(e) ==
    /\ At(e, "audit")
    /\ audits' = [audits EXCEPT ![e] = Audit(e)]
    /\ Move(e, [act[e] EXCEPT !.pc = "open"])
    /\ UNCHANGED <<snapshots, documents, log, rotation, alerts, faults>>

\* The audit cannot be stored, or not even made: WorkflowExecutionAudit refuses an end
\* before the start, which a clock that was set back produces.  Either error takes the
\* place of the result or of what was raised, and nothing is recorded.
AuditFails(e) ==
    /\ At(e, "audit")
    /\ \E error \in {"OperationalError", "ValidationError"} : Answer(e, error)
    /\ Fault(e)
    /\ UNCHANGED <<database, log, rotation, alerts>>

\* Mutant: the log is not created where there is none.
OpenLog_NotCreated(e) ==
    /\ At(e, "open")
    /\ Move(e, [act[e] EXCEPT !.pc = "write", !.file = active])
    /\ UNCHANGED <<database, log, rotation, alerts, faults>>

\* JsonLinesWorkflowExecutionAuditSink.append: the file is opened at its path, and may
\* have been renamed when it is written.
OpenLog(e) ==
    /\ At(e, "open")
    /\ IF active # None THEN UNCHANGED <<files, active>>
       ELSE files' = Append(files, <<>>) /\ active' = Len(files) + 1
    /\ Move(e, [act[e] EXCEPT !.pc = "write", !.file = active'])
    /\ UNCHANGED <<database, archives, rotation, alerts, faults>>

WriteLog(e) ==
    /\ At(e, "write")
    /\ files' = [files EXCEPT ![act[e].file] = Append(@, Audit(e))]
    /\ Move(e, IF e \in CommandLine THEN [act[e] EXCEPT !.pc = "alert", !.logged = TRUE]
               ELSE [act[e] EXCEPT !.pc = "over", !.logged = TRUE, !.outcome = Outcome(e)])
    /\ UNCHANGED <<database, active, archives, rotation, alerts, faults>>

\* A failed append fails the execution, although the database has its audit.
LogFails(e) ==
    /\ At(e, "open") \/ At(e, "write")
    /\ Answer(e, "OSError")
    /\ Fault(e)
    /\ UNCHANGED <<database, log, rotation, alerts>>

\* OperationalAlertPolicy.evaluate.
AlertsOf(audit) ==
    {[execution |-> audit.execution, type |-> type] :
        type \in (IF audit.error = None THEN {} ELSE {"execution_failed"})
                 \cup (IF audit.slow THEN {"duration_exceeded"} ELSE {})}

\* Alerts follow the append; one that cannot be delivered is passed over.
DeliverAlerts(e) ==
    /\ At(e, "alert")
    /\ \E delivered \in SUBSET AlertsOf(Audit(e)) : alerts' = alerts \cup delivered
    /\ Answer(e, Outcome(e))
    /\ UNCHANGED <<database, log, rotation, faults>>

\* The process of an execution is killed; the database ends its transaction.
Killed(e) ==
    /\ act[e].pc # "over"
    /\ Move(e, [act[e] EXCEPT !.pc = "over", !.mine = {}, !.outcome = "killed"])
    /\ Fault(e)
    /\ UNCHANGED <<database, log, rotation, alerts>>

----------------------------------------------------------------------------
(* The rotation of the log: JsonLinesLogMaintenance.                       *)

\* Mutant: an archive of the same second is written over.
ArchiveTaken_Ignored(name) == FALSE

ArchiveTaken(name) == name \in DOMAIN archives

Touched == files' = Append(files, <<>>) /\ active' = Len(files) + 1

\* Without a log one is created; an empty one stays, as does one whose archive would
\* have a name that is taken; any other will be renamed.  What counts of the clock is
\* whether it shows the second of an earlier rotation: one more second for each is enough.
RotationBegins ==
    /\ rotation.pc = "idle" /\ rotation.done < MaxRotations
    /\ \/ /\ active = None /\ Touched
          /\ rotation' = [rotation EXCEPT !.done = @ + 1]
       \/ /\ active # None /\ UNCHANGED <<files, active>>
          /\ \E now \in rotation.name .. rotation.done :
                rotation' = IF files[active] = <<>> \/ ArchiveTaken(now)
                            THEN [rotation EXCEPT !.done = @ + 1]
                            ELSE [rotation EXCEPT !.pc = "rename", !.name = now]
    /\ UNCHANGED <<act, database, archives, alerts, faults>>

RenameLog ==
    /\ rotation.pc = "rename"
    /\ archives' = [t \in DOMAIN archives \cup {rotation.name} |->
                       IF t = rotation.name THEN active ELSE archives[t]]
    /\ active' = None
    /\ rotation' = [rotation EXCEPT !.pc = "touch"]
    /\ UNCHANGED <<act, database, files, alerts, faults>>

\* A new log is created, unless an execution has opened one meanwhile.
RotationEnds ==
    /\ rotation.pc = "touch"
    /\ IF active = None THEN Touched ELSE UNCHANGED <<files, active>>
    /\ rotation' = [rotation EXCEPT !.pc = "idle", !.done = @ + 1]
    /\ UNCHANGED <<act, database, archives, alerts, faults>>

AllOver ==
    /\ \A e \in Executions : At(e, "over")
    /\ rotation.done = MaxRotations
    /\ UNCHANGED vars

Step(e) ==
    \/ Collect(e) \/ StoreSnapshot(e) \/ SetUpFails(e)
    \/ LookupDocument(e) \/ InsertDocument(e) \/ BreakDeadlock(e) \/ CommitDocuments(e) \/ DatabaseFails(e)
    \/ Work(e) \/ StoreAudit(e) \/ AuditFails(e) \/ OpenLog(e) \/ WriteLog(e) \/ LogFails(e)
    \/ DeliverAlerts(e) \/ Killed(e)

Next ==
    \/ \E e \in Executions : Step(e)
    \/ RotationBegins \/ RenameLog \/ RotationEnds \/ AllOver

Spec == Init /\ [][Next]_vars

----------------------------------------------------------------------------
(* Properties.                                                             *)

\* The state is typed; rows of an open transaction belong to one that may still be
\* rolled back, and a line is only written to a file that was opened.
TypeOK ==
    /\ \A e \in Executions :
          /\ act[e].next \in 1 .. Len(act[e].articles) + 1
          /\ act[e].pc = "write" => act[e].file \in DOMAIN files
          /\ act[e].mine # {} => act[e].pc \in {"lookup", "insert"}
    /\ active \in DOMAIN files \cup {None}
    /\ \A t \in DOMAIN archives : archives[t] \in DOMAIN files
    /\ rotation.pc = "rename" => active # None
    /\ faults \in 0 .. MaxFaults

\* Whatever others store at the same time, a command-line execution that works has a
\* document of each of its articles (harness_adapter.py:129); an execution leaves all its
\* documents or none, and no document is there twice.
DocumentsRecorded ==
    /\ \A e \in CommandLine : At(e, "work") =>
          \A n \in DOMAIN act[e].articles : \E d \in documents : SameDocument(d, RowOf(e, n))
    /\ \A d \in documents :
          /\ act[d.by].next > Len(act[d.by].articles)
          /\ \A other \in documents : Clash(d, other) => d = other

\* The input of an execution is on record before its workflow starts: its documents, or
\* for a dashboard run (web/app.py:548) the snapshot, which counts what its workflow gets.
InputsRecorded ==
    /\ DocumentsRecorded
    /\ \A e \in Executions \ CommandLine : At(e, "work") =>
          /\ snapshots[e].accepted = Len(act[e].articles)
          /\ snapshots[e].collected = snapshots[e].accepted + snapshots[e].theme + snapshots[e].topic

\* Whatever fails between the two records of an execution, each tells how it ended
\* (execution_audit.py:319): a line of the log repeats the row of the database, an alert
\* of a failure follows a line that says so, and a caller gets the result, or the
\* error of the workflow, only with both.
AuditIsTrue ==
    /\ \A e \in Executions :
          /\ audits[e] # None => audits[e] = Audit(e) /\ act[e].end # None
          /\ act[e].logged => audits[e] = Audit(e)
          /\ act[e].outcome \in WorkflowErrors \cup {"result", "IntegrityError", "DBAPIError"} =>
                act[e].logged /\ (audits[e].error = None <=> act[e].outcome = "result")
    /\ \A alert \in alerts :
          act[alert.execution].logged /\ alert \in AlertsOf(audits[alert.execution])

\* The logs an operator can find: at the path and in the archives.
Logs == ({active} \ {None}) \cup {archives[t] : t \in DOMAIN archives}

\* The lines of all of them, by the log and the place in it.
Lines == [p \in UNION {{f} \X DOMAIN files[f] : f \in Logs} |-> files[p[1]][p[2]]]

\* calculate_workflow_execution_metrics, of the lines in whatever order they are read; a
\* sum of articles is the number of articles, each told by its line and a number.
Metrics(lines) ==
    LET succeeded == {p \in DOMAIN lines : lines[p].status = "succeeded"} IN
    [total |-> Cardinality(DOMAIN lines), succeeded |-> Cardinality(succeeded),
     failed |-> Cardinality(DOMAIN lines) - Cardinality(succeeded),
     articles |-> Cardinality(UNION {{p} \X (1 .. lines[p].articles) : p \in DOMAIN lines})]

\* Each log is found at one path, and the line of an execution in one place of one log,
\* as the database has it.
LinesFound ==
    /\ \A t \in DOMAIN archives :
          archives[t] # active /\ \A u \in DOMAIN archives : archives[u] = archives[t] => u = t
    /\ \A e \in Executions :
          LET lines == UNION {{f} \X {n \in DOMAIN files[f] : files[f][n].execution = e} : f \in Logs}
          IN  IF act[e].logged THEN \E p \in lines : lines = {p} /\ files[p[1]][p[2]] = audits[e]
              ELSE lines = {}

\* However appends and rotations interleave (retention.py:62), every line that was written
\* is in exactly one log that can be found, so the metrics of all logs count every
\* execution that was logged, once and for what the database says of it.
RecordsKept ==
    LET logged == {e \in Executions : act[e].logged}
        succeeded == {e \in logged : audits[e].status = "succeeded"}
        metrics == Metrics(Lines)
    IN  /\ LinesFound
        /\ metrics.total = Cardinality(logged) /\ metrics.succeeded = Cardinality(succeeded)
        /\ metrics.articles = Cardinality(UNION {{e} \X DOMAIN act[e].articles : e \in logged})
=============================================================================
