----------------------- MODULE ScreeningExecutions_proofs -----------------------
(***************************************************************************)
(* Proofs about ScreeningExecutions, for every set of executions, whatever *)
(* they collect and whatever fails.                                        *)
(***************************************************************************)
EXTENDS ScreeningExecutions, Lists_proofs

Recorded(e) == audits[e] = Audit(e) /\ act[e].end # None

\* Where an execution stands in the writing of its records.
Account(e) ==
    /\ DOMAIN act[e] = DOMAIN NotStarted
    /\ act[e].pc \in {"collect", "snapshot", "lookup", "insert", "work", "audit"} =>
          audits[e] = None /\ ~act[e].logged
    /\ act[e].pc \in {"audit", "open", "write", "alert"} =>
          act[e].end \in WorkflowErrors \cup {"returned", "IntegrityError", "DBAPIError", "OperationalError"}
    /\ act[e].pc \in {"open", "write", "alert"} => Recorded(e)
    /\ audits[e] # None => Recorded(e)
    /\ act[e].logged => Recorded(e)
    /\ act[e].pc = "alert" => act[e].logged
    /\ act[e].pc # "over" => act[e].outcome = None
    /\ act[e].outcome \in WorkflowErrors \cup {"result", "IntegrityError", "DBAPIError"} =>
          act[e].logged /\ (audits[e].error = None <=> act[e].outcome = "result")

Alerted(alert) ==
    \E e \in Executions : act[e].logged /\ alert \in AlertsOf(Audit(e)) /\ alert.execution = e

IInv ==
    /\ DOMAIN act = Executions /\ DOMAIN audits = Executions
    /\ \A e \in Executions : Account(e)
    /\ \A alert \in alerts : Alerted(alert)

\* The records that are made stay, and so does what they were made from.
RecordsStay(e) ==
    act[e].logged => act'[e].logged /\ Audit(e)' = Audit(e) /\ audits'[e] = audits[e]

----------------------------------------------------------------------------

LEMMA ErrorsApart ==
    /\ None \notin WorkflowErrors \cup {"result", "returned", "IntegrityError", "DBAPIError", "OperationalError"}
    /\ \A error \in {"returned", "result", "killed", "AllProvidersFailedError", "ConfigurationError",
                     "OperationalError", "ValidationError", "OSError"} : error \notin WorkflowErrors
BY ExecutionsAssumption

\* An execution that has an answer keeps its records as they are.
LEMMA AnswerKeeps ==
    ASSUME IInv, NEW e \in Executions, act[e].pc # "over", NEW outcome, Answer(e, outcome), UNCHANGED audits,
           outcome \in WorkflowErrors \cup {"result", "IntegrityError", "DBAPIError"} =>
               act[e].logged /\ (audits[e].error = None <=> outcome = "result")
    PROVE  Account(e)' /\ RecordsStay(e)
<1>1. Account(e) /\ DOMAIN act = Executions
  BY DEF IInv
<1>2. act'[e] = [act[e] EXCEPT !.pc = "over", !.outcome = outcome]
  BY <1>1 DEF Answer, Move
<1>3. /\ DOMAIN act'[e] = DOMAIN NotStarted /\ act'[e].pc = "over" /\ act'[e].outcome = outcome
      /\ act'[e].end = act[e].end /\ act'[e].logged = act[e].logged /\ act'[e].articles = act[e].articles
  BY <1>1, <1>2 DEF Account, NotStarted
<1>4. Audit(e)' = Audit(e)
  BY <1>3 DEF Audit
<1> QED
  BY <1>1, <1>3, <1>4 DEF Account, Recorded, RecordsStay

Early == {"collect", "snapshot", "lookup", "insert", "work"}
Ends == WorkflowErrors \cup {"returned", "IntegrityError", "DBAPIError", "OperationalError"}

\* Before its audit an execution has no records, whatever it does.
LEMMA EarlyKeeps ==
    ASSUME IInv, NEW e \in Executions, act[e].pc \in Early, NEW l, Move(e, l), UNCHANGED audits,
           DOMAIN l = DOMAIN NotStarted, l.pc \in Early \cup {"audit"}, l.pc = "audit" => l.end \in Ends,
           l.logged = act[e].logged, l.outcome = act[e].outcome
    PROVE  Account(e)' /\ RecordsStay(e)
<1>1. Account(e) /\ DOMAIN act = Executions
  BY DEF IInv
<1>2. act'[e] = l
  BY <1>1 DEF Move
<1>3. act[e].outcome = None /\ audits[e] = None /\ ~act[e].logged
  BY <1>1 DEF Account, Early
<1> QED
  BY <1>1, <1>2, <1>3, ErrorsApart DEF Account, Early, Ends, RecordsStay

\* The steps up to the audit.
LEMMA SetUpKeeps ==
    ASSUME IInv, NEW e \in Executions,
           \/ Collect(e) \/ StoreSnapshot(e) \/ LookupDocument(e) \/ InsertDocument(e) \/ BreakDeadlock(e)
           \/ CommitDocuments(e) \/ DatabaseFails(e) \/ Work(e)
    PROVE  Account(e)' /\ RecordsStay(e)
<1>1. Account(e) /\ UNCHANGED audits
  BY DEF IInv, Collect, StoreSnapshot, LookupDocument, InsertDocument, BreakDeadlock, CommitDocuments,
     DatabaseFails, Work, database
<1>2. act[e].pc \in Early
  BY DEF Collect, StoreSnapshot, LookupDocument, InsertDocument, BreakDeadlock, WaitsFor,
     CommitDocuments, DatabaseFails, Work, At, Early
<1>3. CASE Collect(e)
  <2>1. CASE Answer(e, "AllProvidersFailedError")
    BY <1>1, <1>2, <2>1, AnswerKeeps, ErrorsApart DEF Early
  <2>2. ASSUME NEW articles, Move(e, [act[e] EXCEPT !.pc = "lookup", !.articles = articles])
        PROVE  Account(e)' /\ RecordsStay(e)
    <3> DEFINE l == [act[e] EXCEPT !.pc = "lookup", !.articles = articles]
    <3>1. /\ DOMAIN l = DOMAIN NotStarted /\ l.pc = "lookup" /\ l.logged = act[e].logged
          /\ l.outcome = act[e].outcome
      BY <1>1 DEF Account, NotStarted
    <3> HIDE DEF l
    <3>2. Move(e, l)
      BY <2>2 DEF l
    <3> QED
      BY <1>1, <1>2, <3>1, <3>2, EarlyKeeps DEF Early
  <2>3. ASSUME NEW articles, NEW filter,
               Move(e, [act[e] EXCEPT !.pc = "snapshot", !.articles = articles, !.filter = filter])
        PROVE  Account(e)' /\ RecordsStay(e)
    <3> DEFINE l == [act[e] EXCEPT !.pc = "snapshot", !.articles = articles, !.filter = filter]
    <3>1. /\ DOMAIN l = DOMAIN NotStarted /\ l.pc = "snapshot" /\ l.logged = act[e].logged
          /\ l.outcome = act[e].outcome
      BY <1>1 DEF Account, NotStarted
    <3> HIDE DEF l
    <3>2. Move(e, l)
      BY <2>3 DEF l
    <3> QED
      BY <1>1, <1>2, <3>1, <3>2, EarlyKeeps DEF Early
  <2> QED
    BY <1>3, <2>1, <2>2, <2>3 DEF Collect
<1>4. CASE StoreSnapshot(e)
  <2> DEFINE l == [act[e] EXCEPT !.pc = "work"]
  <2>1. DOMAIN l = DOMAIN NotStarted /\ l.pc = "work" /\ l.logged = act[e].logged /\ l.outcome = act[e].outcome
    BY <1>1 DEF Account, NotStarted
  <2> QED
    BY <1>1, <1>2, <1>4, <2>1, EarlyKeeps DEF StoreSnapshot, Early
<1>5. ASSUME NEW error \in {"IntegrityError", "DBAPIError", "OperationalError"}, Raised(e, error)
      PROVE  Account(e)' /\ RecordsStay(e)
  <2> DEFINE l == [act[e] EXCEPT !.pc = "audit", !.mine = {}, !.end = error]
  <2>1. /\ DOMAIN l = DOMAIN NotStarted /\ l.pc = "audit" /\ l.end = error /\ l.logged = act[e].logged
        /\ l.outcome = act[e].outcome
    BY <1>1 DEF Account, NotStarted
  <2>2. Move(e, l)
    BY <1>5 DEF Raised
  <2> HIDE DEF l
  <2> QED
    BY <1>1, <1>2, <2>1, <2>2, EarlyKeeps DEF Ends
<1>6. CASE LookupDocument(e)
  <2> DEFINE seen == [act[e] EXCEPT !.next = @ + 1]
             new == [act[e] EXCEPT !.pc = "insert"]
  <2>1. /\ DOMAIN seen = DOMAIN NotStarted /\ seen.pc = act[e].pc /\ seen.logged = act[e].logged
        /\ seen.outcome = act[e].outcome
        /\ DOMAIN new = DOMAIN NotStarted /\ new.pc = "insert" /\ new.logged = act[e].logged
        /\ new.outcome = act[e].outcome
    BY <1>1 DEF Account, NotStarted
  <2>2. Move(e, seen) \/ Move(e, new)
    BY <1>6 DEF LookupDocument
  <2> HIDE DEF seen, new
  <2> QED
    BY <1>1, <1>2, <2>1, <2>2, EarlyKeeps DEF Early
<1>7. CASE InsertDocument(e)
  <2> DEFINE l == [act[e] EXCEPT !.pc = "lookup", !.next = @ + 1, !.mine = @ \cup {Row(e)}]
  <2>1. DOMAIN l = DOMAIN NotStarted /\ l.pc = "lookup" /\ l.logged = act[e].logged /\ l.outcome = act[e].outcome
    BY <1>1 DEF Account, NotStarted
  <2>2. Raised(e, "IntegrityError") \/ Move(e, l)
    BY <1>7 DEF InsertDocument
  <2> HIDE DEF l
  <2> QED
    BY <1>1, <1>2, <1>5, <2>1, <2>2, EarlyKeeps DEF Early
<1>8. CASE CommitDocuments(e)
  <2> DEFINE l == [act[e] EXCEPT !.pc = "work", !.mine = {}]
  <2>1. DOMAIN l = DOMAIN NotStarted /\ l.pc = "work" /\ l.logged = act[e].logged /\ l.outcome = act[e].outcome
    BY <1>1 DEF Account, NotStarted
  <2> QED
    BY <1>1, <1>2, <1>8, <2>1, EarlyKeeps DEF CommitDocuments, Early
<1>9. ASSUME NEW end \in WorkflowErrors \cup {"returned"}, Move(e, [act[e] EXCEPT !.pc = "audit", !.end = end])
      PROVE  Account(e)' /\ RecordsStay(e)
  <2> DEFINE l == [act[e] EXCEPT !.pc = "audit", !.end = end]
  <2>1. /\ DOMAIN l = DOMAIN NotStarted /\ l.pc = "audit" /\ l.end = end /\ l.logged = act[e].logged
        /\ l.outcome = act[e].outcome
    BY <1>1 DEF Account, NotStarted
  <2> HIDE DEF l
  <2>2. Move(e, l)
    BY <1>9 DEF l
  <2> QED
    BY <1>1, <1>2, <2>1, <2>2, EarlyKeeps DEF Ends
<1> QED
  BY <1>3, <1>4, <1>5, <1>6, <1>7, <1>8, <1>9 DEF BreakDeadlock, DatabaseFails, Work

\* The audit reaches the database.
LEMMA StoreAuditKeeps ==
    ASSUME IInv, NEW e \in Executions, StoreAudit(e)
    PROVE  Account(e)' /\ RecordsStay(e)
<1>1. Account(e) /\ DOMAIN act = Executions /\ DOMAIN audits = Executions /\ act[e].pc = "audit"
  BY DEF IInv, StoreAudit, At
<1>2. act'[e] = [act[e] EXCEPT !.pc = "open"] /\ audits'[e] = Audit(e)
  BY <1>1 DEF StoreAudit, Move
<1>3. /\ DOMAIN act'[e] = DOMAIN NotStarted /\ act'[e].pc = "open" /\ act'[e].outcome = None
      /\ act'[e].end = act[e].end /\ act'[e].logged = act[e].logged /\ act'[e].articles = act[e].articles
  BY <1>1, <1>2 DEF Account, NotStarted
<1>4. Audit(e)' = Audit(e)
  BY <1>3 DEF Audit
<1>5. act[e].end # None /\ ~act[e].logged
  BY <1>1, ErrorsApart DEF Account
<1> QED
  BY <1>1, <1>2, <1>3, <1>4, <1>5, ErrorsApart DEF Account, Recorded, RecordsStay

\* The line is written to the log.
LEMMA LogKeeps ==
    ASSUME IInv, NEW e \in Executions, OpenLog(e) \/ WriteLog(e)
    PROVE  Account(e)' /\ RecordsStay(e)
<1>1. Account(e) /\ DOMAIN act = Executions /\ audits' = audits /\ act[e].pc \in {"open", "write"}
  BY DEF IInv, OpenLog, WriteLog, At, database
<1>2. Recorded(e) /\ act[e].end \in Ends /\ act[e].outcome = None
  BY <1>1 DEF Account, Ends
<1>3. CASE OpenLog(e)
  <2>1. act'[e] = [act[e] EXCEPT !.pc = "write", !.file = active']
    BY <1>1, <1>3 DEF OpenLog, Move
  <2>2. /\ DOMAIN act'[e] = DOMAIN NotStarted /\ act'[e].pc = "write" /\ act'[e].outcome = None
        /\ act'[e].end = act[e].end /\ act'[e].logged = act[e].logged /\ act'[e].articles = act[e].articles
    BY <1>1, <1>2, <2>1 DEF Account, NotStarted
  <2>3. Audit(e)' = Audit(e)
    BY <2>2 DEF Audit
  <2> QED
    BY <1>1, <1>2, <2>2, <2>3, ErrorsApart DEF Account, Recorded, RecordsStay, Ends
<1>4. CASE WriteLog(e)
  <2>1. act'[e] = IF e \in CommandLine THEN [act[e] EXCEPT !.pc = "alert", !.logged = TRUE]
                  ELSE [act[e] EXCEPT !.pc = "over", !.logged = TRUE, !.outcome = Outcome(e)]
    BY <1>1, <1>4 DEF WriteLog, Move
  <2>2. /\ DOMAIN act'[e] = DOMAIN NotStarted /\ act'[e].logged = TRUE
        /\ act'[e].end = act[e].end /\ act'[e].articles = act[e].articles
        /\ \/ act'[e].pc = "alert" /\ act'[e].outcome = None
           \/ act'[e].pc = "over" /\ act'[e].outcome = Outcome(e)
    BY <1>1, <1>2, <2>1 DEF Account, NotStarted
  <2>3. Audit(e)' = Audit(e)
    BY <2>2 DEF Audit
  <2>4. Audit(e).error = None <=> Outcome(e) = "result"
    BY <1>2, ErrorsApart DEF Audit, Outcome, Ends
  <2>5. Recorded(e)'
    BY <1>1, <1>2, <2>2, <2>3 DEF Recorded
  <2> QED
    BY <1>1, <1>2, <2>2, <2>3, <2>4, <2>5, ErrorsApart DEF Account, Recorded, RecordsStay, Ends
<1> QED
  BY <1>3, <1>4

\* An execution is answered, or ends without an answer.
LEMMA EndKeeps ==
    ASSUME IInv, NEW e \in Executions,
           SetUpFails(e) \/ AuditFails(e) \/ LogFails(e) \/ DeliverAlerts(e) \/ Killed(e)
    PROVE  Account(e)' /\ RecordsStay(e)
<1>1. Account(e) /\ audits' = audits /\ act[e].pc # "over" /\ DOMAIN act = Executions
  BY DEF IInv, SetUpFails, AuditFails, LogFails, DeliverAlerts, Killed, At, database
<1>2. ASSUME NEW error \in {"OperationalError", "ConfigurationError", "ValidationError", "OSError"}, Answer(e, error)
      PROVE  Account(e)' /\ RecordsStay(e)
  <2>1. error \notin WorkflowErrors \cup {"result", "IntegrityError", "DBAPIError"}
    BY <1>2, ErrorsApart
  <2> QED
    BY <1>1, <1>2, <2>1, AnswerKeeps
<1>3. CASE DeliverAlerts(e)
  <2>1. act[e].pc = "alert" /\ Answer(e, Outcome(e))
    BY <1>3 DEF DeliverAlerts, At
  <2>2. Recorded(e) /\ act[e].logged /\ act[e].end \in Ends
    BY <1>1, <2>1 DEF Account, Ends
  <2>3. audits[e].error = None <=> Outcome(e) = "result"
    BY <2>2, ErrorsApart DEF Recorded, Audit, Outcome, Ends
  <2> QED
    BY <1>1, <2>1, <2>2, <2>3, AnswerKeeps
<1>4. CASE Killed(e)
  <2>1. act'[e] = [act[e] EXCEPT !.pc = "over", !.mine = {}, !.outcome = "killed"]
    BY <1>1, <1>4 DEF Killed, Move
  <2>2. /\ DOMAIN act'[e] = DOMAIN NotStarted /\ act'[e].pc = "over" /\ act'[e].outcome = "killed"
        /\ act'[e].end = act[e].end /\ act'[e].logged = act[e].logged /\ act'[e].articles = act[e].articles
    BY <1>1, <2>1 DEF Account, NotStarted
  <2>3. Audit(e)' = Audit(e)
    BY <2>2 DEF Audit
  <2> QED
    BY <1>1, <2>2, <2>3, ErrorsApart DEF Account, Recorded, RecordsStay
<1> QED
  BY <1>2, <1>3, <1>4 DEF SetUpFails, AuditFails, LogFails

LEMMA StepKeeps ==
    ASSUME IInv, NEW e \in Executions, Step(e)
    PROVE  Account(e)' /\ RecordsStay(e)
BY SetUpKeeps, StoreAuditKeeps, LogKeeps, EndKeeps DEF Step

\* A step of one execution leaves the others alone.
LEMMA OthersRest ==
    ASSUME IInv, NEW e \in Executions, Step(e)
    PROVE  /\ DOMAIN act' = Executions /\ DOMAIN audits' = Executions
           /\ \A f \in Executions \ {e} : act'[f] = act[f] /\ audits'[f] = audits[f]
<1>1. \E l : Move(e, l)
  BY DEF Step, Collect, StoreSnapshot, SetUpFails, LookupDocument, InsertDocument, BreakDeadlock, CommitDocuments,
     DatabaseFails, Work, StoreAudit, AuditFails, OpenLog, WriteLog, LogFails, DeliverAlerts, Killed, Answer, Raised
<1>2. audits' = audits \/ audits' = [audits EXCEPT ![e] = Audit(e)]
  BY DEF Step, Collect, StoreSnapshot, SetUpFails, LookupDocument, InsertDocument, BreakDeadlock, CommitDocuments,
     DatabaseFails, Work, StoreAudit, AuditFails, OpenLog, WriteLog, LogFails, DeliverAlerts, Killed, database
<1> QED
  BY <1>1, <1>2 DEF Move, IInv

\* The alerts of a step are those of its execution.
LEMMA AlertsAfter ==
    ASSUME IInv, NEW e \in Executions, Step(e)
    PROVE  \/ alerts' = alerts
           \/ act[e].logged /\ \E delivered \in SUBSET AlertsOf(Audit(e)) : alerts' = alerts \cup delivered
<1>1. act[e].pc = "alert" => act[e].logged
  BY DEF IInv, Account
<1> QED
  BY <1>1 DEF Step, Collect, StoreSnapshot, SetUpFails, LookupDocument, InsertDocument, BreakDeadlock,
     CommitDocuments, DatabaseFails, Work, StoreAudit, AuditFails, OpenLog, WriteLog, LogFails, DeliverAlerts,
     Killed, At

LEMMA StepInv == IInv /\ [Next]_vars => IInv'
<1> SUFFICES ASSUME IInv, [Next]_vars PROVE IInv'
  OBVIOUS
<1>1. CASE UNCHANGED <<act, audits, alerts>>
  BY <1>1 DEF IInv, Account, Recorded, Audit, Alerted, AlertsOf
<1>2. ASSUME NEW e \in Executions, Step(e)
      PROVE  IInv'
  <2>1. ASSUME NEW f \in Executions PROVE Account(f)' /\ RecordsStay(f)
    <3>1. CASE f = e
      BY <1>2, <3>1, StepKeeps
    <3>2. CASE f # e
      BY <1>2, <3>2, OthersRest DEF IInv, Account, Recorded, Audit, RecordsStay
    <3> QED
      BY <3>1, <3>2
  <2>2. ASSUME NEW alert, Alerted(alert) PROVE Alerted(alert)'
    <3>1. PICK f \in Executions : act[f].logged /\ alert \in AlertsOf(Audit(f)) /\ alert.execution = f
      BY <2>2 DEF Alerted
    <3>2. act'[f].logged /\ Audit(f)' = Audit(f)
      BY <2>1, <3>1 DEF RecordsStay
    <3>3. AlertsOf(Audit(f))' = AlertsOf(Audit(f))
      BY <3>2 DEF AlertsOf
    <3> QED
      BY <3>1, <3>2, <3>3 DEF Alerted
  <2>3. ASSUME NEW alert \in alerts' PROVE Alerted(alert)'
    <3>1. CASE alert \in alerts
      BY <2>2, <3>1 DEF IInv
    <3>2. CASE alert \notin alerts
      <4>1. act[e].logged /\ alert \in AlertsOf(Audit(e))
        BY <1>2, <2>3, <3>2, AlertsAfter
      <4>2. alert.execution = e
        BY <4>1 DEF AlertsOf, Audit
      <4> QED
        BY <2>2, <4>1, <4>2 DEF Alerted
    <3> QED
      BY <3>1, <3>2
  <2> QED
    BY <1>2, <2>1, <2>3, OthersRest DEF IInv
<1>3. RotationBegins \/ RenameLog \/ RotationEnds \/ AllOver \/ UNCHANGED vars => UNCHANGED <<act, audits, alerts>>
  BY DEF RotationBegins, RenameLog, RotationEnds, AllOver, vars, database
<1> QED
  BY <1>1, <1>2, <1>3 DEF Next

LEMMA InitInv == Init => IInv
<1> SUFFICES ASSUME Init PROVE IInv
  OBVIOUS
<1>1. ASSUME NEW e \in Executions PROVE Account(e)
  BY ErrorsApart DEF Init, NotStarted, Account
<1> QED
  BY <1>1 DEF Init, IInv

----------------------------------------------------------------------------

LEMMA Invariant == Spec => []IInv
BY InitInv, StepInv, PTL DEF Spec

\* Whatever fails between the records of an execution, they agree on how it ended, and a
\* caller gets the result or the error of the workflow only with both (execution_audit.py).
THEOREM AuditsAreTrue == Spec => []AuditIsTrue
<1>1. ASSUME IInv PROVE AuditIsTrue
  <2>1. ASSUME NEW alert \in alerts
        PROVE  act[alert.execution].logged /\ alert \in AlertsOf(audits[alert.execution])
    <3>1. PICK e \in Executions : act[e].logged /\ alert \in AlertsOf(Audit(e)) /\ alert.execution = e
      BY <1>1 DEF IInv, Alerted
    <3>2. audits[e] = Audit(e)
      BY <1>1, <3>1 DEF IInv, Account, Recorded
    <3> QED
      BY <3>1, <3>2
  <2> QED
    BY <1>1, <2>1 DEF IInv, Account, Recorded, AuditIsTrue
<1> QED
  BY <1>1, Invariant, PTL

----------------------------------------------------------------------------
(* The lines of the log.  The files are sequences of sequences; of what, the    *)
(* proofs need not know.                                                        *)

\* The files are all found, each at one path; a rotation renames to a name of its own.
Shelf ==
    /\ \E lines : files \in Seq(Seq(lines))
    /\ Logs = DOMAIN files
    /\ \A t \in DOMAIN archives :
          archives[t] # active /\ \A u \in DOMAIN archives : archives[u] = archives[t] => u = t
    /\ DOMAIN rotation = {"pc", "name", "done"}
    /\ rotation.pc = "rename" => active # None /\ rotation.name \notin DOMAIN archives

Has(f, n, e) == f \in DOMAIN files /\ n \in DOMAIN files[f] /\ files[f][n].execution = e

\* An execution that is logged has one line, its audit; another has none yet.
Filed(e) ==
    /\ act[e].logged =>
          \E f, n : Has(f, n, e) /\ files[f][n] = Audit(e) /\ \A g, m : Has(g, m, e) => g = f /\ m = n
    /\ ~act[e].logged => \A f, n : ~Has(f, n, e)

\* Where an execution that is about to write stands.
Pending(e) ==
    /\ act[e].pc \in {"open", "write"} => ~act[e].logged
    /\ act[e].pc = "write" => act[e].file \in DOMAIN files

FilesInv == Shelf /\ \A e \in Executions : Filed(e) /\ Pending(e)

\* The lines there were are where they were.
LinesStay ==
    /\ DOMAIN files \subseteq DOMAIN files'
    /\ \A f, n, e : Has(f, n, e) => files'[f][n] = files[f][n]

\* The files are left alone or one without lines is created.
SameLines == LinesStay /\ \A f, n, e : Has(f, n, e)' <=> Has(f, n, e)

LEMMA SeqWidens ==
    ASSUME NEW S, NEW T, S \subseteq T
    PROVE  Seq(S) \subseteq Seq(T)
OBVIOUS

LEMMA LogTouched ==
    ASSUME Shelf, active = None, Touched, archives' = archives
    PROVE  /\ SameLines /\ Logs' = DOMAIN files' /\ active' \in DOMAIN files' /\ active' # None
           /\ \E lines : files' \in Seq(Seq(lines))
           /\ \A t \in DOMAIN archives : archives[t] # active'
<1>1. PICK lines : files \in Seq(Seq(lines))
  BY DEF Shelf
<1>2. <<>> \in Seq(lines)
  OBVIOUS
<1>3. /\ files' = Append(files, <<>>) /\ active' = Len(files) + 1 /\ Len(files) \in Nat
      /\ DOMAIN files = 1 .. Len(files)
  BY <1>1 DEF Touched
<1>4. /\ files' \in Seq(Seq(lines)) /\ DOMAIN files' = DOMAIN files \cup {Len(files) + 1}
      /\ Len(files) + 1 \notin DOMAIN files
      /\ \A f \in DOMAIN files : files'[f] = files[f]
      /\ files'[Len(files) + 1] = <<>>
  BY <1>1, <1>2, <1>3
<1>5. SameLines
  <2>1. \A f, n, e : Has(f, n, e) => Has(f, n, e)' /\ files'[f][n] = files[f][n]
    BY <1>4 DEF Has
  <2>2. \A f, n, e : Has(f, n, e)' => Has(f, n, e)
    <3>1. DOMAIN files'[Len(files) + 1] = {}
      BY <1>4
    <3> QED
      BY <1>4, <3>1 DEF Has
  <2> QED
    BY <1>4, <2>1, <2>2 DEF SameLines, LinesStay
<1>6. Len(files) + 1 # None
  BY <1>3, ExecutionsAssumption
<1>7. Logs = {archives[t] : t \in DOMAIN archives}
  BY DEF Logs
<1>8. Logs' = {Len(files) + 1} \cup {archives[t] : t \in DOMAIN archives}
  BY <1>3, <1>6 DEF Logs
<1>9. \A t \in DOMAIN archives : archives[t] \in DOMAIN files
  BY <1>7 DEF Shelf
<1> QED
  BY <1>3, <1>4, <1>5, <1>6, <1>7, <1>8, <1>9 DEF Shelf

\* The log is opened where it is, or created.
LEMMA OpenKeepsShelf ==
    ASSUME Shelf, UNCHANGED <<archives, rotation>>,
           IF active = None THEN Touched ELSE UNCHANGED <<files, active>>
    PROVE  Shelf' /\ SameLines /\ active' \in DOMAIN files'
<1>1. CASE active = None
  <2>1. rotation.pc # "rename" /\ Touched
    BY <1>1 DEF Shelf
  <2> QED
    BY <1>1, <2>1, LogTouched DEF Shelf
<1>2. CASE active # None
  <2>1. UNCHANGED <<files, active, archives, rotation>>
    BY <1>2
  <2>2. active \in Logs
    BY <1>2 DEF Logs
  <2> QED
    BY <2>1, <2>2 DEF Shelf, Logs, SameLines, LinesStay, Has
<1> QED
  BY <1>1, <1>2

\* A rotation moves the log as it is; none takes the name of another.
LEMMA RotationKeepsShelf ==
    ASSUME Shelf, RotationBegins \/ RenameLog \/ RotationEnds
    PROVE  Shelf' /\ SameLines
<1>1. CASE RotationBegins
  <2>1. CASE active = None
    <3>1. Touched /\ archives' = archives /\ rotation' = [rotation EXCEPT !.done = @ + 1] /\ rotation.pc = "idle"
      BY <1>1, <2>1 DEF RotationBegins
    <3>2. rotation'.pc = rotation.pc /\ DOMAIN rotation' = DOMAIN rotation
      BY <3>1
    <3> QED
      BY <2>1, <3>1, <3>2, LogTouched DEF Shelf
  <2>2. CASE active # None
    <3>1. UNCHANGED <<files, active, archives>>
      BY <1>1, <2>2 DEF RotationBegins
    <3>2. PICK now : rotation' = IF files[active] = <<>> \/ ArchiveTaken(now)
                                 THEN [rotation EXCEPT !.done = @ + 1]
                                 ELSE [rotation EXCEPT !.pc = "rename", !.name = now]
      BY <1>1, <2>2 DEF RotationBegins
    <3>3. /\ rotation'.pc = "rename" => rotation'.name \notin DOMAIN archives
          /\ DOMAIN rotation' = DOMAIN rotation
      <4>1. rotation.pc = "idle" /\ DOMAIN rotation = {"pc", "name", "done"}
        BY <1>1 DEF RotationBegins, Shelf
      <4>2. CASE rotation' = [rotation EXCEPT !.done = @ + 1]
        BY <4>1, <4>2
      <4>3. CASE rotation' = [rotation EXCEPT !.pc = "rename", !.name = now] /\ now \notin DOMAIN archives
        BY <4>1, <4>3
      <4> QED
        BY <3>2, <4>2, <4>3 DEF ArchiveTaken
    <3> QED
      BY <2>2, <3>1, <3>3 DEF Shelf, Logs, SameLines, LinesStay, Has
  <2> QED
    BY <2>1, <2>2
<1>2. CASE RenameLog
  <2>1. /\ files' = files /\ active' = None /\ rotation'.pc # "rename" /\ active # None
        /\ DOMAIN rotation' = DOMAIN rotation
        /\ rotation.name \notin DOMAIN archives
        /\ archives' = [t \in DOMAIN archives \cup {rotation.name} |->
                           IF t = rotation.name THEN active ELSE archives[t]]
    BY <1>2 DEF RenameLog, Shelf
  <2>6. PICK name, held : name = rotation.name /\ held = DOMAIN archives \cup {name}
    OBVIOUS
  <2>7. /\ name \notin DOMAIN archives
        /\ archives' = [t \in held |-> IF t = name THEN active ELSE archives[t]]
    BY <2>1, <2>6
  <2>2. /\ DOMAIN archives' = DOMAIN archives \cup {rotation.name} /\ archives'[rotation.name] = active
        /\ \A t \in DOMAIN archives : archives'[t] = archives[t]
    BY <2>6, <2>7
  <2>3. Logs' = Logs
    BY <2>1, <2>2 DEF Logs
  <2>4. \A t \in DOMAIN archives' : archives'[t] # None
    <3>1. None \notin DOMAIN files
      BY ExecutionsAssumption DEF Shelf
    <3>2. \A t \in DOMAIN archives : archives[t] \in Logs
      BY DEF Logs
    <3> QED
      BY <2>1, <2>2, <3>1, <3>2 DEF Shelf
  <2>5. \A t \in DOMAIN archives' : \A u \in DOMAIN archives' : archives'[u] = archives'[t] => u = t
    BY <2>2 DEF Shelf
  <2> QED
    BY <2>1, <2>3, <2>4, <2>5 DEF Shelf, SameLines, LinesStay, Has
<1>3. CASE RotationEnds
  <2>1. /\ rotation.pc = "touch" /\ rotation'.pc = "idle" /\ archives' = archives
        /\ DOMAIN rotation' = DOMAIN rotation
        /\ IF active = None THEN Touched ELSE UNCHANGED <<files, active>>
    BY <1>3 DEF RotationEnds, Shelf
  <2>2. CASE active = None
    BY <2>1, <2>2, LogTouched DEF Shelf
  <2>3. CASE active # None
    BY <2>1, <2>3 DEF Shelf, Logs, SameLines, LinesStay, Has
  <2> QED
    BY <2>2, <2>3
<1> QED
  BY <1>1, <1>2, <1>3

\* A line is written: it is the one line that was not there.
LEMMA WriteAddsLine ==
    ASSUME IInv, Shelf, NEW e \in Executions, Pending(e), WriteLog(e)
    PROVE  /\ Shelf' /\ LinesStay
           /\ \E f, n : /\ Has(f, n, e)' /\ files'[f][n] = Audit(e)
                        /\ \A g, m, d : Has(g, m, d)' <=> Has(g, m, d) \/ (g = f /\ m = n /\ d = e)
<1>1. PICK lines : files \in Seq(Seq(lines))
  BY DEF Shelf
<1> DEFINE f == act[e].file
           line == Audit(e)
           all == lines \cup {line}
           n == Len(files[f]) + 1
<1>2. f \in DOMAIN files /\ files' = [files EXCEPT ![f] = Append(@, line)] /\ UNCHANGED <<active, archives, rotation>>
  BY DEF WriteLog, Pending, At
<1>3. line.execution = e
  BY DEF Audit
<1> HIDE DEF f, line
<1>4. Seq(lines) \subseteq Seq(all) /\ Seq(Seq(lines)) \subseteq Seq(Seq(all))
  <2>1. lines \subseteq all
    OBVIOUS
  <2>2. Seq(lines) \subseteq Seq(all)
    BY <2>1, SeqWidens
  <2> QED
    BY <2>2, SeqWidens
<1>5. files \in Seq(Seq(all)) /\ files[f] \in Seq(all) /\ line \in all
  <2>1. files[f] \in Seq(lines)
    BY <1>1, <1>2
  <2> QED
    BY <1>1, <1>4, <2>1
<1> HIDE DEF all
<1>6. /\ files' \in Seq(Seq(all)) /\ DOMAIN files' = DOMAIN files
      /\ files'[f] = Append(files[f], line)
      /\ \A g \in DOMAIN files : g # f => files'[g] = files[g]
  BY <1>2, <1>5
<1>7. /\ DOMAIN files'[f] = DOMAIN files[f] \cup {n} /\ n \notin DOMAIN files[f] /\ files'[f][n] = line
      /\ \A m \in DOMAIN files[f] : files'[f][m] = files[f][m]
  BY <1>5, <1>6
<1> HIDE DEF n
<1>8. Shelf'
  BY <1>2, <1>6 DEF Shelf, Logs
<1>9. \A g, m, d : Has(g, m, d)' <=> Has(g, m, d) \/ (g = f /\ m = n /\ d = e)
  BY <1>2, <1>3, <1>6, <1>7 DEF Has
<1>10. LinesStay
  BY <1>6, <1>7 DEF LinesStay, Has
<1>11. \E g, m : /\ Has(g, m, e)' /\ files'[g][m] = Audit(e)
                 /\ \A h, k, d : Has(h, k, d)' <=> Has(h, k, d) \/ (h = g /\ k = m /\ d = e)
  <2>1. \A g, m : g = f /\ m = n => Has(g, m, e)' /\ files'[g][m] = Audit(e)
    BY <1>7, <1>9 DEF line
  <2> QED
    BY <1>9, <2>1
<1> QED
  BY <1>8, <1>10, <1>11

\* An execution whose lines and records stay remains filed as it was.
LEMMA FiledStays ==
    ASSUME NEW e \in Executions, Filed(e), SameLines, act'[e].logged = act[e].logged,
           act[e].logged => Audit(e)' = Audit(e)
    PROVE  Filed(e)'
<1>1. CASE act[e].logged
  <2>1. PICK f, n : Has(f, n, e) /\ files[f][n] = Audit(e) /\ \A g, m : Has(g, m, e) => g = f /\ m = n
    BY <1>1 DEF Filed
  <2>2. Has(f, n, e)' /\ files'[f][n] = Audit(e)' /\ \A g, m : Has(g, m, e)' => g = f /\ m = n
    BY <1>1, <2>1 DEF SameLines, LinesStay
  <2> QED
    BY <1>1, <2>2 DEF Filed
<1>2. CASE ~act[e].logged
  BY <1>2 DEF Filed, SameLines
<1> QED
  BY <1>1, <1>2

\* Only the write of its line makes an execution logged, and it comes there step by step.
LEMMA PositionAfter ==
    ASSUME IInv, NEW e \in Executions, Step(e), ~WriteLog(e)
    PROVE  /\ act'[e].logged = act[e].logged
           /\ act'[e].pc = "open" => StoreAudit(e)
           /\ act'[e].pc = "write" => OpenLog(e) /\ act'[e].file = active'
<1>1. Account(e) /\ DOMAIN act = Executions
  BY DEF IInv
<1>2. DOMAIN act[e] = DOMAIN NotStarted
  BY <1>1 DEF Account
<1>3. ASSUME NEW outcome, Answer(e, outcome)
      PROVE  act'[e].logged = act[e].logged /\ act'[e].pc = "over"
  BY <1>1, <1>2, <1>3 DEF Answer, Move, NotStarted
<1>4. ASSUME NEW error, Raised(e, error)
      PROVE  act'[e].logged = act[e].logged /\ act'[e].pc = "audit"
  BY <1>1, <1>2, <1>4 DEF Raised, Move, NotStarted
<1>5. CASE Collect(e)
  <2>1. ASSUME NEW articles, Move(e, [act[e] EXCEPT !.pc = "lookup", !.articles = articles])
        PROVE  act'[e].logged = act[e].logged /\ act'[e].pc = "lookup"
    BY <1>1, <1>2, <2>1 DEF Move, NotStarted
  <2>2. ASSUME NEW articles, NEW filter,
               Move(e, [act[e] EXCEPT !.pc = "snapshot", !.articles = articles, !.filter = filter])
        PROVE  act'[e].logged = act[e].logged /\ act'[e].pc = "snapshot"
    BY <1>1, <1>2, <2>2 DEF Move, NotStarted
  <2>3. act'[e].logged = act[e].logged /\ act'[e].pc \in {"over", "lookup", "snapshot"}
    BY <1>3, <1>5, <2>1, <2>2 DEF Collect
  <2> QED
    BY <2>3
<1>6. CASE StoreSnapshot(e) \/ CommitDocuments(e)
  <2>1. act'[e].logged = act[e].logged /\ act'[e].pc = "work"
    BY <1>1, <1>2, <1>6 DEF StoreSnapshot, CommitDocuments, Move, NotStarted
  <2> QED
    BY <2>1
<1>7. CASE LookupDocument(e) \/ InsertDocument(e)
  <2>1. act[e].pc \in {"lookup", "insert"}
    BY <1>7 DEF LookupDocument, InsertDocument, At
  <2>2. ASSUME Move(e, [act[e] EXCEPT !.next = @ + 1])
        PROVE  act'[e].logged = act[e].logged /\ act'[e].pc \in {"lookup", "insert"}
    BY <1>1, <1>2, <2>1, <2>2 DEF Move, NotStarted
  <2>3. ASSUME Move(e, [act[e] EXCEPT !.pc = "insert"])
        PROVE  act'[e].logged = act[e].logged /\ act'[e].pc = "insert"
    BY <1>1, <1>2, <2>3 DEF Move, NotStarted
  <2>4. ASSUME NEW rows, Move(e, [act[e] EXCEPT !.pc = "lookup", !.next = @ + 1, !.mine = rows])
        PROVE  act'[e].logged = act[e].logged /\ act'[e].pc = "lookup"
    BY <1>1, <1>2, <2>4 DEF Move, NotStarted
  <2>5. act'[e].logged = act[e].logged /\ act'[e].pc \in {"audit", "lookup", "insert"}
    BY <1>4, <1>7, <2>2, <2>3, <2>4 DEF LookupDocument, InsertDocument
  <2> QED
    BY <2>5
<1>8. CASE Work(e)
  <2>1. act'[e].logged = act[e].logged /\ act'[e].pc = "audit"
    BY <1>1, <1>2, <1>8 DEF Work, Move, NotStarted
  <2> QED
    BY <2>1
<1>9. CASE StoreAudit(e)
  BY <1>1, <1>2, <1>9 DEF StoreAudit, Move, NotStarted
<1>10. CASE OpenLog(e)
  BY <1>1, <1>2, <1>10 DEF OpenLog, Move, NotStarted
<1>11. CASE Killed(e)
  <2>1. act'[e].logged = act[e].logged /\ act'[e].pc = "over"
    BY <1>1, <1>2, <1>11 DEF Killed, Move, NotStarted
  <2> QED
    BY <2>1
<1>12. CASE SetUpFails(e) \/ AuditFails(e) \/ LogFails(e) \/ DeliverAlerts(e)
  <2>1. act'[e].logged = act[e].logged /\ act'[e].pc = "over"
    BY <1>3, <1>12 DEF SetUpFails, AuditFails, LogFails, DeliverAlerts
  <2> QED
    BY <2>1
<1>13. CASE BreakDeadlock(e) \/ DatabaseFails(e)
  <2>1. act'[e].logged = act[e].logged /\ act'[e].pc = "audit"
    BY <1>4, <1>13 DEF BreakDeadlock, DatabaseFails
  <2> QED
    BY <2>1
<1> QED
  BY <1>5, <1>6, <1>7, <1>8, <1>9, <1>10, <1>11, <1>12, <1>13 DEF Step

\* What a step of an execution does to the files.
LEMMA StepFiles ==
    ASSUME IInv, Shelf, NEW e \in Executions, Step(e), ~WriteLog(e)
    PROVE  Shelf' /\ SameLines /\ (OpenLog(e) => active' \in DOMAIN files')
<1>1. CASE OpenLog(e)
  <2>1. UNCHANGED <<archives, rotation>>
    BY <1>1 DEF OpenLog
  <2>2. IF active = None THEN Touched ELSE UNCHANGED <<files, active>>
    BY <1>1 DEF OpenLog, Touched
  <2> QED
    BY <1>1, <2>1, <2>2, OpenKeepsShelf
<1>2. CASE ~OpenLog(e)
  <2>1. UNCHANGED <<files, active, archives, rotation>>
    BY <1>2 DEF Step, Collect, StoreSnapshot, SetUpFails, LookupDocument, InsertDocument, BreakDeadlock,
       CommitDocuments, DatabaseFails, Work, StoreAudit, AuditFails, LogFails, DeliverAlerts, Killed, log
  <2> QED
    BY <1>2, <2>1 DEF Shelf, Logs, SameLines, LinesStay, Has
<1> QED
  BY <1>1, <1>2

\* Every step of an execution keeps the lines of all.
LEMMA StepFiled ==
    ASSUME IInv, FilesInv, NEW e \in Executions, Step(e)
    PROVE  FilesInv'
<1>1. ASSUME NEW d \in Executions PROVE RecordsStay(d)
  BY StepKeeps, OthersRest DEF RecordsStay, Audit
<1>2. \A d \in Executions \ {e} : act'[d] = act[d]
  BY OthersRest
<1>3. CASE ~WriteLog(e)
  <2>1. Shelf' /\ SameLines /\ (OpenLog(e) => active' \in DOMAIN files')
    BY <1>3, StepFiles DEF FilesInv
  <2>2. \A d \in Executions : act'[d].logged = act[d].logged
    BY <1>2, <1>3, PositionAfter
  <2>3. \A d \in Executions : Filed(d)'
    BY <1>1, <2>1, <2>2, FiledStays DEF FilesInv, RecordsStay
  <2>4. Pending(e)'
    <3>1. act'[e].pc = "open" => ~act[e].logged
      BY <1>3, PositionAfter DEF StoreAudit, At, IInv, Account
    <3>2. act'[e].pc = "write" => ~act[e].logged /\ act'[e].file \in DOMAIN files'
      BY <1>3, <2>1, PositionAfter DEF OpenLog, At, FilesInv, Pending
    <3> QED
      BY <2>2, <3>1, <3>2 DEF Pending
  <2>5. \A d \in Executions \ {e} : Pending(d)'
    BY <1>2, <2>1 DEF FilesInv, Pending, SameLines, LinesStay
  <2> QED
    BY <2>1, <2>3, <2>4, <2>5 DEF FilesInv
<1>4. CASE WriteLog(e)
  <2>1. /\ Shelf' /\ LinesStay
        /\ \E f, n : /\ Has(f, n, e)' /\ files'[f][n] = Audit(e)
                     /\ \A g, m, d : Has(g, m, d)' <=> Has(g, m, d) \/ (g = f /\ m = n /\ d = e)
    BY <1>4, WriteAddsLine DEF FilesInv
  <2>2. PICK f, n : /\ Has(f, n, e)' /\ files'[f][n] = Audit(e)
                    /\ \A g, m, d : Has(g, m, d)' <=> Has(g, m, d) \/ (g = f /\ m = n /\ d = e)
    BY <2>1
  <2>3. /\ act'[e].logged /\ act'[e].pc \notin {"open", "write"} /\ Audit(e)' = Audit(e) /\ ~act[e].logged
    <3>1. act'[e] = IF e \in CommandLine THEN [act[e] EXCEPT !.pc = "alert", !.logged = TRUE]
                    ELSE [act[e] EXCEPT !.pc = "over", !.logged = TRUE, !.outcome = Outcome(e)]
      BY <1>4 DEF WriteLog, Move, IInv
    <3>2. DOMAIN act[e] = DOMAIN NotStarted
      BY DEF IInv, Account
    <3>3. /\ act'[e].logged = TRUE /\ act'[e].pc \in {"alert", "over"} /\ act'[e].end = act[e].end
          /\ act'[e].articles = act[e].articles
      BY <3>1, <3>2 DEF NotStarted
    <3> QED
      BY <1>4, <3>3 DEF Audit, WriteLog, At, FilesInv, Pending
  <2>4. Filed(e)'
    <3>1. \A g, m : ~Has(g, m, e)
      BY <2>3 DEF FilesInv, Filed
    <3>2. \A g, m : Has(g, m, e)' => g = f /\ m = n
      BY <2>2, <3>1
    <3> QED
      BY <2>2, <2>3, <3>2 DEF Filed
  <2>5. ASSUME NEW d \in Executions, d # e
        PROVE  Filed(d)' /\ Pending(d)'
    <3>1. \A g, m : Has(g, m, d)' <=> Has(g, m, d)
      BY <2>2, <2>5
    <3>2. act'[d] = act[d]
      BY <1>2, <2>5
    <3>3. Audit(d)' = Audit(d)
      BY <3>2 DEF Audit
    <3>4. Filed(d)'
      <4>1. CASE act[d].logged
        <5>1. PICK h, k : Has(h, k, d) /\ files[h][k] = Audit(d) /\ \A g, m : Has(g, m, d) => g = h /\ m = k
          BY <4>1 DEF FilesInv, Filed
        <5>2. Has(h, k, d)' /\ files'[h][k] = Audit(d)' /\ \A g, m : Has(g, m, d)' => g = h /\ m = k
          BY <2>1, <3>1, <3>3, <5>1 DEF LinesStay
        <5> QED
          BY <3>2, <4>1, <5>2 DEF Filed
      <4>2. CASE ~act[d].logged
        BY <3>1, <3>2, <4>2 DEF FilesInv, Filed
      <4> QED
        BY <4>1, <4>2
    <3>5. Pending(d)'
      BY <2>1, <3>2 DEF FilesInv, Pending, LinesStay
    <3> QED
      BY <3>4, <3>5
  <2>6. Pending(e)'
    BY <2>3 DEF Pending
  <2> QED
    BY <2>1, <2>4, <2>5, <2>6 DEF FilesInv
<1> QED
  BY <1>3, <1>4

LEMMA FilesStep == IInv /\ FilesInv /\ [Next]_vars => FilesInv'
<1> SUFFICES ASSUME IInv, FilesInv, [Next]_vars PROVE FilesInv'
  OBVIOUS
<1>1. CASE UNCHANGED vars
  BY <1>1 DEF vars, log, FilesInv, Shelf, Logs, Filed, Pending, Has, Audit
<1>2. CASE AllOver
  BY <1>1, <1>2 DEF AllOver
<1>3. CASE RotationBegins \/ RenameLog \/ RotationEnds
  <2>1. Shelf' /\ SameLines /\ act' = act
    BY <1>3, RotationKeepsShelf DEF FilesInv, RotationBegins, RenameLog, RotationEnds
  <2>2. \A e \in Executions : Audit(e)' = Audit(e)
    BY <2>1 DEF Audit
  <2>3. \A e \in Executions : Filed(e)'
    BY <2>1, <2>2, FiledStays DEF FilesInv
  <2>4. \A e \in Executions : Pending(e)'
    BY <2>1 DEF FilesInv, Pending, SameLines, LinesStay
  <2> QED
    BY <2>1, <2>3, <2>4 DEF FilesInv
<1> QED
  BY <1>1, <1>2, <1>3, StepFiled DEF Next

LEMMA FilesInit == Init => FilesInv
<1> SUFFICES ASSUME Init PROVE FilesInv
  OBVIOUS
<1>1. /\ files = <<>> /\ DOMAIN files = {} /\ DOMAIN archives = {} /\ active = None /\ rotation.pc = "idle"
      /\ DOMAIN rotation = {"pc", "name", "done"}
  BY DEF Init
<1>2. files \in Seq(Seq({}))
  BY <1>1
<1>3. Logs = {}
  BY <1>1 DEF Logs
<1>4. Shelf
  BY <1>1, <1>2, <1>3 DEF Shelf
<1>5. \A e \in Executions : Filed(e) /\ Pending(e)
  BY <1>1 DEF Init, NotStarted, Filed, Pending, Has
<1> QED
  BY <1>4, <1>5 DEF FilesInv

\* However appends and rotations interleave, the line of an execution is in one place of
\* one log that can be found at one path, and says what the database says (retention.py).
THEOREM LinesAreFound == Spec => []LinesFound
<1>1. ASSUME IInv, FilesInv PROVE LinesFound
  <2>1. ASSUME NEW e \in Executions
        PROVE  LET lines == UNION {{f} \X {n \in DOMAIN files[f] : files[f][n].execution = e} : f \in Logs}
               IN  IF act[e].logged THEN \E p \in lines : lines = {p} /\ files[p[1]][p[2]] = audits[e]
                   ELSE lines = {}
    <3> DEFINE lines == UNION {{f} \X {n \in DOMAIN files[f] : files[f][n].execution = e} : f \in Logs}
    <3>1. \A p : p \in lines <=> \E f, n : p = <<f, n>> /\ Has(f, n, e)
      BY <1>1 DEF FilesInv, Shelf, Has
    <3> HIDE DEF lines
    <3>2. CASE act[e].logged
      <4>1. PICK f, n : Has(f, n, e) /\ files[f][n] = Audit(e) /\ \A g, m : Has(g, m, e) => g = f /\ m = n
        BY <1>1, <3>2 DEF FilesInv, Filed
      <4>2. lines = {<<f, n>>}
        BY <3>1, <4>1
      <4>3. audits[e] = Audit(e)
        BY <1>1, <3>2 DEF IInv, Account, Recorded
      <4>4. <<f, n>> \in lines /\ files[<<f, n>>[1]][<<f, n>>[2]] = audits[e]
        BY <4>1, <4>2, <4>3
      <4> QED
        BY <3>2, <4>2, <4>4 DEF lines
    <3>3. CASE ~act[e].logged
      <4>1. lines = {}
        BY <1>1, <3>1, <3>3 DEF FilesInv, Filed
      <4> QED
        BY <3>3, <4>1 DEF lines
    <3> QED
      BY <3>2, <3>3
  <2> QED
    BY <1>1, <2>1 DEF LinesFound, FilesInv, Shelf
<1> QED
  BY <1>1, FilesInit, FilesStep, Invariant, PTL DEF Spec

----------------------------------------------------------------------------
(* The collection.  A list comes out of it whatever the sources answer with:   *)
(* the provers follow it to the places of the items that are kept.             *)

LEMMA FirstListed ==
    ASSUME NEW s, IsList(s), NEW n \in Nat
    PROVE  IsList(FirstOf(s, n))
<1> DEFINE m == IF n < Len(s) THEN n ELSE Len(s)
<1>1. s \in Seq(ToSet(s)) /\ DOMAIN s = 1 .. Len(s) /\ Len(s) \in Nat /\ m \in 0 .. Len(s)
  BY ListIsSeq
<1> HIDE DEF m
<1>2. \A i \in 1 .. m : s[i] \in ToSet(s)
  BY <1>1
<1>3. SubSeq(s, 1, m) \in Seq(ToSet(s))
  BY <1>1, <1>2, SubSeqProperties
<1> QED
  BY <1>3, SeqIsList DEF FirstOf, m

LEMMA FilingsListed ==
    ASSUME NEW pages, IsList(pages), \A n \in DOMAIN pages : IsList(pages[n].items)
    PROVE  IsList(DartCollect(pages).posts)
<1> DEFINE Wanted(n) == Picked(pages[n].items, {k \in DOMAIN pages[n].items :
                                                   pages[n].items[k].parsed /\ pages[n].items[k].allowed})
<1>1. PICK read \in SUBSET DOMAIN pages :
         \/ DartCollect(pages) = Failed
         \/ DartCollect(pages) = Collected(FlattenSeq([n \in 1 .. Cardinality(read) |-> Wanted(n)]))
  BY DEF DartCollect, Where, Places
<1>2. /\ DOMAIN pages = 1 .. Len(pages) /\ Len(pages) \in Nat
      /\ Cardinality(read) \in Nat /\ Cardinality(read) <= Len(pages)
  BY ListIsSeq, PlacesFinite
<1> DEFINE lists == [n \in 1 .. Cardinality(read) |-> Wanted(n)]
<1>3. \A n \in 1 .. Cardinality(read) : n \in DOMAIN pages
  BY <1>2
<1>4. ASSUME NEW n \in DOMAIN pages PROVE IsList(Wanted(n))
  BY PickedFromList
<1> HIDE DEF Wanted
<1>5. IsList(lists) /\ \A n \in DOMAIN lists : IsList(lists[n])
  BY <1>2, <1>3, <1>4, FunctionIsList
<1> HIDE DEF lists
<1>6. IsList(FlattenSeq(lists))
  BY <1>5, Flattened
<1> QED
  BY <1>1, <1>6, EmptyIsList DEF Failed, Collected, lists

LEMMA EntriesListed ==
    ASSUME NEW feeds, IsList(feeds), \A n \in DOMAIN feeds : feeds[n] # None => IsList(feeds[n]), NEW limit \in Nat
    PROVE  IsList(FeedCollect(feeds, limit).posts)
<1> DEFINE read == Picked(feeds, {n \in DOMAIN feeds : feeds[n] # None})
           Entries(feed) == FirstOf(Picked(feed, {k \in DOMAIN feed : feed[k].parsed /\ feed[k].recent}), limit)
           lists == [n \in DOMAIN read |-> Entries(read[n])]
<1>1. \/ FeedCollect(feeds, limit) = Failed
      \/ FeedCollect(feeds, limit) = Collected(FirstOf(FlattenSeq(lists), limit))
  BY DEF FeedCollect, Where, Places
<1>2. IsList(read) /\ \A feed \in ToSet(read) : IsList(feed)
  BY PickedFromList
<1> HIDE DEF read
<1>3. ASSUME NEW feed, IsList(feed) PROVE IsList(Entries(feed))
  BY <1>3, PickedFromList, FirstListed
<1> HIDE DEF Entries
<1>4. DOMAIN read = 1 .. Len(read) /\ Len(read) \in Nat /\ \A n \in DOMAIN read : IsList(read[n])
  BY <1>2, ListIsSeq DEF ToSet
<1>5. IsList(lists) /\ \A n \in DOMAIN lists : IsList(lists[n])
  BY <1>3, <1>4, FunctionIsList
<1> HIDE DEF lists
<1>6. IsList(FirstOf(FlattenSeq(lists), limit))
  BY <1>5, Flattened, FirstListed
<1> QED
  BY <1>1, <1>6, EmptyIsList DEF Failed, Collected

LEMMA NewsListed ==
    ASSUME NEW items, items = None \/ IsList(items), NEW limit \in Nat
    PROVE  IsList(NaverCollect(items, limit).posts)
<1>1. IsList(items) => IsList(FirstOf(items, limit))
  BY FirstListed
<1>2. IsList(items) => IsList(Where(FirstOf(items, limit), LAMBDA i : i.parsed /\ i.recent))
  BY <1>1, PickedFromList DEF Where, Places
<1> QED
  BY <1>2, EmptyIsList DEF NaverCollect, Failed, Collected

\* What is collected from sources that answer with lists is a list.
LEMMA PostsListed ==
    ASSUME NEW sources \in Seq(Sources), NEW answers, Listed(answers), NEW limit \in Nat,
           CollectPosts(sources, answers, limit) # None
    PROVE  IsList(CollectPosts(sources, answers, limit))
<1> DEFINE of == [n \in DOMAIN sources |-> Provided(sources[n], answers, limit)]
           lists == [n \in DOMAIN sources |-> Normalized(sources[n], of[n].posts)]
<1>1. CollectPosts(sources, answers, limit) = FlattenSeq(lists)
  BY DEF CollectPosts
<1>2. ASSUME NEW source \in Sources PROVE IsList(Provided(source, answers, limit).posts)
  <2>1. CASE source \notin DOMAIN answers
    BY <2>1, EmptyIsList DEF Provided, Failed
  <2>2. CASE source \in DOMAIN answers /\ source = "dart"
    BY <2>2, FilingsListed DEF Provided, Listed
  <2>3. CASE source \in DOMAIN answers /\ source = "ir_rss"
    BY <2>3, EntriesListed DEF Provided, Listed
  <2>4. CASE source \in DOMAIN answers /\ source = "naver_news"
    BY <2>4, NewsListed DEF Provided, Listed
  <2> QED
    BY <2>1, <2>2, <2>3, <2>4 DEF Sources
<1>3. ASSUME NEW source, NEW items, IsList(items) PROVE IsList(Normalized(source, items))
  <2> DEFINE Usable(i) == CASE source = "dart" -> i.document = "text"
                            [] source = "ir_rss" -> i.paragraphs # <<>>
                            [] OTHER -> TRUE
             usable == Picked(items, {n \in DOMAIN items : Usable(items[n])})
  <2>1. IsList(usable)
    BY <1>3, PickedFromList
  <2>2. Normalized(source, items) = [n \in DOMAIN usable |-> [source |-> source, item |-> usable[n]]]
    BY DEF Normalized, Where, Places
  <2> HIDE DEF usable
  <2> QED
    BY <2>1, <2>2, ListIsSeq, FunctionIsList
<1>4. DOMAIN sources = 1 .. Len(sources) /\ Len(sources) \in Nat /\ \A n \in DOMAIN sources : sources[n] \in Sources
  OBVIOUS
<1>5. \A n \in DOMAIN sources : IsList(of[n].posts)
  BY <1>2, <1>4
<1> HIDE DEF of
<1>6. IsList(lists) /\ \A n \in DOMAIN lists : IsList(lists[n])
  BY <1>3, <1>4, <1>5, FunctionIsList
<1> HIDE DEF lists
<1> QED
  BY <1>1, <1>6, Flattened

LEMMA ArticlesListed ==
    ASSUME NEW posts, IsList(posts)
    PROVE  IsList(ToArticles(posts))
<1> DEFINE written == Picked(posts, {n \in DOMAIN posts : posts[n].source = "dart" \/ posts[n].item.text # None})
<1>1. IsList(written)
  BY PickedFromList
<1>2. /\ DOMAIN ToArticles(posts) = DOMAIN written
      /\ ToArticles(posts) = [n \in DOMAIN written |-> ToArticles(posts)[n]]
  BY DEF ToArticles, Where, Places
<1> HIDE DEF written
<1> QED
  BY <1>1, <1>2, ListIsSeq, FunctionIsList

\* The snapshot counts each collected article once, as accepted or by why it is not.
LEMMA SnapshotBalances ==
    ASSUME NEW articles, IsList(articles), NEW filter
    PROVE  /\ IsList(Filtered(articles, filter))
           /\ Snapshot(articles, filter).accepted = Len(Filtered(articles, filter))
           /\ Snapshot(articles, filter).collected =
                 Snapshot(articles, filter).accepted + Snapshot(articles, filter).theme
                     + Snapshot(articles, filter).topic
<1> DEFINE Because(reason) == {n \in DOMAIN articles : FilterRejection(articles[n], filter) = reason}
           A == Because(None)
           B == Because("theme_mismatch")
           C == Because("topic_mismatch")
<1>1. DOMAIN articles = 1 .. Len(articles) /\ Len(articles) \in Nat
  BY ListIsSeq
<1>2. IsList(Filtered(articles, filter)) /\ Len(Filtered(articles, filter)) = Cardinality(A)
  BY PickedFromList DEF Filtered, Where, Places
<1>3. /\ Snapshot(articles, filter).accepted = Len(Filtered(articles, filter))
      /\ Snapshot(articles, filter).theme = Cardinality(B)
      /\ Snapshot(articles, filter).topic = Cardinality(C)
      /\ Snapshot(articles, filter).collected = Len(articles)
  BY DEF Snapshot, HowMany, Places
<1>4. A \cup (B \cup C) = 1 .. Len(articles) /\ A \cap (B \cup C) = {} /\ B \cap C = {}
  BY <1>1, CollectionAssumption DEF FilterRejection
<1>5. A \in SUBSET (1 .. Len(articles)) /\ B \in SUBSET (1 .. Len(articles)) /\ C \in SUBSET (1 .. Len(articles))
  BY <1>1
<1> HIDE DEF A, B, C
<1>6. /\ IsFiniteSet(A) /\ Cardinality(A) \in Nat /\ IsFiniteSet(B) /\ Cardinality(B) \in Nat
      /\ IsFiniteSet(C) /\ Cardinality(C) \in Nat
  BY <1>1, <1>5, PlacesFinite
<1>7. Cardinality(1 .. Len(articles)) = Len(articles)
  BY <1>1, UpTo
<1>8. IsFiniteSet(B \cup C) /\ Cardinality(B \cup C) = Cardinality(B) + Cardinality(C)
  BY <1>4, <1>6, DisjointUnion
<1>9. Cardinality(A \cup (B \cup C)) = Cardinality(A) + Cardinality(B \cup C)
  BY <1>4, <1>6, <1>8, DisjointUnion
<1>10. Len(articles) = Cardinality(A) + (Cardinality(B) + Cardinality(C))
  BY <1>4, <1>7, <1>8, <1>9
<1>11. Cardinality(A) + (Cardinality(B) + Cardinality(C)) = Cardinality(A) + Cardinality(B) + Cardinality(C)
  BY <1>6
<1> QED
  BY <1>2, <1>3, <1>10, <1>11

\* What an execution gets to read.
LEMMA CollectedListed ==
    ASSUME NEW e \in Executions, NEW answers \in Answers(e), NEW limit \in Nat,
           CollectPosts(Asked[e], answers, limit) # None
    PROVE  LET posts == CollectPosts(Asked[e], answers, limit)
           IN  IsList(ToArticles(posts)) /\ IsList(ToArticles(FirstOf(posts, Limit)))
<1>1. Asked[e] \in Seq(Sources) /\ Listed(answers) /\ Limit \in Nat
  BY ExecutionsAssumption
<1>2. IsList(CollectPosts(Asked[e], answers, limit))
  BY <1>1, PostsListed
<1> QED
  BY <1>1, <1>2, FirstListed, ArticlesListed

----------------------------------------------------------------------------
(* The documents.                                                               *)

Stored(e, n) == \E d \in documents \cup act[e].mine : SameDocument(d, RowOf(e, n))

\* Where an execution stands in the storing of its documents.
Standing(e) ==
    /\ act[e].mine # {} => act[e].pc \in {"lookup", "insert"} /\ act[e].next # 1
    /\ act[e].pc = "collect" => act[e].next = 1
    /\ act[e].pc = "snapshot" => e \notin CommandLine
    /\ e \in CommandLine /\ act[e].pc \in {"lookup", "insert", "work"} =>
          /\ act[e].next \in Nat \ {0} /\ Len(act[e].articles) \in Nat
          /\ DOMAIN act[e].articles = 1 .. Len(act[e].articles)
          /\ \A n \in DOMAIN act[e].articles : n < act[e].next => Stored(e, n)
    /\ act[e].pc \in {"lookup", "insert"} => e \in CommandLine
    /\ e \in CommandLine /\ act[e].pc = "work" => act[e].next > Len(act[e].articles)
    /\ act[e].pc = "insert" => \A d \in act[e].mine : ~Clash(d, Row(e))
    /\ \A d \in act[e].mine : d.by = e

\* The rows there are, committed or not.
Held(d) == d \in documents \/ \E e \in Executions : d \in act[e].mine

Committed(d) ==
    /\ d.by \in Executions /\ act[d.by].pc \notin {"collect", "lookup", "insert"}
    /\ act[d.by].next > Len(act[d.by].articles)

DocumentsInv ==
    /\ \A e \in Executions : Standing(e)
    /\ \A d \in documents : Committed(d)
    /\ \A d, other : Held(d) /\ Held(other) /\ Clash(d, other) => d = other

\* A step that neither collects nor stores: what the execution held is given up.
LEMMA PassesBy ==
    ASSUME IInv, DocumentsInv, NEW e \in Executions,
           \/ SetUpFails(e) \/ BreakDeadlock(e) \/ DatabaseFails(e) \/ Work(e) \/ StoreAudit(e) \/ AuditFails(e)
           \/ OpenLog(e) \/ WriteLog(e) \/ LogFails(e) \/ DeliverAlerts(e) \/ Killed(e)
    PROVE  /\ documents' = documents
           /\ act'[e].mine = {} /\ act'[e].articles = act[e].articles /\ act'[e].next = act[e].next
           /\ act'[e].pc \in {"audit", "open", "write", "alert", "over"}
<1>1. DOMAIN act = Executions /\ DOMAIN act[e] = DOMAIN NotStarted /\ Standing(e)
  BY DEF IInv, Account, DocumentsInv
<1>2. documents' = documents
  BY DEF SetUpFails, BreakDeadlock, DatabaseFails, Work, StoreAudit, AuditFails, OpenLog, WriteLog, LogFails,
     DeliverAlerts, Killed, database
<1>3. ASSUME NEW outcome, Answer(e, outcome)
      PROVE  /\ act'[e].mine = act[e].mine /\ act'[e].articles = act[e].articles /\ act'[e].next = act[e].next
             /\ act'[e].pc = "over"
  BY <1>1, <1>3 DEF Answer, Move, NotStarted
<1>4. ASSUME NEW error, Raised(e, error)
      PROVE  /\ act'[e].mine = {} /\ act'[e].articles = act[e].articles /\ act'[e].next = act[e].next
             /\ act'[e].pc = "audit"
  BY <1>1, <1>4 DEF Raised, Move, NotStarted
<1>5. CASE SetUpFails(e)
  <2>1. act[e].mine = {}
    BY <1>1, <1>5 DEF SetUpFails, At, Standing
  <2>2. \E outcome : Answer(e, outcome)
    BY <1>5 DEF SetUpFails
  <2> QED
    BY <1>2, <1>3, <2>1, <2>2
<1>6. CASE BreakDeadlock(e) \/ DatabaseFails(e)
  BY <1>2, <1>4, <1>6 DEF BreakDeadlock, DatabaseFails
<1>7. CASE Work(e)
  <2>1. act[e].mine = {}
    BY <1>1, <1>7 DEF Work, At, Standing
  <2> QED
    BY <1>1, <1>2, <1>7, <2>1 DEF Work, Move, NotStarted
<1>8. CASE StoreAudit(e) \/ OpenLog(e) \/ WriteLog(e)
  <2>1. act[e].mine = {}
    BY <1>1, <1>8 DEF StoreAudit, OpenLog, WriteLog, At, Standing
  <2>2. \/ Move(e, [act[e] EXCEPT !.pc = "open"])
        \/ Move(e, [act[e] EXCEPT !.pc = "write", !.file = active'])
        \/ Move(e, [act[e] EXCEPT !.pc = "alert", !.logged = TRUE])
        \/ Move(e, [act[e] EXCEPT !.pc = "over", !.logged = TRUE, !.outcome = Outcome(e)])
    BY <1>8 DEF StoreAudit, OpenLog, WriteLog
  <2>3. PICK after :
            /\ Move(e, after)
            /\ \/ after = [act[e] EXCEPT !.pc = "open"]
               \/ after = [act[e] EXCEPT !.pc = "write", !.file = active']
               \/ after = [act[e] EXCEPT !.pc = "alert", !.logged = TRUE]
               \/ after = [act[e] EXCEPT !.pc = "over", !.logged = TRUE, !.outcome = Outcome(e)]
    BY <2>2
  <2>4. /\ after.mine = act[e].mine /\ after.articles = act[e].articles /\ after.next = act[e].next
        /\ after.pc \in {"open", "write", "alert", "over"}
    BY <1>1, <2>3 DEF NotStarted
  <2>5. act'[e] = after
    BY <1>1, <2>3 DEF Move
  <2> QED
    BY <1>1, <1>2, <2>1, <2>4, <2>5 DEF NotStarted
<1>9. CASE AuditFails(e) \/ LogFails(e) \/ DeliverAlerts(e)
  <2>1. act[e].mine = {}
    BY <1>1, <1>9 DEF AuditFails, LogFails, DeliverAlerts, At, Standing
  <2>2. \E outcome : Answer(e, outcome)
    BY <1>9 DEF AuditFails, LogFails, DeliverAlerts
  <2> QED
    BY <1>2, <1>3, <2>1, <2>2
<1>10. CASE Killed(e)
  BY <1>1, <1>2, <1>10 DEF Killed, Move, NotStarted
<1> QED
  BY <1>5, <1>6, <1>7, <1>8, <1>9, <1>10

\* What is enough of a step of one execution that commits nothing.
LEMMA UncommittedKeeps ==
    ASSUME IInv, DocumentsInv, NEW e \in Executions, Step(e), documents' = documents, Standing(e)',
           \A d \in documents : d.by = e => Committed(d)',
           \A d \in act'[e].mine \ act[e].mine :
               /\ \A other : Held(other) => ~Clash(other, d) /\ ~Clash(d, other)
               /\ \A other \in act'[e].mine \ act[e].mine : d = other
    PROVE  DocumentsInv'
<1>1. \A f \in Executions \ {e} : act'[f] = act[f]
  BY OthersRest
<1>2. ASSUME NEW f \in Executions PROVE Standing(f)'
  <2>1. CASE f = e
    BY <2>1
  <2>2. CASE f # e
    <3>1. act'[f] = act[f] /\ Standing(f)
      BY <1>1, <2>2 DEF DocumentsInv
    <3> QED
      BY <3>1 DEF Standing, Stored, Row, RowOf
  <2> QED
    BY <2>1, <2>2
<1>3. ASSUME NEW d \in documents' PROVE Committed(d)'
  BY <1>1 DEF DocumentsInv, Committed
<1>4. ASSUME NEW d, NEW other, Held(d)', Held(other)', Clash(d, other) PROVE d = other
  <2>1. \A c : Held(c)' => Held(c) \/ c \in act'[e].mine \ act[e].mine
    BY <1>1 DEF Held
  <2>2. Clash(d, other)
    BY <1>4 DEF Clash
  <2>3. CASE Held(d) /\ Held(other)
    BY <2>2, <2>3 DEF DocumentsInv
  <2>4. CASE d \in act'[e].mine \ act[e].mine
    BY <1>4, <2>1, <2>2, <2>4
  <2>5. CASE other \in act'[e].mine \ act[e].mine
    BY <1>4, <2>1, <2>2, <2>5
  <2> QED
    BY <1>4, <2>1, <2>3, <2>4, <2>5
<1> QED
  BY <1>2, <1>3, <1>4 DEF DocumentsInv, Clash

\* An execution begins with a list of articles of which none is stored.
LEMMA CollectKeepsDocuments ==
    ASSUME IInv, DocumentsInv, NEW e \in Executions, Collect(e)
    PROVE  DocumentsInv'
<1>1. /\ DOMAIN act = Executions /\ DOMAIN act[e] = DOMAIN NotStarted /\ Standing(e)
      /\ act[e].pc = "collect" /\ documents' = documents /\ act[e].mine = {} /\ act[e].next = 1
  BY DEF IInv, Account, DocumentsInv, Collect, At, Standing, database
<1>2. \A d \in documents : d.by # e
  BY <1>1 DEF DocumentsInv, Committed
<1>3. ASSUME Answer(e, "AllProvidersFailedError")
      PROVE  act'[e].mine = {} /\ Standing(e)'
  <2>1. act'[e].mine = {} /\ act'[e].pc = "over"
    BY <1>1, <1>3 DEF Answer, Move, NotStarted
  <2> QED
    BY <2>1 DEF Standing
<1>4. ASSUME NEW articles, e \in CommandLine, Len(articles) \in Nat, DOMAIN articles = 1 .. Len(articles),
             Move(e, [act[e] EXCEPT !.pc = "lookup", !.articles = articles])
      PROVE  act'[e].mine = {} /\ Standing(e)'
  <2>1. act'[e].mine = {} /\ act'[e].pc = "lookup" /\ act'[e].articles = articles /\ act'[e].next = 1
    BY <1>1, <1>4 DEF Move, NotStarted
  <2>2. \A n \in DOMAIN articles : ~(n < 1)
    BY <1>4
  <2> QED
    BY <1>4, <2>1, <2>2 DEF Standing
<1>5. ASSUME NEW articles, NEW filter, e \notin CommandLine,
             Move(e, [act[e] EXCEPT !.pc = "snapshot", !.articles = articles, !.filter = filter])
      PROVE  act'[e].mine = {} /\ Standing(e)'
  <2>1. act'[e].mine = {} /\ act'[e].pc = "snapshot"
    BY <1>1, <1>5 DEF Move, NotStarted
  <2> QED
    BY <1>5, <2>1 DEF Standing
<1>6. act'[e].mine = {} /\ Standing(e)'
  <2>1. CASE e \in CommandLine
    <3>1. PICK answers \in Answers(e) :
             LET posts == CollectPosts(Asked[e], answers, Limit)
             IN  IF posts = None THEN Answer(e, "AllProvidersFailedError")
                 ELSE Move(e, [act[e] EXCEPT !.pc = "lookup", !.articles = ToArticles(posts)])
      BY <2>1 DEF Collect
    <3>2. LET posts == CollectPosts(Asked[e], answers, Limit)
          IN  posts # None => /\ Len(ToArticles(posts)) \in Nat
                              /\ DOMAIN ToArticles(posts) = 1 .. Len(ToArticles(posts))
      BY CollectedListed, ListIsSeq, ExecutionsAssumption
    <3> QED
      BY <1>3, <1>4, <2>1, <3>1, <3>2
  <2>2. CASE e \notin CommandLine
    BY <1>3, <1>5, <2>2 DEF Collect
  <2> QED
    BY <2>1, <2>2
<1> QED
  BY <1>1, <1>2, <1>6, UncommittedKeeps DEF Step

\* An article that is looked up has a document, or will be inserted as the only one.
LEMMA LookupKeepsDocuments ==
    ASSUME IInv, DocumentsInv, NEW e \in Executions, LookupDocument(e)
    PROVE  DocumentsInv'
<1>1. /\ DOMAIN act = Executions /\ DOMAIN act[e] = DOMAIN NotStarted /\ Standing(e)
      /\ act[e].pc = "lookup" /\ documents' = documents /\ e \in CommandLine
  BY DEF IInv, Account, DocumentsInv, LookupDocument, At, Standing, database
<1>2. /\ act[e].next \in Nat \ {0} /\ Len(act[e].articles) \in Nat /\ DOMAIN act[e].articles = 1 .. Len(act[e].articles)
      /\ \A n \in DOMAIN act[e].articles : n < act[e].next => Stored(e, n)
  BY <1>1 DEF Standing
<1>3. \A d \in documents : d.by # e
  BY <1>1 DEF DocumentsInv, Committed
<1>4. CASE \E d \in documents \cup act[e].mine : SameDocument(d, Row(e))
  <2>1. act'[e] = [act[e] EXCEPT !.next = @ + 1]
    BY <1>1, <1>4 DEF LookupDocument, Move
  <2>2. /\ act'[e].pc = "lookup" /\ act'[e].mine = act[e].mine /\ act'[e].articles = act[e].articles
        /\ act'[e].next = act[e].next + 1
    BY <1>1, <2>1 DEF NotStarted
  <2>3. \A n : Stored(e, n)' <=> Stored(e, n)
    BY <1>1, <2>2 DEF Stored, RowOf
  <2>4. Stored(e, act[e].next)
    BY <1>4 DEF Stored, Row
  <2>5. \A n \in DOMAIN act[e].articles : n < act[e].next + 1 => Stored(e, n)
    <3>1. \A n \in DOMAIN act[e].articles : n < act[e].next + 1 => n < act[e].next \/ n = act[e].next
      BY <1>2
    <3> QED
      BY <1>2, <2>4, <3>1
  <2>6. act[e].next + 1 \in Nat \ {0, 1}
    BY <1>2
  <2>7. Standing(e)'
    BY <1>1, <1>2, <2>2, <2>3, <2>5, <2>6 DEF Standing
  <2> QED
    BY <1>1, <1>3, <2>2, <2>7, UncommittedKeeps DEF Step
<1>5. CASE ~\E d \in documents \cup act[e].mine : SameDocument(d, Row(e))
  <2>1. act'[e] = [act[e] EXCEPT !.pc = "insert"]
    BY <1>1, <1>5 DEF LookupDocument, Move
  <2>2. /\ act'[e].pc = "insert" /\ act'[e].mine = act[e].mine /\ act'[e].articles = act[e].articles
        /\ act'[e].next = act[e].next
    BY <1>1, <2>1 DEF NotStarted
  <2>3. (\A n : Stored(e, n)' <=> Stored(e, n)) /\ Row(e)' = Row(e)
    BY <1>1, <2>2 DEF Stored, Row, RowOf
  <2>4. \A d \in act[e].mine : ~Clash(d, Row(e))
    BY <1>5 DEF SameDocument
  <2>5. Standing(e)'
    BY <1>1, <1>2, <2>2, <2>3, <2>4 DEF Standing, Clash
  <2> QED
    BY <1>1, <1>3, <2>2, <2>5, UncommittedKeeps DEF Step
<1> QED
  BY <1>4, <1>5

\* An inserted row repeats none: not its own by the lookup, not those of the others, for
\* which it waits, and not those that have been committed since the lookup.
LEMMA InsertKeepsDocuments ==
    ASSUME IInv, DocumentsInv, NEW e \in Executions, InsertDocument(e)
    PROVE  DocumentsInv'
<1>1. /\ DOMAIN act = Executions /\ DOMAIN act[e] = DOMAIN NotStarted /\ Standing(e)
      /\ act[e].pc = "insert" /\ documents' = documents /\ e \in CommandLine
  BY DEF IInv, Account, DocumentsInv, InsertDocument, At, Standing, database
<1>2. /\ act[e].next \in Nat \ {0} /\ Len(act[e].articles) \in Nat
      /\ DOMAIN act[e].articles = 1 .. Len(act[e].articles)
      /\ \A n \in DOMAIN act[e].articles : n < act[e].next => Stored(e, n)
  BY <1>1 DEF Standing
<1>3. \A d \in documents : d.by # e
  BY <1>1 DEF DocumentsInv, Committed
<1>4. CASE \E d \in documents : Clash(d, Row(e))
  <2>1. Raised(e, "IntegrityError")
    BY <1>4 DEF InsertDocument
  <2>2. act'[e].mine = {} /\ act'[e].pc = "audit"
    BY <1>1, <2>1 DEF Raised, Move, NotStarted
  <2>3. Standing(e)'
    BY <2>2 DEF Standing
  <2> QED
    BY <1>1, <1>3, <2>2, <2>3, UncommittedKeeps DEF Step
<1>5. CASE ~\E d \in documents : Clash(d, Row(e))
  <2> DEFINE row == Row(e)
             rows == act[e].mine \cup {row}
  <2>1. act'[e] = [act[e] EXCEPT !.pc = "lookup", !.next = @ + 1, !.mine = @ \cup {row}]
    BY <1>1, <1>5 DEF InsertDocument, Move
  <2>2. row.by = e /\ SameDocument(row, RowOf(e, act[e].next))
    BY DEF Row, RowOf, SameDocument, Clash
  <2>3. \A other : Held(other) => ~Clash(other, row) /\ ~Clash(row, other)
    <3>1. ASSUME NEW f \in Executions, NEW other \in act[f].mine PROVE ~Clash(other, row)
      <4>1. CASE f = e
        BY <1>1, <3>1, <4>1 DEF Standing
      <4>2. CASE f # e
        <5>1. ~WaitsFor(e, f)
          BY <3>1 DEF InsertDocument
        <5> QED
          BY <1>1, <3>1, <4>2, <5>1 DEF WaitsFor, At
      <4> QED
        BY <4>1, <4>2
    <3>2. \A other : Held(other) => ~Clash(other, row)
      BY <1>5, <3>1 DEF Held
    <3>3. \A other : Clash(row, other) => Clash(other, row)
      BY DEF Clash
    <3> QED
      BY <3>2, <3>3
  <2> HIDE DEF row
  <2>4. /\ act'[e].pc = "lookup" /\ act'[e].mine = rows /\ act'[e].articles = act[e].articles
        /\ act'[e].next = act[e].next + 1
    BY <1>1, <2>1 DEF NotStarted
  <2>5. \A n : Stored(e, n) => Stored(e, n)'
    BY <1>1, <2>4 DEF Stored, RowOf
  <2>6. \A n \in DOMAIN act[e].articles : n < act[e].next + 1 => Stored(e, n)'
    <3>1. \A n \in DOMAIN act[e].articles : n < act[e].next + 1 => n < act[e].next \/ n = act[e].next
      BY <1>2
    <3>2. \A n : n = act[e].next => Stored(e, n)'
      <4>1. \A n : RowOf(e, n)' = RowOf(e, n)
        BY <2>4 DEF RowOf
      <4> QED
        BY <2>2, <2>4, <4>1 DEF Stored
    <3> QED
      BY <1>2, <2>5, <3>1, <3>2
  <2>7. act[e].next + 1 \in Nat \ {0, 1}
    BY <1>2
  <2>8. \A d \in rows : d.by = e
    BY <1>1, <2>2 DEF Standing
  <2>9. Standing(e)'
    BY <1>1, <1>2, <2>4, <2>6, <2>7, <2>8 DEF Standing
  <2>10. \A d \in rows \ act[e].mine : d = row
    OBVIOUS
  <2> QED
    BY <1>1, <1>3, <2>3, <2>4, <2>9, <2>10, UncommittedKeeps DEF Step
<1> QED
  BY <1>4, <1>5

\* The rows of a transaction become documents all together, when there is one of each article.
LEMMA CommitKeepsDocuments ==
    ASSUME IInv, DocumentsInv, NEW e \in Executions, CommitDocuments(e)
    PROVE  DocumentsInv'
<1>1. /\ DOMAIN act = Executions /\ DOMAIN act[e] = DOMAIN NotStarted /\ Standing(e)
      /\ act[e].pc = "lookup" /\ e \in CommandLine /\ act[e].next > Len(act[e].articles)
      /\ documents' = documents \cup act[e].mine
      /\ act'[e] = [act[e] EXCEPT !.pc = "work", !.mine = {}]
  BY DEF IInv, Account, DocumentsInv, CommitDocuments, At, Standing, Move
<1>2. /\ act'[e].pc = "work" /\ act'[e].mine = {} /\ act'[e].articles = act[e].articles
      /\ act'[e].next = act[e].next
  BY <1>1 DEF NotStarted
<1>3. \A f \in Executions \ {e} : act'[f] = act[f]
  BY OthersRest DEF Step
<1>4. Standing(e)'
  <2>1. \A n : Stored(e, n)' <=> Stored(e, n)
    BY <1>1, <1>2 DEF Stored, RowOf
  <2> QED
    BY <1>1, <1>2, <2>1 DEF Standing
<1>5. ASSUME NEW f \in Executions, f # e PROVE Standing(f)'
  <2>1. act'[f] = act[f] /\ Standing(f)
    BY <1>3, <1>5 DEF DocumentsInv
  <2>2. (\A n : Stored(f, n) => Stored(f, n)') /\ Row(f)' = Row(f)
    BY <1>1, <2>1 DEF Stored, Row, RowOf
  <2> QED
    BY <2>1, <2>2 DEF Standing, Clash
<1>6. ASSUME NEW d \in documents' PROVE Committed(d)'
  <2>1. CASE d \in act[e].mine
    <3>1. d.by = e
      BY <1>1, <2>1 DEF Standing
    <3> QED
      BY <1>1, <1>2, <3>1 DEF Committed
  <2>2. CASE d \in documents
    <3>1. Committed(d) /\ d.by # e
      BY <1>1, <2>2 DEF DocumentsInv, Committed
    <3> QED
      BY <1>3, <3>1 DEF Committed
  <2> QED
    BY <1>1, <1>6, <2>1, <2>2
<1>7. \A d : Held(d)' => Held(d)
  BY <1>1, <1>2, <1>3 DEF Held
<1>8. ASSUME NEW d, NEW other, Held(d)', Held(other)', Clash(d, other) PROVE d = other
  BY <1>7, <1>8 DEF DocumentsInv
<1>9. \A d, other : Clash(d, other)' <=> Clash(d, other)
  BY DEF Clash
<1> QED
  BY <1>4, <1>5, <1>6, <1>8, <1>9 DEF DocumentsInv

LEMMA DocumentsStep == IInv /\ DocumentsInv /\ [Next]_vars => DocumentsInv'
<1> SUFFICES ASSUME IInv, DocumentsInv, [Next]_vars PROVE DocumentsInv'
  OBVIOUS
<1>1. CASE UNCHANGED <<act, documents>>
  <2>1. \A e \in Executions : Standing(e)'
    BY <1>1 DEF DocumentsInv, Standing, Stored, Row, RowOf
  <2>2. \A d \in documents' : Committed(d)'
    BY <1>1 DEF DocumentsInv, Committed
  <2>3. \A d, other : Held(d)' /\ Held(other)' /\ Clash(d, other) => d = other
    BY <1>1 DEF DocumentsInv, Held
  <2> QED
    BY <2>1, <2>2, <2>3 DEF DocumentsInv, Clash
<1>2. ASSUME NEW e \in Executions, Step(e) PROVE DocumentsInv'
  <2>1. CASE StoreSnapshot(e)
    <3>1. /\ DOMAIN act = Executions /\ DOMAIN act[e] = DOMAIN NotStarted /\ Standing(e)
          /\ act[e].pc = "snapshot" /\ documents' = documents /\ act'[e] = [act[e] EXCEPT !.pc = "work"]
      BY <2>1 DEF IInv, Account, DocumentsInv, StoreSnapshot, At, Move
    <3>2. /\ act'[e].pc = "work" /\ act'[e].mine = {} /\ act'[e].articles = act[e].articles
          /\ act'[e].next = act[e].next
      BY <3>1 DEF NotStarted, Standing
    <3>3. Standing(e)'
      BY <3>1, <3>2 DEF Standing
    <3>4. \A d \in documents : d.by = e => Committed(d)'
      BY <3>2 DEF DocumentsInv, Committed
    <3> QED
      BY <1>2, <3>1, <3>2, <3>3, <3>4, UncommittedKeeps
  <2>2. CASE ~(Collect(e) \/ StoreSnapshot(e) \/ LookupDocument(e) \/ InsertDocument(e) \/ CommitDocuments(e))
    <3>1. /\ documents' = documents
          /\ act'[e].mine = {} /\ act'[e].articles = act[e].articles /\ act'[e].next = act[e].next
          /\ act'[e].pc \in {"audit", "open", "write", "alert", "over"}
      BY <1>2, <2>2, PassesBy DEF Step
    <3>2. Standing(e)'
      BY <3>1 DEF Standing
    <3>3. \A d \in documents : d.by = e => Committed(d)'
      BY <3>1 DEF DocumentsInv, Committed
    <3> QED
      BY <1>2, <3>1, <3>2, <3>3, UncommittedKeeps
  <2> QED
    BY <2>1, <2>2, CollectKeepsDocuments, LookupKeepsDocuments, InsertKeepsDocuments, CommitKeepsDocuments
<1>3. RotationBegins \/ RenameLog \/ RotationEnds \/ AllOver \/ UNCHANGED vars => UNCHANGED <<act, documents>>
  BY DEF RotationBegins, RenameLog, RotationEnds, AllOver, vars, database
<1> QED
  BY <1>1, <1>2, <1>3 DEF Next

LEMMA DocumentsInit == Init => DocumentsInv
<1> SUFFICES ASSUME Init PROVE DocumentsInv
  OBVIOUS
<1>1. documents = {} /\ \A e \in Executions : act[e].pc = "collect" /\ act[e].mine = {} /\ act[e].next = 1
  BY DEF Init, NotStarted
<1> QED
  BY <1>1 DEF DocumentsInv, Standing, Held

\* Whatever others store at the same time, a command-line execution works with a document
\* of each of its articles, all of its own or none are there, and none is there twice
\* (harness_adapter.py).
THEOREM DocumentsAreRecorded == Spec => []DocumentsRecorded
<1>1. ASSUME IInv, DocumentsInv PROVE DocumentsRecorded
  <2>1. ASSUME NEW e \in CommandLine, At(e, "work"), NEW n \in DOMAIN act[e].articles
        PROVE  \E d \in documents : SameDocument(d, RowOf(e, n))
    <3>1. e \in Executions /\ act[e].pc = "work"
      BY <2>1, ExecutionsAssumption DEF At
    <3>2. Standing(e) /\ act[e].mine = {}
      BY <1>1, <3>1 DEF DocumentsInv, Standing
    <3>3. n < act[e].next
      BY <2>1, <3>1, <3>2 DEF Standing
    <3> QED
      BY <2>1, <3>1, <3>2, <3>3 DEF Standing, Stored
  <2>2. ASSUME NEW d \in documents
        PROVE  /\ act[d.by].next > Len(act[d.by].articles)
               /\ \A other \in documents : Clash(d, other) => d = other
    BY <1>1 DEF DocumentsInv, Committed, Held
  <2> QED
    BY <2>1, <2>2 DEF DocumentsRecorded
<1> QED
  BY <1>1, DocumentsInit, DocumentsStep, Invariant, PTL DEF Spec

----------------------------------------------------------------------------
(* The input of an execution, and its type.                                     *)

Counted(snapshot, articles) ==
    /\ snapshot.accepted = Len(articles)
    /\ snapshot.collected = snapshot.accepted + snapshot.theme + snapshot.topic

\* Where an execution stands in its input; the snapshot it has counts what it reads.
Reading(e) ==
    /\ IsList(act[e].articles) /\ act[e].next \in 1 .. Len(act[e].articles) + 1
    /\ act[e].pc = "insert" => act[e].next <= Len(act[e].articles)
    /\ e \notin CommandLine =>
          /\ act[e].pc = "snapshot" => Counted(act[e].filter, act[e].articles)
          /\ act[e].pc = "work" => Counted(snapshots[e], act[e].articles)

InputsInv ==
    /\ DOMAIN snapshots = Executions /\ faults \in 0 .. MaxFaults
    /\ \A e \in Executions : Reading(e)

LEMMA ShareTyped ==
    ASSUME NEW n \in Nat, NEW k \in Nat \ {0}
    PROVE  (n + k - 1) \div k \in Nat
<1>1. n + k - 1 \in Nat
  OBVIOUS
<1> QED
  BY <1>1

LEMMA CollectReads ==
    ASSUME IInv, DocumentsInv, NEW e \in Executions, Collect(e), Reading(e)
    PROVE  Reading(e)'
<1>1. /\ DOMAIN act = Executions /\ DOMAIN act[e] = DOMAIN NotStarted
      /\ act[e].next = 1
  BY DEF IInv, Account, DocumentsInv, Standing, Collect, At
<1>2. ASSUME NEW outcome, Answer(e, outcome) PROVE Reading(e)'
  <2>1. /\ act'[e].pc = "over" /\ act'[e].articles = act[e].articles /\ act'[e].next = act[e].next
    BY <1>1, <1>2 DEF Answer, Move, NotStarted
  <2> QED
    BY <2>1 DEF Reading
<1>3. ASSUME NEW articles, IsList(articles), Move(e, [act[e] EXCEPT !.pc = "lookup", !.articles = articles])
      PROVE  Reading(e)'
  <2>1. act'[e].pc = "lookup" /\ act'[e].articles = articles /\ act'[e].next = 1
    BY <1>1, <1>3 DEF Move, NotStarted
  <2>2. Len(articles) \in Nat
    BY <1>3, ListIsSeq
  <2> QED
    BY <1>3, <2>1, <2>2 DEF Reading
<1>4. ASSUME NEW articles, NEW filter, IsList(articles), Counted(filter, articles),
             Move(e, [act[e] EXCEPT !.pc = "snapshot", !.articles = articles, !.filter = filter])
      PROVE  Reading(e)'
  <2>1. act'[e].pc = "snapshot" /\ act'[e].articles = articles /\ act'[e].next = 1 /\ act'[e].filter = filter
    BY <1>1, <1>4 DEF Move, NotStarted
  <2>2. Len(articles) \in Nat
    BY <1>4, ListIsSeq
  <2> QED
    BY <1>4, <2>1, <2>2 DEF Reading, Counted
<1> DEFINE limit == IF e \in CommandLine THEN Limit ELSE PerSource(Limit, Asked[e])
<1>5. limit \in Nat
  <2>1. Limit \in Nat \ {0} /\ Asked[e] \in Seq(Sources) /\ Asked[e] # <<>>
    BY ExecutionsAssumption
  <2>2. Len(Asked[e]) \in Nat \ {0}
    BY <2>1, EmptySeq
  <2>3. PerSource(Limit, Asked[e]) \in Nat
    BY <2>1, <2>2, ShareTyped DEF PerSource
  <2> QED
    BY <2>1, <2>3
<1>6. PICK answers \in Answers(e) :
         LET posts == CollectPosts(Asked[e], answers, limit)
         IN  IF posts = None THEN Answer(e, "AllProvidersFailedError")
             ELSE IF e \in CommandLine
             THEN Move(e, [act[e] EXCEPT !.pc = "lookup", !.articles = ToArticles(posts)])
             ELSE LET articles == ToArticles(FirstOf(posts, Limit))
                  IN  Move(e, [act[e] EXCEPT !.pc = "snapshot", !.articles = Filtered(articles, Filter),
                                             !.filter = Snapshot(articles, Filter)])
  BY DEF Collect
<1> HIDE DEF limit
<1> DEFINE posts == CollectPosts(Asked[e], answers, limit)
           articles == ToArticles(FirstOf(posts, Limit))
<1>7. CASE posts = None
  BY <1>2, <1>6, <1>7
<1>8. CASE posts # None /\ e \in CommandLine
  <2>1. IsList(ToArticles(posts))
    BY <1>5, <1>8, CollectedListed
  <2> QED
    BY <1>3, <1>6, <1>8, <2>1
<1>9. CASE posts # None /\ e \notin CommandLine
  <2>1. IsList(articles)
    BY <1>5, <1>9, CollectedListed
  <2>2. Move(e, [act[e] EXCEPT !.pc = "snapshot", !.articles = Filtered(articles, Filter),
                               !.filter = Snapshot(articles, Filter)])
    BY <1>6, <1>9
  <2> HIDE DEF articles
  <2>3. IsList(Filtered(articles, Filter)) /\ Counted(Snapshot(articles, Filter), Filtered(articles, Filter))
    BY <2>1, SnapshotBalances DEF Counted
  <2> QED
    BY <1>4, <2>2, <2>3
<1> QED
  BY <1>7, <1>8, <1>9

LEMMA StepReads ==
    ASSUME IInv, DocumentsInv, InputsInv, NEW e \in Executions, Step(e)
    PROVE  /\ Reading(e)' /\ faults' \in 0 .. MaxFaults /\ DOMAIN snapshots' = Executions
           /\ \A f \in Executions \ {e} : snapshots'[f] = snapshots[f]
<1>1. /\ DOMAIN act = Executions /\ DOMAIN act[e] = DOMAIN NotStarted /\ Standing(e) /\ Reading(e)
      /\ DOMAIN snapshots = Executions
  BY DEF IInv, Account, DocumentsInv, InputsInv
<1>2. faults' \in 0 .. MaxFaults
  <2>1. faults' = faults \/ Fault(e)
    BY DEF Step, Collect, StoreSnapshot, SetUpFails, LookupDocument, InsertDocument, BreakDeadlock,
       CommitDocuments, DatabaseFails, Work, StoreAudit, AuditFails, OpenLog, WriteLog, LogFails, DeliverAlerts,
       Killed
  <2>2. MaxFaults \in Nat /\ faults \in 0 .. MaxFaults
    BY ExecutionsAssumption DEF InputsInv
  <2> QED
    BY <2>1, <2>2 DEF Fault
<1>3. StoreSnapshot(e) \/ snapshots' = snapshots
  BY DEF Step, Collect, StoreSnapshot, SetUpFails, LookupDocument, InsertDocument, BreakDeadlock,
     CommitDocuments, DatabaseFails, Work, StoreAudit, AuditFails, OpenLog, WriteLog, LogFails, DeliverAlerts,
     Killed, database
<1>4. StoreSnapshot(e) => snapshots' = [snapshots EXCEPT ![e] = act[e].filter]
  BY DEF StoreSnapshot
<1>5. Reading(e)'
  <2>1. CASE Collect(e)
    BY <1>1, <2>1, CollectReads
  <2>2. CASE StoreSnapshot(e)
    <3>1. act'[e] = [act[e] EXCEPT !.pc = "work"] /\ act[e].pc = "snapshot" /\ e \notin CommandLine
      BY <1>1, <2>2 DEF StoreSnapshot, Move, At, Standing
    <3>2. /\ act'[e].pc = "work" /\ act'[e].articles = act[e].articles /\ act'[e].next = act[e].next
          /\ snapshots'[e] = act[e].filter
      BY <1>1, <1>4, <2>2, <3>1 DEF NotStarted
    <3> QED
      BY <1>1, <3>1, <3>2 DEF Reading, Counted
  <2>3. CASE LookupDocument(e)
    <3>1. act[e].next <= Len(act[e].articles) /\ act[e].pc = "lookup"
      BY <2>3 DEF LookupDocument, At
    <3> DEFINE seen == [act[e] EXCEPT !.next = @ + 1]
               new == [act[e] EXCEPT !.pc = "insert"]
    <3>2. act'[e] = seen \/ act'[e] = new
      BY <1>1, <2>3 DEF LookupDocument, Move
    <3>3. /\ seen.pc = "lookup" /\ seen.articles = act[e].articles /\ seen.next = act[e].next + 1
          /\ new.pc = "insert" /\ new.articles = act[e].articles /\ new.next = act[e].next
      BY <1>1, <3>1 DEF NotStarted
    <3> HIDE DEF seen, new
    <3>4. Len(act[e].articles) \in Nat
      BY <1>1, ListIsSeq DEF Reading
    <3>5. CASE act'[e] = seen
      BY <1>1, <3>1, <3>3, <3>4, <3>5 DEF Reading
    <3>6. CASE act'[e] = new
      BY <1>1, <3>1, <3>3, <3>4, <3>6 DEF Reading
    <3> QED
      BY <3>2, <3>5, <3>6
  <2>4. CASE InsertDocument(e)
    <3> DEFINE row == Row(e)
               done == [act[e] EXCEPT !.pc = "lookup", !.next = @ + 1, !.mine = @ \cup {row}]
               lost == [act[e] EXCEPT !.pc = "audit", !.mine = {}, !.end = "IntegrityError"]
    <3>1. act[e].pc = "insert"
      BY <2>4 DEF InsertDocument, At
    <3>2. act'[e] = done \/ act'[e] = lost
      BY <1>1, <2>4 DEF InsertDocument, Raised, Move
    <3> HIDE DEF row
    <3>3. /\ done.pc = "lookup" /\ done.articles = act[e].articles /\ done.next = act[e].next + 1
          /\ lost.pc = "audit" /\ lost.articles = act[e].articles /\ lost.next = act[e].next
      BY <1>1 DEF NotStarted
    <3> HIDE DEF done, lost
    <3>4. Len(act[e].articles) \in Nat
      BY <1>1, ListIsSeq DEF Reading
    <3>5. CASE act'[e] = done
      BY <1>1, <3>1, <3>3, <3>4, <3>5 DEF Reading
    <3>6. CASE act'[e] = lost
      BY <1>1, <3>1, <3>3, <3>4, <3>6 DEF Reading
    <3> QED
      BY <3>2, <3>5, <3>6
  <2>5. CASE CommitDocuments(e)
    <3>1. e \in CommandLine
      BY <1>1, <2>5 DEF CommitDocuments, At, Standing
    <3>2. act'[e].pc = "work" /\ act'[e].articles = act[e].articles /\ act'[e].next = act[e].next
      BY <1>1, <2>5 DEF CommitDocuments, Move, NotStarted
    <3> QED
      BY <1>1, <3>1, <3>2 DEF Reading
  <2>6. CASE ~(Collect(e) \/ StoreSnapshot(e) \/ LookupDocument(e) \/ InsertDocument(e) \/ CommitDocuments(e))
    <3>1. /\ act'[e].articles = act[e].articles /\ act'[e].next = act[e].next
          /\ act'[e].pc \in {"audit", "open", "write", "alert", "over"}
      BY <2>6, PassesBy DEF Step
    <3> QED
      BY <1>1, <3>1 DEF Reading
  <2> QED
    BY <2>1, <2>2, <2>3, <2>4, <2>5, <2>6
<1> QED
  BY <1>1, <1>2, <1>3, <1>4, <1>5

LEMMA InputsStep == IInv /\ DocumentsInv /\ InputsInv /\ [Next]_vars => InputsInv'
<1> SUFFICES ASSUME IInv, DocumentsInv, InputsInv, [Next]_vars PROVE InputsInv'
  OBVIOUS
<1>1. CASE UNCHANGED <<act, snapshots, faults>>
  BY <1>1 DEF InputsInv, Reading, Counted
<1>2. ASSUME NEW e \in Executions, Step(e) PROVE InputsInv'
  <2>1. ASSUME NEW f \in Executions, f # e PROVE Reading(f)'
    <3>1. act'[f] = act[f] /\ snapshots'[f] = snapshots[f]
      BY <1>2, <2>1, OthersRest, StepReads
    <3> QED
      BY <3>1 DEF InputsInv, Reading, Counted
  <2> QED
    BY <1>2, <2>1, StepReads DEF InputsInv
<1>3. RotationBegins \/ RenameLog \/ RotationEnds \/ AllOver \/ UNCHANGED vars => UNCHANGED <<act, snapshots, faults>>
  BY DEF RotationBegins, RenameLog, RotationEnds, AllOver, vars, database
<1> QED
  BY <1>1, <1>2, <1>3 DEF Next

LEMMA InputsInit == Init => InputsInv
<1> SUFFICES ASSUME Init PROVE InputsInv
  OBVIOUS
<1>1. /\ \A e \in Executions : act[e].pc = "collect" /\ act[e].articles = <<>> /\ act[e].next = 1
      /\ DOMAIN snapshots = Executions /\ faults = 0 /\ MaxFaults \in Nat
  BY ExecutionsAssumption DEF Init, NotStarted
<1> QED
  BY <1>1, EmptyIsList DEF InputsInv, Reading

LEMMA StoryInvariant == Spec => [](IInv /\ FilesInv /\ DocumentsInv /\ InputsInv)
BY InitInv, StepInv, FilesInit, FilesStep, DocumentsInit, DocumentsStep, InputsInit, InputsStep, PTL DEF Spec

\* The state of the executions, the log and the rotation is typed.
THEOREM TypeCorrect == Spec => []TypeOK
<1>1. ASSUME FilesInv, DocumentsInv, InputsInv PROVE TypeOK
  <2>1. \A e \in Executions :
           /\ act[e].next \in 1 .. Len(act[e].articles) + 1
           /\ act[e].pc = "write" => act[e].file \in DOMAIN files
           /\ act[e].mine # {} => act[e].pc \in {"lookup", "insert"}
    BY <1>1 DEF FilesInv, Pending, DocumentsInv, Standing, InputsInv, Reading
  <2>2. /\ active \in DOMAIN files \cup {None}
        /\ \A t \in DOMAIN archives : archives[t] \in DOMAIN files
    BY <1>1 DEF FilesInv, Shelf, Logs
  <2> QED
    BY <1>1, <2>1, <2>2 DEF TypeOK, FilesInv, Shelf, InputsInv
<1> QED
  BY <1>1, StoryInvariant, PTL

\* Before the workflow of an execution starts, its input is on record: its documents, or
\* the snapshot of a dashboard run (web/app.py), which counts what the workflow gets and
\* what the filter left out.
THEOREM InputsAreRecorded == Spec => []InputsRecorded
<1>1. ASSUME InputsInv, DocumentsRecorded PROVE InputsRecorded
  BY <1>1 DEF InputsInv, InputsRecorded, Reading, Counted, At
<1> QED
  BY <1>1, StoryInvariant, DocumentsAreRecorded, PTL
----------------------------------------------------------------------------
(* The metrics of the logs: a line and its execution are matched.               *)

\* A line was written by one of the executions.
Ours == \A f, n, d : Has(f, n, d) => d \in Executions

LEMMA OursStep == IInv /\ FilesInv /\ Ours /\ [Next]_vars => Ours'
<1> SUFFICES ASSUME IInv, FilesInv, Ours, [Next]_vars PROVE Ours'
  OBVIOUS
<1>1. CASE files' = files
  BY <1>1 DEF Ours, Has
<1>2. CASE RotationBegins \/ RenameLog \/ RotationEnds
  <2>1. SameLines
    BY <1>2, RotationKeepsShelf DEF FilesInv
  <2> QED
    BY <2>1 DEF Ours, SameLines
<1>3. ASSUME NEW e \in Executions, Step(e), ~WriteLog(e) PROVE Ours'
  <2>1. SameLines
    BY <1>3, StepFiles DEF FilesInv
  <2> QED
    BY <2>1 DEF Ours, SameLines
<1>4. ASSUME NEW e \in Executions, WriteLog(e) PROVE Ours'
  <2>1. Shelf /\ Pending(e)
    BY <1>4 DEF FilesInv
  <2>2. PICK f, n : \A g, m, d : Has(g, m, d)' <=> Has(g, m, d) \/ (g = f /\ m = n /\ d = e)
    BY <1>4, <2>1, WriteAddsLine
  <2> QED
    BY <1>4, <2>2 DEF Ours
<1>5. AllOver \/ UNCHANGED vars => files' = files
  BY DEF AllOver, vars, log
<1> QED
  BY <1>1, <1>2, <1>3, <1>4, <1>5 DEF Next

LEMMA OursInit == Init => Ours
<1> SUFFICES ASSUME Init PROVE Ours
  OBVIOUS
<1>1. DOMAIN files = {}
  BY DEF Init
<1> QED
  BY <1>1 DEF Ours, Has

Logged == {e \in Executions : act[e].logged}
Writer == [p \in DOMAIN Lines |-> Lines[p].execution]

\* Each line is the audit of the logged execution that wrote it, and the only one.
LEMMA LinesMatch ==
    ASSUME IInv, FilesInv, Ours
    PROVE  /\ IsFiniteSet(DOMAIN Lines) /\ Writer \in Bijection(DOMAIN Lines, Logged)
           /\ \A p \in DOMAIN Lines : Lines[p] = Audit(Writer[p]) /\ Lines[p] = audits[Writer[p]]
<1> DEFINE places == [f \in DOMAIN files |-> DOMAIN files[f]]
<1>1. PICK lines : files \in Seq(Seq(lines))
  BY DEF FilesInv, Shelf
<1>2. Logs = DOMAIN files
  BY DEF FilesInv, Shelf
<1>3. IsFiniteSet(DOMAIN files)
  <2>1. PICK N \in Nat : DOMAIN files = 1 .. N
    BY <1>1
  <2> QED
    BY <2>1, UpTo
<1>4. ASSUME NEW f \in DOMAIN files PROVE IsFiniteSet(places[f])
  <2>1. files[f] \in Seq(lines)
    BY <1>1
  <2>2. PICK N \in Nat : DOMAIN files[f] = 1 .. N
    BY <2>1
  <2> QED
    BY <2>2, UpTo
<1>5. DOMAIN Lines = UNION {{f} \X places[f] : f \in DOMAIN files}
  BY <1>2 DEF Lines
<1> HIDE DEF places
<1>6. IsFiniteSet(DOMAIN Lines)
  BY <1>3, <1>4, <1>5, PairsFinite
<1>7. \A f, n : <<f, n>> \in DOMAIN Lines <=> f \in DOMAIN files /\ n \in DOMAIN files[f]
  BY <1>2 DEF Lines
<1>8. \A p \in DOMAIN Lines : \E f, n : p = <<f, n>> /\ f \in DOMAIN files /\ n \in DOMAIN files[f]
  BY <1>2 DEF Lines
<1>9. \A f, n : <<f, n>> \in DOMAIN Lines => Lines[<<f, n>>] = files[f][n]
  BY DEF Lines
<1>10. ASSUME NEW p \in DOMAIN Lines
       PROVE  /\ Writer[p] \in Logged /\ Lines[p] = Audit(Writer[p]) /\ Lines[p] = audits[Writer[p]]
              /\ \A q \in DOMAIN Lines : Writer[q] = Writer[p] => q = p
  <2>1. PICK f, n : p = <<f, n>> /\ f \in DOMAIN files /\ n \in DOMAIN files[f]
    BY <1>8
  <2>2. PICK e : e = Writer[p] /\ e = files[f][n].execution
    BY <1>9, <2>1 DEF Writer
  <2>3. Has(f, n, e)
    BY <2>1, <2>2 DEF Has
  <2>4. e \in Executions
    BY <2>3 DEF Ours
  <2>5. act[e].logged
    BY <2>3, <2>4 DEF FilesInv, Filed
  <2>6. files[f][n] = Audit(e) /\ \A g, m : Has(g, m, e) => g = f /\ m = n
    BY <2>3, <2>4, <2>5 DEF FilesInv, Filed
  <2>7. audits[e] = Audit(e)
    BY <2>4, <2>5 DEF IInv, Account, Recorded
  <2>8. ASSUME NEW q \in DOMAIN Lines, Writer[q] = e PROVE q = p
    <3>1. PICK g, m : q = <<g, m>> /\ g \in DOMAIN files /\ m \in DOMAIN files[g]
      BY <1>8
    <3>2. Has(g, m, e)
      BY <1>9, <2>8, <3>1 DEF Has, Writer
    <3> QED
      BY <2>1, <2>6, <3>1, <3>2
  <2> QED
    BY <1>9, <2>1, <2>2, <2>4, <2>5, <2>6, <2>7, <2>8 DEF Logged
<1>11. ASSUME NEW e \in Logged PROVE \E p \in DOMAIN Lines : Writer[p] = e
  <2>1. e \in Executions /\ act[e].logged
    BY <1>11 DEF Logged
  <2>2. PICK f, n : Has(f, n, e)
    BY <2>1 DEF FilesInv, Filed
  <2>3. <<f, n>> \in DOMAIN Lines /\ Writer[<<f, n>>] = e
    BY <1>7, <1>9, <2>2 DEF Has, Writer
  <2> QED
    BY <2>3
<1>12. Writer \in [DOMAIN Lines -> Logged]
  BY <1>10 DEF Writer
<1>13. Writer \in Bijection(DOMAIN Lines, Logged)
  BY <1>10, <1>11, <1>12 DEF Bijection, Injection, Surjection, IsInjective
<1> QED
  BY <1>6, <1>10, <1>13

\* The metrics of the logs an operator finds are those of the executions that were logged:
\* none is lost, counted twice or counted as what it was not (retention.py,
\* execution_audit.py).
THEOREM RecordsAreKept == Spec => []RecordsKept
<1>1. ASSUME IInv, FilesInv, InputsInv, Ours, LinesFound PROVE RecordsKept
  <2> DEFINE succeeded == {e \in Logged : audits[e].status = "succeeded"}
             good == {p \in DOMAIN Lines : Lines[p].status = "succeeded"}
             counted == [p \in DOMAIN Lines |-> 1 .. Lines[p].articles]
             read == [e \in Logged |-> DOMAIN act[e].articles]
  <2>1. /\ IsFiniteSet(DOMAIN Lines) /\ Writer \in Bijection(DOMAIN Lines, Logged)
        /\ \A p \in DOMAIN Lines : Lines[p] = Audit(Writer[p]) /\ Lines[p] = audits[Writer[p]]
    BY <1>1, LinesMatch
  <2>2. \A p \in DOMAIN Lines : Writer[p] \in Logged
    BY <2>1 DEF Bijection, Injection
  <2>3. Cardinality(DOMAIN Lines) = Cardinality(Logged)
    BY <2>1, FS_Bijection DEF ExistsBijection
  <2>4. Cardinality(good) = Cardinality(succeeded)
    <3>1. \A p \in DOMAIN Lines : p \in good <=> Writer[p] \in succeeded
      BY <2>1, <2>2
    <3>2. good \in SUBSET DOMAIN Lines /\ succeeded \in SUBSET Logged
      OBVIOUS
    <3> HIDE DEF good, succeeded
    <3> QED
      BY <2>1, <3>1, <3>2, PartMatches
  <2>5. Cardinality(UNION {{p} \X counted[p] : p \in DOMAIN Lines})
            = Cardinality(UNION {{e} \X read[e] : e \in Logged})
    <3>1. ASSUME NEW p \in DOMAIN Lines PROVE IsFiniteSet(counted[p]) /\ read[Writer[p]] = counted[p]
      <4>1. PICK e \in Executions : e = Writer[p] /\ e \in Logged
        BY <2>2 DEF Logged
      <4>2. IsList(act[e].articles)
        BY <1>1 DEF InputsInv, Reading
      <4>3. PICK N \in Nat : N = Len(act[e].articles) /\ DOMAIN act[e].articles = 1 .. N
        BY <4>2, ListIsSeq
      <4>4. Lines[p].articles = N
        BY <2>1, <4>1, <4>3 DEF Audit
      <4>5. read[Writer[p]] = 1 .. N /\ counted[p] = 1 .. N
        BY <4>1, <4>3, <4>4
      <4> QED
        BY <4>5, UpTo
    <3> HIDE DEF counted, read
    <3> QED
      BY <2>1, <3>1, PairsMatch
  <2>6. UNION {{p} \X counted[p] : p \in DOMAIN Lines} = UNION {{p} \X (1 .. Lines[p].articles) : p \in DOMAIN Lines}
    OBVIOUS
  <2>7. UNION {{e} \X read[e] : e \in Logged} = UNION {{e} \X DOMAIN act[e].articles : e \in Logged}
    OBVIOUS
  <2> HIDE DEF succeeded, counted, read
  <2>8. /\ Metrics(Lines).total = Cardinality(DOMAIN Lines) /\ Metrics(Lines).succeeded = Cardinality(good)
        /\ Metrics(Lines).articles = Cardinality(UNION {{p} \X (1 .. Lines[p].articles) : p \in DOMAIN Lines})
    BY DEF Metrics
  <2> HIDE DEF good
  <2> QED
    BY <1>1, <2>3, <2>4, <2>5, <2>6, <2>7, <2>8 DEF RecordsKept, Logged, succeeded
<1>2. Spec => []Ours
  BY StoryInvariant, OursInit, OursStep, PTL DEF Spec
<1> QED
  BY <1>1, <1>2, StoryInvariant, LinesAreFound, PTL
=============================================================================
