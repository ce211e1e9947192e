-------------------------- MODULE DashboardRun_proofs --------------------------
(***************************************************************************)
(* Proofs about DashboardRun, for any number of runs, recovery delays,     *)
(* nodes, heartbeats and faults.                                           *)
(***************************************************************************)
EXTENDS DashboardRun, SequenceTheorems, TLAPS

USE RunAssumption, PageAssumption

----------------------------------------------------------------------------
(* The invariant *)

\* What start and recover are waiting for, and the state of the closure then.
PageShape ==
    /\ page.at # "rest" => page.status = "running" /\ ~page.terminal
    /\ page.at \in {"posting", "posted"} => page.attempt = 0
    /\ page.at \in {"posted", "streaming", "asking", "pausing"} => page.run \in Runs
    /\ page.at = "pausing" => page.attempt < Retries
    /\ page.status = "completed" => page.run \in Runs

\* The answer 200 is only given after the completed event.
ReplyIsReal == page.at = "asking" /\ page.reply = "200" => EndedAs(page.run, "completed")

\* Events on their way to the page are later than those it has shown.
WireAhead ==
    /\ \A r \in Runs : seen[r] <= taken[r] /\ taken[r] <= Len(log[r])
    /\ \A r \in Runs, a \in Attempts :
          stream[r][a].open =>
              \A i \in stream[r][a].wire : seen[r] < i /\ i <= taken[r]

IInv ==
    /\ TypeOK /\ TerminalEventAnswered /\ CompletionShownIsReal /\ OneOpenSource
    /\ PageShape /\ ReplyIsReal /\ WireAhead

\* Why a lookup fails, and which streams were opened.
FailureShape ==
    /\ FailureHasCause
    /\ page.run # NoRun => phase[page.run] # "absent"
    /\ page.at = "asking" => /\ page.reply = "500" => EndedAs(page.run, "failed")
                             /\ page.reply = "404" => phase[page.run] = "lost"
    /\ page.at \in {"streaming", "asking", "pausing"} =>
          \A a \in 0 .. page.attempt : stream[page.run][a].server # "none"

----------------------------------------------------------------------------
(* The events of a run *)

\* The log of r was extended by the events new.
Appended(r, new) ==
    /\ log' \in [Runs -> Seq(Events)]
    /\ Len(log'[r]) = Len(log[r]) + Len(new)
    /\ \A s \in Runs : s # r => log'[s] = log[s]
    /\ \A i \in DOMAIN log[r] : i \in DOMAIN log'[r] /\ log'[r][i] = log[r][i]
    /\ \A i \in DOMAIN new : /\ Len(log[r]) + i \in DOMAIN log'[r]
                             /\ log'[r][Len(log[r]) + i] = new[i]
    /\ \A i \in DOMAIN log'[r] : \/ i \in DOMAIN log[r]
                                 \/ \E j \in DOMAIN new : i = Len(log[r]) + j

\* What appending events to the log of a run does to it (_emit).
LEMMA AppendedLog ==
    ASSUME log \in [Runs -> Seq(Events)], NEW r \in Runs, NEW new \in Seq(Events),
           log' = [log EXCEPT ![r] = @ \o new]
    PROVE  Appended(r, new)
<1> DEFINE s == log[r]
<1>1. s \in Seq(Events) /\ log'[r] = s \o new
  OBVIOUS
<1>2. /\ s \o new \in Seq(Events)
      /\ Len(s \o new) = Len(s) + Len(new)
      /\ DOMAIN s = 1 .. Len(s) /\ DOMAIN new = 1 .. Len(new)
      /\ DOMAIN (s \o new) = 1 .. Len(s) + Len(new)
      /\ Len(s) \in Nat /\ Len(new) \in Nat
      /\ \A i \in 1 .. Len(s) + Len(new) :
            (s \o new)[i] = IF i <= Len(s) THEN s[i] ELSE new[i - Len(s)]
  BY <1>1
<1>3. log' \in [Runs -> Seq(Events)] /\ \A t \in Runs : t # r => log'[t] = log[t]
  BY <1>1, <1>2
<1> HIDE DEF s
<1>4. \A i \in DOMAIN s : i \in DOMAIN (s \o new) /\ (s \o new)[i] = s[i]
  BY <1>2
<1>5. \A i \in DOMAIN new : /\ Len(s) + i \in DOMAIN (s \o new)
                            /\ (s \o new)[Len(s) + i] = new[i]
  BY <1>2
<1>6. \A i \in DOMAIN (s \o new) : i \in DOMAIN s \/ \E j \in DOMAIN new : i = Len(s) + j
  <2> SUFFICES ASSUME NEW i \in 1 .. Len(s) + Len(new), ~(i \in 1 .. Len(s))
               PROVE  \E j \in 1 .. Len(new) : i = Len(s) + j
    BY <1>2
  <2>1. i - Len(s) \in 1 .. Len(new) /\ i = Len(s) + (i - Len(s))
    BY <1>2
  <2> QED BY <2>1
<1> QED BY <1>1, <1>2, <1>3, <1>4, <1>5, <1>6 DEF s, Appended

\* A step of the task of a run: the phase it leaves is one of a live task, and
\* a terminal event is emitted exactly when the run ends with that outcome.
TaskStep(r, q, new) ==
    /\ Advance(r, phase[r], q, new)
    /\ phase[r] \in {"absent", "started"} \cup Executing
    /\ new \in Seq(Events)
    /\ \/ q \in {"started"} \cup Executing /\ \A i \in DOMAIN new : new[i].type \notin TerminalTypes
       \/ q \in TerminalTypes /\ new # <<>> /\ Len(new) = 1 /\ \A i \in DOMAIN new : new[i].type = q

\* An event made from its type alone is an event of that type.
LEMMA EventTyped ==
    \A type \in EventTypes \ {"workflow"} : Event(type) \in Events /\ Event(type).type = type
  BY DEF Event, Events

\* Every action of a run's task, its heartbeat and its creation is a TaskStep.
LEMMA TaskSteps ==
    ASSUME RunsTypeOK, NEW r \in Runs, CreateRun(r) \/ RunStep(r) \/ Heartbeat(r)
    PROVE  \E q \in Phases : \E new \in Seq(Events) : TaskStep(r, q, new)
<1> USE DEF Phases, Executing, TerminalTypes
<1>1. \A type \in EventTypes \ {"workflow"} : <<Event(type)>> \in Seq(Events)
  BY EventTyped
<1>0. <<>> \in Seq(Events) /\ \A i \in DOMAIN <<>> : FALSE
  OBVIOUS
<1>2. CASE CreateRun(r)
  <2>1. TaskStep(r, "started", <<>>)
    BY <1>2, <1>0 DEF CreateRun, Advance, TaskStep
  <2> QED BY <2>1, <1>0
<1>3. CASE BeginRun(r)
  <2>1. TaskStep(r, "collecting", <<Event("collecting")>>)
    BY <1>3, <1>1 DEF BeginRun, Advance, TaskStep, EventTypes, Event
  <2> QED BY <2>1, <1>1 DEF EventTypes
<1>4. CASE CollectPosts(r)
  <2>1. <<Event("collected"), Event("directory")>> \in Seq(Events)
    BY EventTyped DEF EventTypes
  <2>2. TaskStep(r, "directory", <<Event("collected"), Event("directory")>>)
    BY <1>4, <2>1 DEF CollectPosts, Advance, TaskStep, Event
  <2> QED BY <2>1, <2>2
<1>5. CASE StartWorkflow(r)
  <2>1. TaskStep(r, "workflow", <<Event("workflow_started")>>)
    BY <1>5, <1>1 DEF StartWorkflow, Advance, TaskStep, EventTypes, Event
  <2> QED BY <2>1, <1>1 DEF EventTypes
<1>6. ASSUME NEW n \in 1 .. LastNode, FinishNode(r, n)
      PROVE  \E q \in Phases : \E new \in Seq(Events) : TaskStep(r, q, new)
  <2> DEFINE new == <<[type |-> "workflow", node |-> n]>>
  <2>1. new \in Seq(Events)
    BY DEF Events, EventTypes
  <2>2. TaskStep(r, "workflow", new)
    BY <1>6, <2>1 DEF FinishNode, Advance, TaskStep
  <2> QED BY <2>1, <2>2
<1>7. CASE BuildResult(r)
  <2>1. TaskStep(r, "pricing", <<>>)
    BY <1>7, <1>0 DEF BuildResult, Advance, TaskStep
  <2> QED BY <2>1, <1>0
<1>8. CASE RecordPrices(r)
  <2>1. TaskStep(r, "reporting", <<>>)
    BY <1>8, <1>0 DEF RecordPrices, Advance, TaskStep
  <2> QED BY <2>1, <1>0
<1>9. CASE CompleteRun(r)
  <2>1. TaskStep(r, "completed", <<Event("completed")>>)
    BY <1>9, <1>1 DEF CompleteRun, Advance, TaskStep, EventTypes, Event
  <2> QED BY <2>1, <1>1 DEF EventTypes
<1>10. CASE FailRun(r)
  <2>1. TaskStep(r, "failed", <<Event("failed")>>)
    BY <1>10, <1>1 DEF FailRun, Advance, TaskStep, EventTypes, Event
  <2> QED BY <2>1, <1>1 DEF EventTypes
<1>11. CASE Heartbeat(r)
  <2>1. TaskStep(r, phase[r], <<Event("heartbeat")>>)
    BY <1>11, <1>1 DEF Heartbeat, Advance, TaskStep, EventTypes, Event
  <2>2. phase[r] \in Phases
    BY DEF RunsTypeOK
  <2> QED BY <2>1, <2>2, <1>1 DEF EventTypes
<1> QED BY <1>2, <1>3, <1>4, <1>5, <1>6, <1>7, <1>8, <1>9, <1>10, <1>11 DEF RunStep

\* What such a step does to the runs: outcomes are kept, the endpoint and the
\* stream keep agreeing, and only a run without an outcome emits.
LEMMA TaskEffects ==
    ASSUME RunsTypeOK, NEW r \in Runs, CreateRun(r) \/ RunStep(r) \/ Heartbeat(r)
    PROVE  /\ RunsTypeOK'
           /\ taken' = taken
           /\ \A s \in Runs : Len(log[s]) <= Len(log'[s])
           /\ \A s \in Runs, type \in TerminalTypes : EndedAs(s, type) => EndedAs(s, type)'
           /\ \A s \in Runs : phase[s] = "lost" => phase'[s] = "lost"
           /\ \A s \in Runs : phase[s] # "absent" => phase'[s] # "absent"
           /\ TerminalEventAnswered => TerminalEventAnswered'
<1>1. PICK q \in Phases, new \in Seq(Events) : TaskStep(r, q, new)
  BY TaskSteps
<1>2. /\ log' = [log EXCEPT ![r] = @ \o new] /\ phase' = [phase EXCEPT ![r] = q]
      /\ taken' = taken /\ phase[r] \in {"absent", "started"} \cup Executing
  BY <1>1 DEF TaskStep, Advance
<1>0. \/ /\ q \in {"started"} \cup Executing
         /\ \A i \in DOMAIN new : new[i].type \notin TerminalTypes
      \/ q \in TerminalTypes /\ new # <<>> /\ \A i \in DOMAIN new : new[i].type = q
  BY <1>1, Zenon DEF TaskStep
<1>3. log \in [Runs -> Seq(Events)] /\ phase \in [Runs -> Phases]
  BY DEF RunsTypeOK
<1>4. Appended(r, new)
  BY <1>2, <1>3, AppendedLog
<1>5. RunsTypeOK'
  BY <1>2, <1>3, <1>4 DEF RunsTypeOK, Appended
<1>6. \A s \in Runs : Len(log[s]) <= Len(log'[s])
  <2>1. Len(new) \in Nat /\ \A s \in Runs : Len(log[s]) \in Nat
    BY <1>3
  <2>2. Len(log'[r]) = Len(log[r]) + Len(new) /\ \A s \in Runs : s # r => log'[s] = log[s]
    BY <1>4 DEF Appended
  <2>3. Len(log[r]) <= Len(log'[r])
    BY <2>1, <2>2
  <2>4. ASSUME NEW s \in Runs, s # r
        PROVE  Len(log[s]) <= Len(log'[s])
    BY <2>1, <2>2, <2>4
  <2> QED BY <2>3, <2>4
<1>7. \A type : EndedAs(r, type)' <=> EndedAs(r, type) \/ \E i \in DOMAIN new : new[i].type = type
  BY <1>4 DEF EndedAs, Appended
<1>8. \A s \in Runs, type \in TerminalTypes : s # r => (EndedAs(s, type)' <=> EndedAs(s, type))
  BY <1>4 DEF EndedAs, Appended
<1>9. \A s \in Runs, type \in TerminalTypes : EndedAs(s, type) => EndedAs(s, type)'
  BY <1>7, <1>8
<1>10. /\ phase'[r] = q /\ \A s \in Runs : s # r => phase'[s] = phase[s]
  BY <1>2, <1>3
<1>11. /\ \A s \in Runs : phase[s] = "lost" => phase'[s] = "lost"
       /\ \A s \in Runs : phase[s] # "absent" => phase'[s] # "absent"
  BY <1>0, <1>2, <1>10 DEF Executing, TerminalTypes
<1>12. ASSUME TerminalEventAnswered PROVE TerminalEventAnswered'
  <2> SUFFICES ASSUME NEW s \in Runs, phase'[s] # "lost"
               PROVE  /\ EndedAs(s, "completed")' <=> phase'[s] = "completed"
                      /\ EndedAs(s, "failed")' <=> phase'[s] = "failed"
    BY DEF TerminalEventAnswered, ResultStatus
  <2>1. CASE s # r
    BY <2>1, <1>8, <1>10, <1>12 DEF TerminalEventAnswered, ResultStatus, TerminalTypes
  <2>2. CASE s = r
    <3>1. ~EndedAs(r, "completed") /\ ~EndedAs(r, "failed")
      BY <1>2, <1>12 DEF TerminalEventAnswered, ResultStatus, Executing
    <3>2. CASE q \in {"started"} \cup Executing
      BY <3>1, <3>2, <2>2, <1>0, <1>7, <1>10 DEF Executing, TerminalTypes
    <3>3. CASE q \in TerminalTypes
      <4>1. \A i \in DOMAIN new : new[i].type = q
        BY <3>3, <1>0 DEF Executing, TerminalTypes
      <4>2. new # <<>>
        BY <3>3, <1>0 DEF Executing, TerminalTypes
      <4>3. 1 \in DOMAIN new
        BY <4>2
      <4> QED BY <4>1, <4>3, <3>1, <3>3, <2>2, <1>7, <1>10 DEF TerminalTypes
    <3> QED BY <3>2, <3>3, <1>0
  <2> QED BY <2>1, <2>2
<1> QED BY <1>2, <1>5, <1>6, <1>9, <1>11, <1>12

\* The other steps put nothing into a queue; at most they lose runs.
QuietRuns ==
    /\ log' = log
    /\ phase' = phase \/ phase' = [r \in Runs |-> IF phase[r] = "absent" THEN "absent" ELSE "lost"]
    /\ taken' = taken \/ \E r \in Runs : TakeEvent(r)

LEMMA QuietEffects ==
    ASSUME RunsTypeOK, QuietRuns
    PROVE  /\ RunsTypeOK'
           /\ \A s \in Runs : Len(log[s]) <= Len(log'[s])
           /\ \A s \in Runs, type \in TerminalTypes : EndedAs(s, type) => EndedAs(s, type)'
           /\ \A s \in Runs : phase[s] = "lost" => phase'[s] = "lost"
           /\ \A s \in Runs : phase[s] # "absent" => phase'[s] # "absent"
           /\ TerminalEventAnswered => TerminalEventAnswered'
<1>1. RunsTypeOK'
  <2>1. phase' \in [Runs -> Phases]
    BY DEF RunsTypeOK, QuietRuns, Phases
  <2>2. taken' \in [Runs -> Nat]
    <3>1. taken \in [Runs -> Nat] /\ (taken' = taken \/ \E r \in Runs : TakeEvent(r))
      BY DEF RunsTypeOK, QuietRuns
    <3>2. ASSUME NEW r \in Runs, TakeEvent(r)
          PROVE  taken' \in [Runs -> Nat]
      BY <3>1, <3>2 DEF TakeEvent
    <3> QED BY <3>1, <3>2
  <2> QED BY <2>1, <2>2 DEF RunsTypeOK, QuietRuns
<1>2. \A s \in Runs, type \in TerminalTypes : EndedAs(s, type) <=> EndedAs(s, type)'
  BY DEF EndedAs, QuietRuns
<1>3. \A s \in Runs : phase'[s] = phase[s] \/ (phase[s] # "absent" /\ phase'[s] = "lost")
  BY DEF RunsTypeOK, QuietRuns
<1>4. TerminalEventAnswered => TerminalEventAnswered'
  BY <1>2, <1>3 DEF TerminalEventAnswered, ResultStatus, TerminalTypes
<1>5. \A s \in Runs : Len(log[s]) <= Len(log'[s])
  BY DEF RunsTypeOK, QuietRuns
<1>6. /\ \A s \in Runs : phase[s] = "lost" => phase'[s] = "lost"
      /\ \A s \in Runs : phase[s] # "absent" => phase'[s] # "absent"
  BY <1>3
<1> QED BY <1>1, <1>2, <1>4, <1>5, <1>6

\* Every step of the system is one or the other.
LEMMA RunEffects ==
    ASSUME RunsTypeOK, [Next]_vars
    PROVE  \/ QuietRuns
           \/ \E r \in Runs : CreateRun(r) \/ RunStep(r) \/ Heartbeat(r)
<1> USE DEF QuietRuns, runVars
<1>1. CASE UNCHANGED vars
  BY <1>1 DEF vars
<1>2. CASE Click \/ OpenFirstStream \/ PostFails \/ LookupFails
  BY <1>2 DEF Click, OpenFirstStream, PostFails, LookupFails
<1>3. CASE Recovery
  BY <1>3 DEF Recovery, AnswerLookup, RecoverCompleted, RecoverFailed, RecoverLater,
              RecoverExhausted, Reopen
<1>4. CASE RestartServer
  BY <1>4 DEF RestartServer, LoseRuns
<1>5. ASSUME NEW r \in Runs, ServePost(r) \/ RunProgress(r) \/ RunHeartbeat(r)
      PROVE  CreateRun(r) \/ RunStep(r) \/ Heartbeat(r)
  BY <1>5 DEF ServePost, RunProgress, RunHeartbeat
<1>6. ASSUME NEW r \in Runs, LoadResult(r) \/ LoadPrices(r) \/ LoadRaises(r)
      PROVE  QuietRuns
  BY <1>6 DEF LoadResult, LoadPrices, LoadRaises
<1>7. ASSUME NEW r \in Runs, NEW a \in Attempts, ServerEnd(r, a)
      PROVE  QuietRuns
  BY <1>7 DEF ServerEnd, AcceptStream, RejectStream, SendEvent, NoticeDisconnect, IdleTimeout,
              TakeEvent
<1>8. ASSUME NEW r \in Runs, NEW a \in Attempts, PageEnd(r, a) \/ Break(r, a)
      PROVE  QuietRuns
  BY <1>8 DEF PageEnd, ShowProgress, ShowCompleted, ShowFailed, SourceError, Break
<1> QED BY <1>1, <1>2, <1>3, <1>4, <1>5, <1>6, <1>7, <1>8 DEF Next

\* What holds of the runs across every step.
RunsKept ==
    /\ RunsTypeOK'
    /\ \A s \in Runs : Len(log[s]) <= Len(log'[s])
    /\ \A s \in Runs, type \in TerminalTypes : EndedAs(s, type) => EndedAs(s, type)'
    /\ \A s \in Runs : phase[s] = "lost" => phase'[s] = "lost"
    /\ \A s \in Runs : phase[s] # "absent" => phase'[s] # "absent"
    /\ TerminalEventAnswered => TerminalEventAnswered'

\* No step of the system takes back an outcome, an event or a loss.
LEMMA RunsAreKept ==
    ASSUME RunsTypeOK, [Next]_vars
    PROVE  RunsKept
<1>1. CASE QuietRuns
  BY <1>1, QuietEffects DEF RunsKept
<1>2. ASSUME NEW r \in Runs, CreateRun(r) \/ RunStep(r) \/ Heartbeat(r)
      PROVE  RunsKept
  BY <1>2, TaskEffects DEF RunsKept
<1> QED BY <1>1, <1>2, RunEffects

----------------------------------------------------------------------------
(* The streams *)

\* One stream was replaced by s.
OneStreamSet(r, a, s) ==
    /\ stream' \in [Runs -> [Attempts -> Streams]]
    /\ stream'[r][a] = s
    /\ \A q \in Runs, b \in Attempts : q # r \/ b # a => stream'[q][b] = stream[q][b]

\* What Becomes does to the streams.
LEMMA BecomesOne ==
    ASSUME stream \in [Runs -> [Attempts -> Streams]], NEW r \in Runs, NEW a \in Attempts,
           NEW s \in Streams, Becomes(r, a, s)
    PROVE  OneStreamSet(r, a, s)
<1>1. stream' = [stream EXCEPT ![r] = [stream[r] EXCEPT ![a] = s]]
  BY DEF Becomes
<1>2. [stream[r] EXCEPT ![a] = s] \in [Attempts -> Streams]
  OBVIOUS
<1>3. stream' \in [Runs -> [Attempts -> Streams]]
  BY <1>1, <1>2
<1>4. stream'[r] = [stream[r] EXCEPT ![a] = s] /\ \A q \in Runs : q # r => stream'[q] = stream[q]
  BY <1>1
<1> QED BY <1>3, <1>4 DEF OneStreamSet

\* The streams stay well formed.
LEMMA StreamTyped ==
    ASSUME TypeOK, PageShape, [Next]_vars
    PROVE  stream' \in [Runs -> [Attempts -> Streams]]
<1> USE DEF TypeOK
<1>1. CASE \/ UNCHANGED vars
           \/ Click \/ PostFails \/ LookupFails \/ AnswerLookup \/ RecoverCompleted
           \/ RecoverFailed \/ RecoverLater \/ RecoverExhausted
  BY <1>1 DEF vars, Click, PostFails, LookupFails, AnswerLookup, RecoverCompleted, RecoverFailed,
              RecoverLater, RecoverExhausted
<1>2. ASSUME NEW r \in Runs,
             \/ ServePost(r) \/ RunProgress(r) \/ RunHeartbeat(r)
             \/ LoadResult(r) \/ LoadPrices(r) \/ LoadRaises(r)
      PROVE  stream' \in [Runs -> [Attempts -> Streams]]
  BY <1>2 DEF ServePost, RunProgress, RunHeartbeat, LoadResult, LoadPrices, LoadRaises
<1>3. CASE RestartServer
  <2>1. \A r \in Runs, a \in Attempts :
           [stream[r][a] EXCEPT !.up = FALSE, !.wire = {},
               !.server = IF @ = "none" THEN @ ELSE "closed"] \in Streams
    <3>1. ASSUME NEW s \in Streams, NEW server \in {"none", "opening", "waiting", "closed"}
          PROVE  [s EXCEPT !.up = FALSE, !.wire = {}, !.server = server] \in Streams
      BY DEF Streams
    <3>2. \A r \in Runs, a \in Attempts : stream[r][a] \in Streams
      OBVIOUS
    <3>3. \A s \in Streams :
             (IF s.server = "none" THEN s.server ELSE "closed") \in {"none", "closed"}
      OBVIOUS
    <3> QED BY <3>1, <3>2, <3>3
  <2>2. \A r \in Runs :
           [a \in Attempts |-> [stream[r][a] EXCEPT !.up = FALSE, !.wire = {},
               !.server = IF @ = "none" THEN @ ELSE "closed"]] \in [Attempts -> Streams]
    BY <2>1
  <2> QED BY <1>3, <2>2 DEF RestartServer
<1>4. CASE OpenFirstStream
  <2>1. page.run \in Runs /\ 0 \in Attempts /\ NewStream \in Streams
    BY <1>4 DEF OpenFirstStream, PageShape, Attempts, NewStream, Streams
  <2> QED BY <1>4, <2>1, BecomesOne DEF OpenFirstStream, OneStreamSet
<1>5. CASE Reopen
  <2>1. page.run \in Runs /\ page.attempt + 1 \in Attempts /\ NewStream \in Streams
    BY <1>5 DEF Reopen, PageShape, Attempts, NewStream, Streams, Pages
  <2> QED BY <1>5, <2>1, BecomesOne DEF Reopen, OneStreamSet
<1>6. ASSUME NEW r \in Runs, NEW a \in Attempts, NEW s \in Streams, Becomes(r, a, s)
      PROVE  stream' \in [Runs -> [Attempts -> Streams]]
  BY <1>6, BecomesOne DEF OneStreamSet
<1>7. ASSUME NEW r \in Runs, NEW a \in Attempts, ServerEnd(r, a) \/ Break(r, a)
      PROVE  \E s \in Streams : Becomes(r, a, s)
  <2>1. stream[r][a] \in Streams /\ taken[r] \in Nat
    BY DEF RunsTypeOK
  <2>2. CASE AcceptStream(r, a) \/ RejectStream(r, a)
    BY <2>1, <2>2 DEF AcceptStream, RejectStream, Streams
  <2>3. CASE NoticeDisconnect(r, a) \/ IdleTimeout(r, a) \/ Break(r, a)
    BY <2>1, <2>3 DEF NoticeDisconnect, IdleTimeout, Break, Streams
  <2>4. CASE SendEvent(r, a)
    <3>1. ASSUME NEW s \in Streams, NEW wire \in SUBSET Nat,
                 NEW server \in {"none", "opening", "waiting", "closed"}
          PROVE  [s EXCEPT !.server = server, !.wire = wire] \in Streams
      BY DEF Streams
    <3> DEFINE server == IF NextEvent(r).type \in TerminalTypes THEN "closed" ELSE "waiting"
               wire == IF stream[r][a].up THEN stream[r][a].wire \cup {taken[r] + 1}
                       ELSE stream[r][a].wire
    <3>2. Becomes(r, a, [stream[r][a] EXCEPT !.server = server, !.wire = wire])
      BY <2>4 DEF SendEvent
    <3>3. server \in {"waiting", "closed"} /\ wire \in SUBSET Nat
      BY <2>1 DEF Streams
    <3> HIDE DEF server, wire
    <3> QED BY <2>1, <3>1, <3>2, <3>3
  <2> QED BY <1>7, <2>2, <2>3, <2>4 DEF ServerEnd
<1>8. ASSUME NEW r \in Runs, NEW a \in Attempts, PageEnd(r, a)
      PROVE  \E s \in Streams : Becomes(r, a, s)
  <2>1. stream[r][a] \in Streams
    OBVIOUS
  <2> QED BY <1>8, <2>1 DEF PageEnd, ShowProgress, ShowCompleted, ShowFailed, SourceError, Streams
<1> QED BY <1>1, <1>2, <1>3, <1>4, <1>5, <1>6, <1>7, <1>8 DEF Next, Recovery

\* The page stays well formed; a node event names a node of the workflow.
LEMMA PageTyped ==
    ASSUME TypeOK, PageShape, WireAhead, [Next]_vars
    PROVE  page' \in Pages
<1>0. page \in Pages /\ NoRun \in Runs \cup {NoRun} /\ RunsTypeOK
  BY DEF TypeOK
<1>1. CASE UNCHANGED vars \/ RestartServer
  BY <1>0, <1>1 DEF vars, RestartServer
<1>2. CASE Click \/ OpenFirstStream \/ PostFails
  <2>1. CASE Click
    <3>1. Fresh \in Pages
      BY DEF Fresh, Pages, Attempts
    <3> QED BY <2>1, <3>1 DEF Click, Pages
  <2>2. CASE OpenFirstStream
    BY <1>0, <2>2 DEF OpenFirstStream, Pages
  <2>3. CASE PostFails
    BY <1>0, <2>3 DEF PostFails, Pages
  <2> QED BY <1>2, <2>1, <2>2, <2>3
<1>3. CASE LookupFails \/ AnswerLookup
  <2>1. ASSUME NEW reply \in {"raised", "proxy", "404", "200", "500", "409"},
               page' = [page EXCEPT !.reply = reply]
        PROVE  page' \in Pages
    BY <1>0, <2>1 DEF Pages
  <2> QED BY <1>3, <2>1 DEF LookupFails, AnswerLookup, ResultStatus
<1>4. CASE RecoverCompleted \/ RecoverFailed \/ RecoverLater \/ RecoverExhausted
  <2>1. CASE RecoverCompleted
    BY <1>0, <2>1 DEF RecoverCompleted, Pages
  <2>2. CASE RecoverFailed
    BY <1>0, <2>2 DEF RecoverFailed, Pages
  <2>3. CASE RecoverLater
    BY <1>0, <2>3 DEF RecoverLater, Pages
  <2>4. CASE RecoverExhausted
    BY <1>0, <2>4 DEF RecoverExhausted, Pages
  <2> QED BY <1>4, <2>1, <2>2, <2>3, <2>4
<1>5. CASE Reopen
  <2>1. page.attempt + 1 \in Attempts
    BY <1>0, <1>5 DEF Reopen, PageShape, Pages, Attempts
  <2> QED BY <1>0, <1>5, <2>1 DEF Reopen, Pages
<1>6. ASSUME NEW r \in Runs,
             \/ ServePost(r) \/ RunProgress(r) \/ RunHeartbeat(r)
             \/ LoadResult(r) \/ LoadPrices(r) \/ LoadRaises(r)
      PROVE  page' \in Pages
  <2>1. CASE ServePost(r)
    BY <1>0, <2>1 DEF ServePost, Pages
  <2>2. CASE LoadResult(r) \/ LoadPrices(r) \/ LoadRaises(r)
    BY <1>0, <2>2 DEF LoadResult, LoadPrices, LoadRaises, Pages
  <2>3. CASE RunProgress(r) \/ RunHeartbeat(r)
    BY <1>0, <2>3 DEF RunProgress, RunHeartbeat
  <2> QED BY <1>6, <2>1, <2>2, <2>3
<1>7. ASSUME NEW r \in Runs, NEW a \in Attempts, ServerEnd(r, a) \/ Break(r, a)
      PROVE  page' \in Pages
  BY <1>0, <1>7 DEF ServerEnd, AcceptStream, RejectStream, SendEvent, NoticeDisconnect,
                    IdleTimeout, Break
<1>8. ASSUME NEW r \in Runs, NEW a \in Attempts, PageEnd(r, a)
      PROVE  page' \in Pages
  <2>1. ASSUME NEW i \in stream[r][a].wire, ShowProgress(r, a, i)
        PROVE  page' \in Pages
    <3>1. CASE log[r][i].type = "workflow"
      <4>1. i \in DOMAIN log[r] /\ log[r] \in Seq(Events)
        <5>1. i \in Nat /\ taken[r] \in Nat /\ seen[r] \in Nat /\ log[r] \in Seq(Events)
          BY DEF TypeOK, RunsTypeOK, Streams
        <5>2. seen[r] < i /\ i <= taken[r] /\ taken[r] <= Len(log[r])
          BY <2>1 DEF WireAhead, ShowProgress, Arrives
        <5> QED BY <5>1, <5>2
      <4>2. log[r][i].node \in 1 .. LastNode
        BY <3>1, <4>1 DEF Events
      <4> DEFINE n == log[r][i].node
                 skipped == (page.skipped \cup (1 .. n - 1 \ page.ran)) \ {n}
                 ran == page.ran \cup {n}
      <4>3. 1 .. n - 1 \subseteq 1 .. LastNode
        BY <4>2
      <4>4. skipped \in SUBSET (1 .. LastNode) /\ ran \in SUBSET (1 .. LastNode)
        BY <1>0, <4>2, <4>3 DEF Pages
      <4>5. page' = [page EXCEPT !.skipped = skipped, !.ran = ran]
        BY <2>1, <3>1 DEF ShowProgress, WithNode
      <4> HIDE DEF skipped, ran
      <4> QED BY <1>0, <4>4, <4>5 DEF Pages
    <3>2. CASE log[r][i].type # "workflow"
      BY <1>0, <2>1, <3>2 DEF ShowProgress
    <3> QED BY <3>1, <3>2
  <2>2. ASSUME NEW i \in stream[r][a].wire, ShowCompleted(r, a, i) \/ ShowFailed(r, a, i)
        PROVE  page' \in Pages
    <3>1. CASE ShowCompleted(r, a, i)
      BY <1>0, <3>1 DEF ShowCompleted, Pages
    <3>2. CASE ShowFailed(r, a, i)
      BY <1>0, <3>2 DEF ShowFailed, Pages
    <3> QED BY <2>2, <3>1, <3>2
  <2>3. CASE SourceError(r, a)
    BY <1>0, <2>3 DEF SourceError, Pages
  <2> QED BY <1>8, <2>1, <2>2, <2>3 DEF PageEnd
<1> QED BY <1>1, <1>2, <1>3, <1>4, <1>5, <1>6, <1>7, <1>8 DEF Next, Recovery

\* So do the last event shown, the fetches and the number of faults.
LEMMA RestTyped ==
    ASSUME TypeOK, PageShape, [Next]_vars
    PROVE  /\ seen' \in [Runs -> Nat] /\ loads' \in [Runs -> {"none", "result", "prices"}]
           /\ faults' \in 0 .. MaxFaults
<1> USE DEF TypeOK, Fault
<1>1. CASE UNCHANGED vars \/ Click \/ OpenFirstStream \/ PostFails \/ LookupFails
  BY <1>1 DEF vars, Click, OpenFirstStream, PostFails, LookupFails
<1>6. CASE RestartServer
  <2>1. seen' = seen /\ loads' = loads /\ faults < MaxFaults /\ faults' = faults + 1
    BY <1>6, Zenon DEF RestartServer
  <2> QED BY <2>1
<1>2. CASE Recovery
  BY <1>2 DEF Recovery, AnswerLookup, RecoverCompleted, RecoverFailed, RecoverLater,
              RecoverExhausted, Reopen
<1>3. ASSUME NEW r \in Runs, \/ ServePost(r) \/ RunProgress(r) \/ RunHeartbeat(r)
                             \/ LoadResult(r) \/ LoadPrices(r) \/ LoadRaises(r)
      PROVE  /\ seen' = seen /\ loads' \in [Runs -> {"none", "result", "prices"}]
             /\ faults' \in 0 .. MaxFaults
  BY <1>3 DEF ServePost, RunProgress, RunHeartbeat, LoadResult, LoadPrices, LoadRaises
<1>4. ASSUME NEW r \in Runs, NEW a \in Attempts, ServerEnd(r, a) \/ Break(r, a)
      PROVE  seen' = seen /\ loads' = loads /\ faults' \in 0 .. MaxFaults
  BY <1>4 DEF ServerEnd, AcceptStream, RejectStream, SendEvent, NoticeDisconnect, IdleTimeout, Break
<1>5. ASSUME NEW r \in Runs, NEW a \in Attempts, PageEnd(r, a)
      PROVE  /\ seen' \in [Runs -> Nat] /\ loads' \in [Runs -> {"none", "result", "prices"}]
             /\ faults' = faults
  <2>1. stream[r][a].wire \subseteq Nat
    BY DEF Streams
  <2> QED BY <1>5, <2>1 DEF PageEnd, ShowProgress, ShowCompleted, ShowFailed, SourceError, Arrives
<1> QED BY <1>1, <1>2, <1>3, <1>4, <1>5, <1>6 DEF Next

----------------------------------------------------------------------------
(* The page and its one open source *)

\* The control of the page is left alone, whatever is loaded or shown.
ControlKept ==
    /\ page'.status = page.status /\ page'.at = page.at /\ page'.run = page.run
    /\ page'.terminal = page.terminal /\ page'.attempt = page.attempt
    /\ page'.reply = page.reply

\* The steps that leave the control of the page alone: those of the runs, of the
\* server's ends of the streams and of loadResult, and progress events.
LEMMA QuietControl ==
    ASSUME page \in Pages, NEW r \in Runs, NEW a \in Attempts,
           \/ UNCHANGED vars \/ RestartServer \/ ServerEnd(r, a) \/ Break(r, a)
           \/ RunProgress(r) \/ RunHeartbeat(r)
           \/ LoadResult(r) \/ LoadPrices(r) \/ LoadRaises(r)
           \/ \E i \in stream[r][a].wire : ShowProgress(r, a, i)
    PROVE  ControlKept
<1> USE DEF ControlKept
<1>1. CASE UNCHANGED vars \/ RestartServer
  BY <1>1 DEF vars, RestartServer
<1>2. CASE ServerEnd(r, a) \/ Break(r, a)
  BY <1>2 DEF ServerEnd, AcceptStream, RejectStream, SendEvent, NoticeDisconnect, IdleTimeout,
              Break
<1>3. CASE RunProgress(r) \/ RunHeartbeat(r)
  BY <1>3 DEF RunProgress, RunHeartbeat
<1>4. CASE LoadResult(r) \/ LoadPrices(r) \/ LoadRaises(r)
  BY <1>4 DEF LoadResult, LoadPrices, LoadRaises, Pages
<1>5. ASSUME NEW i \in stream[r][a].wire, ShowProgress(r, a, i)
      PROVE  ControlKept
  BY <1>5 DEF ShowProgress, WithNode, Pages
<1> QED BY <1>1, <1>2, <1>3, <1>4, <1>5

\* Some of these steps may also change whether a stream is open, but none does.
LEMMA QuietOpen ==
    ASSUME TypeOK, NEW r \in Runs, NEW a \in Attempts,
           \/ UNCHANGED vars \/ RestartServer \/ ServerEnd(r, a) \/ Break(r, a)
           \/ RunProgress(r) \/ RunHeartbeat(r)
           \/ LoadResult(r) \/ LoadPrices(r) \/ LoadRaises(r)
           \/ \E i \in stream[r][a].wire : ShowProgress(r, a, i)
    PROVE  \A q \in Runs, b \in Attempts : stream'[q][b].open = stream[q][b].open
<1> DEFINE Same == \A q \in Runs, b \in Attempts : stream'[q][b].open = stream[q][b].open
<1>0. stream \in [Runs -> [Attempts -> Streams]] /\ stream[r][a] \in Streams
  BY DEF TypeOK
<1>1. ASSUME NEW s \in Streams, s.open = stream[r][a].open, Becomes(r, a, s)
      PROVE  Same
  BY <1>0, <1>1, BecomesOne DEF OneStreamSet
<1>2. CASE \/ UNCHANGED vars \/ RunProgress(r) \/ RunHeartbeat(r)
           \/ LoadResult(r) \/ LoadPrices(r) \/ LoadRaises(r)
  BY <1>2 DEF vars, RunProgress, RunHeartbeat, LoadResult, LoadPrices, LoadRaises
<1>3. CASE RestartServer
  <2>1. \A q \in Runs, b \in Attempts : stream'[q][b] =
           [stream[q][b] EXCEPT !.up = FALSE, !.wire = {},
                                !.server = IF @ = "none" THEN @ ELSE "closed"]
    BY <1>3 DEF RestartServer
  <2>2. \A q \in Runs, b \in Attempts : stream[q][b] \in Streams
    BY <1>0
  <2>3. ASSUME NEW t \in Streams, NEW server
        PROVE  [t EXCEPT !.up = FALSE, !.wire = {}, !.server = server].open = t.open
    BY DEF Streams
  <2> SUFFICES ASSUME NEW q \in Runs, NEW b \in Attempts
               PROVE  stream'[q][b].open = stream[q][b].open
    OBVIOUS
  <2> DEFINE server == IF stream[q][b].server = "none" THEN stream[q][b].server ELSE "closed"
  <2>4. stream'[q][b] = [stream[q][b] EXCEPT !.up = FALSE, !.wire = {}, !.server = server]
    BY <2>1
  <2> HIDE DEF server
  <2> QED BY <2>2, <2>3, <2>4
<1>4. CASE AcceptStream(r, a) \/ RejectStream(r, a) \/ NoticeDisconnect(r, a)
  <2>1. \E s \in Streams : s.open = stream[r][a].open /\ Becomes(r, a, s)
    BY <1>0, <1>4 DEF AcceptStream, RejectStream, NoticeDisconnect, Streams
  <2> QED BY <2>1, <1>1
<1>5. CASE IdleTimeout(r, a) \/ Break(r, a) \/ \E i \in stream[r][a].wire : ShowProgress(r, a, i)
  <2>1. \E s \in Streams : s.open = stream[r][a].open /\ Becomes(r, a, s)
    BY <1>0, <1>5 DEF IdleTimeout, Break, ShowProgress, Streams
  <2> QED BY <2>1, <1>1
<1>6. CASE SendEvent(r, a)
  <2> DEFINE server == IF NextEvent(r).type \in TerminalTypes THEN "closed" ELSE "waiting"
             wire == IF stream[r][a].up THEN stream[r][a].wire \cup {taken[r] + 1}
                     ELSE stream[r][a].wire
             s == [stream[r][a] EXCEPT !.server = server, !.wire = wire]
  <2>1. Becomes(r, a, s)
    BY <1>6 DEF SendEvent
  <2>2. server \in {"waiting", "closed"} /\ wire \in SUBSET Nat
    BY <1>0 DEF Streams, TypeOK, RunsTypeOK
  <2>3. s \in Streams /\ s.open = stream[r][a].open
    <3> HIDE DEF server, wire
    <3> QED BY <1>0, <2>2 DEF Streams
  <2> HIDE DEF s
  <2> QED BY <2>1, <2>3, <1>1
<1> QED BY <1>2, <1>3, <1>4, <1>5, <1>6 DEF ServerEnd

\* At most one source is open: the one of the last attempt of the active run.
LEMMA SourceStep ==
    ASSUME TypeOK, PageShape, OneOpenSource, [Next]_vars
    PROVE  OneOpenSource'
<1>0. stream \in [Runs -> [Attempts -> Streams]] /\ page \in Pages
  BY DEF TypeOK
<1>1. CASE ControlKept /\ \A q \in Runs, b \in Attempts : stream'[q][b].open = stream[q][b].open
  BY <1>1 DEF OneOpenSource, ControlKept, IsActive
<1>2. CASE Click \/ PostFails \/ LookupFails \/ AnswerLookup
  <2>1. stream' = stream /\ (page.status # "running" \/ page.at # "streaming")
    BY <1>2 DEF Click, PostFails, LookupFails, AnswerLookup
  <2> QED BY <2>1 DEF OneOpenSource
<1>3. CASE RecoverCompleted \/ RecoverFailed \/ RecoverLater \/ RecoverExhausted
  <2>1. stream' = stream /\ page.at # "streaming"
    BY <1>3 DEF RecoverCompleted, RecoverFailed, RecoverLater, RecoverExhausted, Answered
  <2> QED BY <2>1 DEF OneOpenSource
<1>4. ASSUME NEW r \in Runs, ServePost(r)
      PROVE  OneOpenSource'
  BY <1>4 DEF ServePost, OneOpenSource
<1>5. CASE OpenFirstStream
  <2>1. page.run \in Runs /\ 0 \in Attempts /\ NewStream \in Streams /\ page.attempt = 0
    BY <1>5 DEF OpenFirstStream, PageShape, Attempts, NewStream, Streams
  <2>2. OneStreamSet(page.run, 0, NewStream)
    BY <1>0, <1>5, <2>1, BecomesOne DEF OpenFirstStream
  <2>3. \A q \in Runs, b \in Attempts : ~stream[q][b].open
    BY <1>5 DEF OpenFirstStream, OneOpenSource
  <2>4. /\ page'.run = page.run /\ page'.terminal = page.terminal /\ page'.status = page.status
        /\ page'.at = "streaming" /\ page'.attempt = 0
    BY <1>0, <1>5, <2>1 DEF OpenFirstStream, Pages
  <2>5. page.status = "running" /\ ~page.terminal
    BY <1>5 DEF OpenFirstStream, PageShape
  <2> QED BY <2>2, <2>3, <2>4, <2>5 DEF OneOpenSource, OneStreamSet, IsActive
<1>6. CASE Reopen
  <2>1. page.run \in Runs /\ page.attempt + 1 \in Attempts /\ NewStream \in Streams
    BY <1>0, <1>6 DEF Reopen, PageShape, Attempts, NewStream, Streams, Pages
  <2>2. OneStreamSet(page.run, page.attempt + 1, NewStream)
    BY <1>0, <1>6, <2>1, BecomesOne DEF Reopen
  <2>3. \A q \in Runs, b \in Attempts : ~stream[q][b].open
    BY <1>6 DEF Reopen, OneOpenSource
  <2>4. /\ page'.run = page.run /\ page'.terminal = page.terminal /\ page'.status = page.status
        /\ page'.at = "streaming" /\ page'.attempt = page.attempt + 1
    BY <1>0, <1>6, <2>1 DEF Reopen, Pages
  <2>5. page.status = "running" /\ ~page.terminal
    BY <1>6 DEF Reopen, PageShape
  <2> QED BY <2>2, <2>3, <2>4, <2>5 DEF OneOpenSource, OneStreamSet, IsActive
<1>7. ASSUME NEW r \in Runs, NEW a \in Attempts,
             \/ SourceError(r, a)
             \/ \E i \in stream[r][a].wire : ShowCompleted(r, a, i) \/ ShowFailed(r, a, i)
      PROVE  OneOpenSource'
  <2>1. stream[r][a].open /\ \E s \in Streams : ~s.open /\ Becomes(r, a, s)
    <3>1. stream[r][a] \in Streams
      BY <1>0
    <3>2. CASE SourceError(r, a)
      BY <3>1, <3>2 DEF SourceError, Streams
    <3>3. ASSUME NEW i \in stream[r][a].wire, ShowCompleted(r, a, i) \/ ShowFailed(r, a, i)
          PROVE  stream[r][a].open /\ \E s \in Streams : ~s.open /\ Becomes(r, a, s)
      BY <3>1, <3>3 DEF ShowCompleted, ShowFailed, Arrives, Streams
    <3> QED BY <1>7, <3>2, <3>3
  <2>2. PICK s \in Streams : ~s.open /\ Becomes(r, a, s)
    BY <2>1
  <2>3. OneStreamSet(r, a, s)
    BY <1>0, <2>2, BecomesOne
  <2>4. \A q \in Runs, b \in Attempts : ~stream'[q][b].open
    BY <2>1, <2>2, <2>3 DEF OneStreamSet, OneOpenSource, IsActive
  <2> QED BY <2>4 DEF OneOpenSource
<1>8. ASSUME NEW r \in Runs, NEW a \in Attempts,
             \/ UNCHANGED vars \/ RestartServer \/ ServerEnd(r, a) \/ Break(r, a)
             \/ RunProgress(r) \/ RunHeartbeat(r)
             \/ LoadResult(r) \/ LoadPrices(r) \/ LoadRaises(r)
             \/ \E i \in stream[r][a].wire : ShowProgress(r, a, i)
      PROVE  OneOpenSource'
  BY <1>0, <1>1, <1>8, QuietControl, QuietOpen
<1>9. 0 \in Attempts
  BY DEF Attempts
<1>10. CASE UNCHANGED vars \/ RestartServer
  BY <1>8, <1>9, <1>10 DEF OneOpenSource
<1>11. ASSUME NEW r \in Runs, \/ ServePost(r) \/ RunProgress(r) \/ RunHeartbeat(r)
                             \/ LoadResult(r) \/ LoadPrices(r) \/ LoadRaises(r)
       PROVE  OneOpenSource'
  BY <1>4, <1>8, <1>9, <1>11
<1>12. ASSUME NEW r \in Runs, NEW a \in Attempts, ServerEnd(r, a) \/ PageEnd(r, a) \/ Break(r, a)
       PROVE  OneOpenSource'
  BY <1>7, <1>8, <1>12 DEF PageEnd
<1> QED BY <1>2, <1>3, <1>5, <1>6, <1>10, <1>11, <1>12 DEF Next, Recovery

\* What start and recover wait for fits the state they left behind.
LEMMA ShapeStep ==
    ASSUME TypeOK, PageShape, OneOpenSource, [Next]_vars
    PROVE  PageShape'
<1>0. page \in Pages
  BY DEF TypeOK
<1>1. CASE ControlKept
  BY <1>1 DEF ControlKept, PageShape
<1>2. CASE Click
  BY <1>2 DEF Click, Fresh, PageShape
<1>3. CASE OpenFirstStream
  BY <1>0, <1>3 DEF OpenFirstStream, PageShape, Pages
<1>4. CASE PostFails
  BY <1>0, <1>4 DEF PostFails, PageShape, Pages
<1>5. CASE LookupFails
  BY <1>0, <1>5 DEF LookupFails, PageShape, Pages
<1>6. CASE AnswerLookup
  BY <1>0, <1>6 DEF AnswerLookup, PageShape, Pages
<1>7. CASE RecoverCompleted
  BY <1>0, <1>7 DEF RecoverCompleted, Answered, PageShape, Pages
<1>8. CASE RecoverFailed \/ RecoverExhausted
  <2>1. page'.at = "rest" /\ page'.status = "failed"
    BY <1>0, <1>8 DEF RecoverFailed, RecoverExhausted, Pages
  <2> QED BY <2>1 DEF PageShape
<1>9. CASE RecoverLater
  BY <1>0, <1>9 DEF RecoverLater, Answered, PageShape, Pages
<1>10. CASE Reopen
  BY <1>0, <1>10 DEF Reopen, PageShape, Pages
<1>11. ASSUME NEW r \in Runs, ServePost(r)
       PROVE  PageShape'
  BY <1>0, <1>11 DEF ServePost, PageShape, Pages
<1>12. ASSUME NEW r \in Runs, NEW a \in Attempts, PageEnd(r, a)
       PROVE  PageShape'
  <2>1. ASSUME NEW i \in stream[r][a].wire, ShowProgress(r, a, i)
        PROVE  PageShape'
    BY <1>0, <1>1, <2>1, QuietControl
  <2>2. ASSUME NEW i \in stream[r][a].wire, ShowCompleted(r, a, i) \/ ShowFailed(r, a, i)
        PROVE  PageShape'
    <3>1. page.run \in Runs
      BY <2>2 DEF ShowCompleted, ShowFailed, Arrives, OneOpenSource, IsActive
    <3>2. CASE ShowCompleted(r, a, i)
      BY <1>0, <3>1, <3>2 DEF ShowCompleted, PageShape, Pages
    <3>3. CASE ShowFailed(r, a, i)
      BY <1>0, <3>1, <3>3 DEF ShowFailed, PageShape, Pages
    <3> QED BY <2>2, <3>2, <3>3
  <2>3. CASE SourceError(r, a)
    <3>1. page.status = "running" /\ ~page.terminal /\ page.run \in Runs
      BY <2>3 DEF SourceError, OneOpenSource, IsActive
    <3> QED BY <1>0, <2>3, <3>1 DEF SourceError, PageShape, Pages
  <2> QED BY <1>12, <2>1, <2>2, <2>3 DEF PageEnd
<1>13. 0 \in Attempts
  BY DEF Attempts
<1>14. CASE UNCHANGED vars \/ RestartServer
  BY <1>0, <1>14 DEF vars, RestartServer, PageShape
<1>15. ASSUME NEW r \in Runs, \/ RunProgress(r) \/ RunHeartbeat(r)
                              \/ LoadResult(r) \/ LoadPrices(r) \/ LoadRaises(r)
       PROVE  PageShape'
  BY <1>0, <1>1, <1>13, <1>15, QuietControl
<1>16. ASSUME NEW r \in Runs, NEW a \in Attempts, ServerEnd(r, a) \/ Break(r, a)
       PROVE  PageShape'
  BY <1>0, <1>1, <1>16, QuietControl
<1> QED BY <1>2, <1>3, <1>4, <1>5, <1>6, <1>7, <1>8, <1>9, <1>10, <1>11, <1>12, <1>14, <1>15,
           <1>16 DEF Next, Recovery

\* Events reach the page in the order of the queue, each at most once.
LEMMA WireStep ==
    ASSUME TypeOK, PageShape, OneOpenSource, WireAhead, [Next]_vars
    PROVE  WireAhead'
<1>0. /\ stream \in [Runs -> [Attempts -> Streams]] /\ seen \in [Runs -> Nat] /\ RunsTypeOK
      /\ page \in Pages
  BY DEF TypeOK
<1>1. /\ taken \in [Runs -> Nat] /\ \A r \in Runs : Len(log[r]) \in Nat /\ Len(log'[r]) \in Nat
      /\ \A r \in Runs : Len(log[r]) <= Len(log'[r])
  BY <1>0, RunsAreKept DEF RunsTypeOK, RunsKept
<1> DEFINE Fewer == \A q \in Runs, b \in Attempts :
               stream'[q][b].open =>
                   \/ stream'[q][b].wire = {}
                   \/ stream[q][b].open /\ stream'[q][b].wire \subseteq stream[q][b].wire
<1>2. ASSUME Fewer, seen' = seen, taken' = taken
      PROVE  WireAhead'
  BY <1>1, <1>2 DEF WireAhead
<1>3. CASE UNCHANGED vars \/ Click \/ PostFails \/ LookupFails
  BY <1>2, <1>3 DEF vars, Click, PostFails, LookupFails, runVars
<1>4. CASE Recovery /\ ~Reopen
  BY <1>2, <1>4 DEF Recovery, AnswerLookup, RecoverCompleted, RecoverFailed, RecoverLater,
                    RecoverExhausted, runVars
<1>5. ASSUME NEW r \in Runs, \/ ServePost(r) \/ RunProgress(r) \/ RunHeartbeat(r)
                             \/ LoadResult(r) \/ LoadPrices(r) \/ LoadRaises(r)
      PROVE  WireAhead'
  <2>1. stream' = stream /\ seen' = seen
    BY <1>5 DEF ServePost, RunProgress, RunHeartbeat, LoadResult, LoadPrices, LoadRaises
  <2>2. CASE LoadResult(r) \/ LoadPrices(r) \/ LoadRaises(r)
    BY <1>2, <2>1, <2>2 DEF LoadResult, LoadPrices, LoadRaises, runVars
  <2>3. CASE ServePost(r) \/ RunProgress(r) \/ RunHeartbeat(r)
    <3>1. taken' = taken
      BY <1>0, <2>3, TaskEffects DEF ServePost, RunProgress, RunHeartbeat
    <3> QED BY <1>2, <2>1, <3>1
  <2> QED BY <1>5, <2>2, <2>3
<1>6. ASSUME NEW r \in Runs, NEW a \in Attempts, NEW s \in Streams, Becomes(r, a, s),
             \/ s.wire = {}
             \/ (s.open => stream[r][a].open) /\ s.wire \subseteq stream[r][a].wire
      PROVE  Fewer
  <2>1. OneStreamSet(r, a, s)
    BY <1>0, <1>6, BecomesOne
  <2>2. SUFFICES ASSUME NEW q \in Runs, NEW b \in Attempts, stream'[q][b].open
                 PROVE  \/ stream'[q][b].wire = {}
                        \/ /\ stream[q][b].open
                           /\ stream'[q][b].wire \subseteq stream[q][b].wire
    OBVIOUS
  <2>3. CASE q = r /\ b = a
    BY <1>6, <2>1, <2>2, <2>3 DEF OneStreamSet
  <2>4. CASE q # r \/ b # a
    BY <2>1, <2>2, <2>4 DEF OneStreamSet
  <2> QED BY <2>3, <2>4
<1>7. CASE OpenFirstStream \/ Reopen
  <2>1. NewStream \in Streams /\ NewStream.wire = {} /\ page.run \in Runs
    BY <1>7 DEF NewStream, Streams, OpenFirstStream, Reopen, PageShape
  <2>2. \E a \in Attempts : Becomes(page.run, a, NewStream)
    BY <1>0, <1>7 DEF OpenFirstStream, Reopen, PageShape, Pages, Attempts
  <2>3. seen' = seen /\ taken' = taken
    BY <1>7 DEF OpenFirstStream, Reopen, runVars
  <2> QED BY <1>2, <1>6, <2>1, <2>2, <2>3
<1>8. CASE RestartServer
  <2>1. \A q \in Runs, b \in Attempts : stream'[q][b] =
           [stream[q][b] EXCEPT !.up = FALSE, !.wire = {},
                                !.server = IF @ = "none" THEN @ ELSE "closed"]
    BY <1>8 DEF RestartServer
  <2>2. ASSUME NEW t \in Streams, NEW server
        PROVE  [t EXCEPT !.up = FALSE, !.wire = {}, !.server = server].wire = {}
    BY DEF Streams
  <2>3. ASSUME NEW q \in Runs, NEW b \in Attempts
        PROVE  stream'[q][b].wire = {}
    <3> DEFINE server == IF stream[q][b].server = "none" THEN stream[q][b].server ELSE "closed"
    <3>1. stream'[q][b] = [stream[q][b] EXCEPT !.up = FALSE, !.wire = {}, !.server = server]
      BY <2>1
    <3> HIDE DEF server
    <3> QED BY <1>0, <2>2, <3>1
  <2> QED BY <1>2, <1>8, <2>3 DEF RestartServer, LoseRuns
<1>9. ASSUME NEW r \in Runs, NEW a \in Attempts,
             \/ AcceptStream(r, a) \/ RejectStream(r, a) \/ NoticeDisconnect(r, a)
             \/ IdleTimeout(r, a) \/ Break(r, a) \/ SourceError(r, a)
      PROVE  WireAhead'
  <2>1. stream[r][a] \in Streams
    BY <1>0
  <2>2. seen' = seen /\ taken' = taken
    BY <1>9 DEF AcceptStream, RejectStream, NoticeDisconnect, IdleTimeout, Break, SourceError,
                runVars
  <2> DEFINE Smaller(s) == (s.open => stream[r][a].open) /\ s.wire \subseteq stream[r][a].wire
  <2>3. CASE AcceptStream(r, a) \/ RejectStream(r, a) \/ NoticeDisconnect(r, a)
    <3>1. \E s \in Streams : Smaller(s) /\ Becomes(r, a, s)
      BY <2>1, <2>3 DEF AcceptStream, RejectStream, NoticeDisconnect, Streams
    <3> QED BY <1>2, <1>6, <2>2, <3>1
  <2>4. CASE IdleTimeout(r, a) \/ Break(r, a) \/ SourceError(r, a)
    <3>1. \E s \in Streams : Smaller(s) /\ Becomes(r, a, s)
      BY <2>1, <2>4 DEF IdleTimeout, Break, SourceError, Streams
    <3> QED BY <1>2, <1>6, <2>2, <3>1
  <2> QED BY <1>9, <2>3, <2>4
<1>10. ASSUME NEW r \in Runs, NEW a \in Attempts, SendEvent(r, a)
       PROVE  WireAhead'
  <2> DEFINE server == IF NextEvent(r).type \in TerminalTypes THEN "closed" ELSE "waiting"
             wire == IF stream[r][a].up THEN stream[r][a].wire \cup {taken[r] + 1}
                     ELSE stream[r][a].wire
             s == [stream[r][a] EXCEPT !.server = server, !.wire = wire]
  <2>1. Becomes(r, a, s)
    BY <1>10 DEF SendEvent
  <2>2. server \in {"waiting", "closed"} /\ wire \in SUBSET Nat
    BY <1>0 DEF Streams, RunsTypeOK
  <2>3. s \in Streams /\ s.open = stream[r][a].open /\ s.wire = wire
    <3>1. ASSUME NEW t \in Streams
          PROVE  LET u == [t EXCEPT !.server = server, !.wire = wire]
                 IN  u \in Streams /\ u.open = t.open /\ u.wire = wire
      <4> HIDE DEF server, wire
      <4> QED BY <2>2 DEF Streams
    <3>2. stream[r][a] \in Streams
      BY <1>0
    <3> HIDE DEF server, wire
    <3> QED BY <3>1, <3>2
  <2>4. OneStreamSet(r, a, s)
    <3> HIDE DEF s
    <3> QED BY <1>0, <2>1, <2>3, BecomesOne
  <2>5. /\ taken'[r] = taken[r] + 1 /\ \A q \in Runs : q # r => taken'[q] = taken[q]
        /\ taken[r] < Len(log[r]) /\ log' = log /\ seen' = seen
    BY <1>1, <1>10 DEF SendEvent, TakeEvent, Queued
  <2>6. wire \subseteq stream[r][a].wire \cup {taken[r] + 1}
    OBVIOUS
  <2>7. \A q \in Runs : seen[q] <= taken'[q] /\ taken[q] <= taken'[q] /\ taken'[q] <= Len(log[q])
    <3> SUFFICES ASSUME NEW q \in Runs
                 PROVE  seen[q] <= taken'[q] /\ taken[q] <= taken'[q] /\ taken'[q] <= Len(log[q])
      OBVIOUS
    <3>1. /\ seen[q] \in Nat /\ taken[q] \in Nat /\ Len(log[q]) \in Nat
          /\ seen[q] <= taken[q] /\ taken[q] <= Len(log[q])
      BY <1>0, <1>1 DEF WireAhead, RunsTypeOK
    <3>2. CASE q = r
      BY <2>5, <3>1, <3>2
    <3>3. CASE q # r
      BY <2>5, <3>1, <3>3
    <3> QED BY <3>2, <3>3
  <2>8. ASSUME NEW q \in Runs, NEW b \in Attempts, stream'[q][b].open, NEW i \in stream'[q][b].wire
        PROVE  seen[q] < i /\ i <= taken'[q]
    <3>1. stream'[q][b] \in Streams /\ i \in Nat
      BY <2>4, <2>8 DEF OneStreamSet, Streams
    <3>2. CASE q = r /\ b = a
      <4>1. stream[r][a].open /\ (i \in stream[r][a].wire \/ i = taken[r] + 1)
        <5>1. stream'[r][a] = s
          BY <2>4 DEF OneStreamSet
        <5> HIDE DEF s, wire
        <5> QED BY <2>3, <2>6, <2>8, <3>2, <5>1
      <4> QED BY <1>0, <1>1, <2>5, <3>1, <3>2, <4>1 DEF WireAhead
    <3>3. CASE q # r \/ b # a
      <4>1. stream[q][b].open /\ i \in stream[q][b].wire
        BY <2>4, <2>8, <3>3 DEF OneStreamSet
      <4>2. seen[q] < i /\ i <= taken[q]
        BY <4>1 DEF WireAhead
      <4>3. taken[q] \in Nat /\ taken'[q] \in Nat /\ taken[q] <= taken'[q]
        <5>1. taken'[q] = taken[q] \/ taken'[q] = taken[q] + 1
          BY <2>5
        <5> QED BY <1>1, <5>1
      <4> QED BY <3>1, <4>2, <4>3
    <3> QED BY <3>2, <3>3
  <2> QED BY <2>5, <2>7, <2>8 DEF WireAhead
<1>11. ASSUME NEW r \in Runs, NEW a \in Attempts, NEW i \in stream[r][a].wire,
              ShowProgress(r, a, i) \/ ShowCompleted(r, a, i) \/ ShowFailed(r, a, i)
       PROVE  WireAhead'
  <2>1. /\ stream[r][a].open /\ \A j \in stream[r][a].wire : i <= j
        /\ seen' = [seen EXCEPT ![r] = i] /\ taken' = taken /\ log' = log
    BY <1>11 DEF ShowProgress, ShowCompleted, ShowFailed, Arrives, runVars
  <2>2. stream[r][a] \in Streams /\ stream[r][a].wire \subseteq Nat
    BY <1>0 DEF Streams
  <2>3. \E s \in Streams : /\ s.open => s.wire = stream[r][a].wire \ {i}
                           /\ Becomes(r, a, s)
    <3>1. CASE ShowProgress(r, a, i)
      BY <2>2, <3>1 DEF ShowProgress, Streams
    <3>2. CASE ShowCompleted(r, a, i) \/ ShowFailed(r, a, i)
      BY <2>2, <3>2 DEF ShowCompleted, ShowFailed, Streams
    <3> QED BY <1>11, <3>1, <3>2
  <2>4. PICK s \in Streams : (s.open => s.wire = stream[r][a].wire \ {i}) /\ Becomes(r, a, s)
    BY <2>3
  <2>5. OneStreamSet(r, a, s)
    BY <1>0, <2>4, BecomesOne
  <2>6. seen[r] < i /\ i <= taken[r]
    BY <2>1 DEF WireAhead
  <2>7. \A q \in Runs : seen'[q] <= taken[q]
    BY <1>0, <1>1, <2>1, <2>2, <2>6 DEF WireAhead
  <2>8. ASSUME NEW q \in Runs, NEW b \in Attempts, stream'[q][b].open, NEW j \in stream'[q][b].wire
        PROVE  seen'[q] < j /\ j <= taken[q]
    <3>1. CASE q = r /\ b = a
      <4>1. j \in stream[r][a].wire /\ j # i
        BY <2>4, <2>5, <2>8, <3>1 DEF OneStreamSet
      <4>2. i < j /\ seen'[r] = i
        <5>1. i \in Nat /\ j \in Nat /\ i <= j
          BY <2>1, <2>2, <4>1
        <5>2. seen'[r] = i
          BY <1>0, <2>1
        <5> QED BY <4>1, <5>1, <5>2
      <4> QED BY <2>1, <3>1, <4>1, <4>2 DEF WireAhead
    <3>2. CASE q # r
      BY <1>0, <2>1, <2>5, <2>8, <3>2 DEF WireAhead, OneStreamSet
    <3>3. CASE q = r /\ b # a
      BY <2>1, <2>5, <2>8, <3>3 DEF OneStreamSet, OneOpenSource
    <3> QED BY <3>1, <3>2, <3>3
  <2> QED BY <2>1, <2>7, <2>8 DEF WireAhead
<1> QED BY <1>3, <1>4, <1>5, <1>7, <1>8, <1>9, <1>10, <1>11 DEF Next, Recovery, ServerEnd, PageEnd

----------------------------------------------------------------------------
(* The outcomes the page shows *)

\* The runs that ended in one of the two ways.
Done == {r \in Runs : EndedAs(r, "completed")}
Broken == {r \in Runs : EndedAs(r, "failed")}

\* Outcomes last, and the endpoint answers 200 and 500 for them only.
LEMMA OutcomesLast ==
    ASSUME RunsTypeOK, TerminalEventAnswered, [Next]_vars
    PROVE  /\ Done \subseteq Done' /\ Broken \subseteq Broken'
           /\ \A r \in Runs : /\ ResultStatus(r) = "200" => r \in Done
                              /\ ResultStatus(r) = "500" => r \in Broken
<1>1. Done \subseteq Done' /\ Broken \subseteq Broken'
  BY RunsAreKept DEF RunsKept, Done, Broken, TerminalTypes
<1>2. \A r \in Runs : ResultStatus(r) \in {"200", "500"} => phase[r] # "lost"
  BY DEF ResultStatus
<1> QED BY <1>1, <1>2 DEF TerminalEventAnswered, Done, Broken

\* The event of an arrival is an event of the run of the page.
LEMMA ArrivalIsReal ==
    ASSUME TypeOK, OneOpenSource, WireAhead, NEW r \in Runs, NEW a \in Attempts,
           NEW i \in stream[r][a].wire, Arrives(r, a, i)
    PROVE  /\ page.run = r /\ ~page.terminal /\ page.status = "running"
           /\ log[r][i].type = "completed" => r \in Done
           /\ log[r][i].type = "failed" => r \in Broken
<1>1. stream[r][a].open /\ page.run = r /\ ~page.terminal /\ page.status = "running"
  BY DEF Arrives, OneOpenSource, IsActive
<1>2. i \in Nat /\ taken[r] \in Nat /\ seen[r] \in Nat /\ log[r] \in Seq(Events)
  BY DEF TypeOK, RunsTypeOK, Streams
<1>3. seen[r] < i /\ i <= taken[r] /\ taken[r] <= Len(log[r])
  BY <1>1 DEF WireAhead
<1>4. i \in DOMAIN log[r]
  BY <1>2, <1>3
<1> QED BY <1>1, <1>4 DEF Done, Broken, EndedAs

\* A completion is shown, and 200 answered, only for a run that completed.
LEMMA CompletionStep ==
    ASSUME IInv, [Next]_vars
    PROVE  CompletionShownIsReal' /\ ReplyIsReal'
<1>0. /\ page \in Pages /\ PageShape /\ RunsTypeOK /\ Done \subseteq Done'
      /\ \A r \in Runs : ResultStatus(r) = "200" => r \in Done
  BY OutcomesLast DEF IInv, TypeOK
<1>1. /\ page.status = "completed" => page.run \in Done
      /\ page.result # NoRun => page.result \in Done
      /\ page.at = "asking" /\ page.reply = "200" => page.run \in Done
  BY <1>0 DEF IInv, CompletionShownIsReal, ReplyIsReal, PageShape, Pages, Done
<1> DEFINE Good == /\ page'.status = "completed" => page'.run \in Done'
                   /\ page'.result # NoRun => page'.result \in Done'
                   /\ page'.at = "asking" /\ page'.reply = "200" => page'.run \in Done'
<1>2. SUFFICES Good
  <2>1. \A r \in Done' : \E i \in DOMAIN log'[r] : log'[r][i].type = "completed"
    BY DEF Done, EndedAs
  <2> QED BY <2>1 DEF CompletionShownIsReal, ReplyIsReal, EndedAs
<1>3. CASE ControlKept /\ page'.result = page.result
  BY <1>0, <1>1, <1>3 DEF ControlKept
<1>4. CASE UNCHANGED vars \/ RestartServer
  BY <1>0, <1>1, <1>4 DEF vars, RestartServer
<1>5. CASE Click
  BY <1>5 DEF Click, Fresh
<1>6. CASE OpenFirstStream \/ PostFails \/ LookupFails
  <2>1. CASE OpenFirstStream
    BY <1>0, <1>1, <2>1 DEF OpenFirstStream, Pages
  <2>2. CASE PostFails
    BY <1>0, <1>1, <2>2 DEF PostFails, Pages
  <2>3. CASE LookupFails
    BY <1>0, <1>1, <2>3 DEF LookupFails, Pages
  <2> QED BY <1>6, <2>1, <2>2, <2>3
<1>7. CASE AnswerLookup
  <2>1. page.run \in Runs
    BY <1>0, <1>7 DEF AnswerLookup, PageShape
  <2>2. /\ page'.status = page.status /\ page'.run = page.run /\ page'.result = page.result
        /\ page'.reply = ResultStatus(page.run)
    BY <1>0, <1>7 DEF AnswerLookup, Pages
  <2> QED BY <1>0, <1>1, <2>1, <2>2
<1>8. CASE RecoverCompleted
  <2>1. page.at = "asking" /\ page.reply = "200"
    BY <1>8 DEF RecoverCompleted, Answered, Classify
  <2> QED BY <1>0, <1>1, <1>8, <2>1 DEF RecoverCompleted, Pages
<1>9. CASE RecoverFailed \/ RecoverLater \/ RecoverExhausted
  <2>1. CASE RecoverFailed \/ RecoverExhausted
    <3>1. page'.status = "failed" /\ page'.at = "rest" /\ page'.result = page.result
      BY <1>0, <2>1 DEF RecoverFailed, RecoverExhausted, Pages
    <3> QED BY <1>0, <1>1, <3>1
  <2>2. CASE RecoverLater
    BY <1>0, <1>1, <2>2 DEF RecoverLater, Pages
  <2> QED BY <1>9, <2>1, <2>2
<1>10. CASE Reopen
  BY <1>0, <1>1, <1>10 DEF Reopen, Pages
<1>11. ASSUME NEW r \in Runs, ServePost(r)
       PROVE  Good
  <2>1. page.status = "running"
    BY <1>0, <1>11 DEF ServePost, PageShape
  <2>2. page'.status = page.status /\ page'.result = page.result /\ page'.at = "posted"
    BY <1>0, <1>11 DEF ServePost, Pages
  <2> QED BY <1>0, <1>1, <2>1, <2>2
<1>12. ASSUME NEW r \in Runs, LoadResult(r)
       PROVE  Good
  <2>1. r \in Done /\ page'.result = r
    BY <1>0, <1>12 DEF LoadResult, Pages
  <2>2. ControlKept
    BY <1>0, <1>12 DEF LoadResult, Pages, ControlKept
  <2> QED BY <1>0, <1>1, <2>1, <2>2 DEF ControlKept
<1>13. ASSUME NEW r \in Runs, \/ RunProgress(r) \/ RunHeartbeat(r) \/ LoadPrices(r) \/ LoadRaises(r)
       PROVE  Good
  <2>1. ControlKept /\ page'.result = page.result
    BY <1>0, <1>13 DEF RunProgress, RunHeartbeat, LoadPrices, LoadRaises, Pages, ControlKept
  <2> QED BY <1>3, <2>1
<1>14. ASSUME NEW r \in Runs, NEW a \in Attempts, ServerEnd(r, a) \/ Break(r, a)
       PROVE  Good
  <2>1. page' = page
    BY <1>14 DEF ServerEnd, AcceptStream, RejectStream, SendEvent, NoticeDisconnect, IdleTimeout,
                 Break
  <2> QED BY <1>0, <1>1, <2>1
<1>15. ASSUME NEW r \in Runs, NEW a \in Attempts, PageEnd(r, a)
       PROVE  Good
  <2>1. ASSUME NEW i \in stream[r][a].wire, ShowProgress(r, a, i)
        PROVE  Good
    <3>1. ControlKept /\ page'.result = page.result
      BY <1>0, <2>1 DEF ShowProgress, WithNode, Pages, ControlKept
    <3> QED BY <1>3, <3>1
  <2>2. ASSUME NEW i \in stream[r][a].wire, ShowCompleted(r, a, i)
        PROVE  Good
    <3>1. page.run \in Done
      BY <2>2, ArrivalIsReal DEF ShowCompleted, IInv
    <3> QED BY <1>0, <1>1, <2>2, <3>1 DEF ShowCompleted, Pages
  <2>3. ASSUME NEW i \in stream[r][a].wire, ShowFailed(r, a, i)
        PROVE  Good
    BY <1>0, <1>1, <2>3 DEF ShowFailed, Pages
  <2>4. CASE SourceError(r, a)
    <3>1. page.status = "running"
      BY <2>4 DEF SourceError, IInv, OneOpenSource
    <3> QED BY <1>0, <1>1, <2>4, <3>1 DEF SourceError, Pages
  <2> QED BY <1>15, <2>1, <2>2, <2>3, <2>4 DEF PageEnd
<1> QED BY <1>4, <1>5, <1>6, <1>7, <1>8, <1>9, <1>10, <1>11, <1>12, <1>13, <1>14, <1>15
        DEF Next, Recovery

----------------------------------------------------------------------------
(* Failures, where the proxy never answers in place of the dashboard *)

\* A stream that was opened stays opened or closed, never unopened.
LEMMA OpenedLast ==
    ASSUME TypeOK, PageShape, [Next]_vars
    PROVE  \A r \in Runs, a \in Attempts :
              stream[r][a].server # "none" => stream'[r][a].server # "none"
<1> DEFINE Kept == \A r \in Runs, a \in Attempts :
               stream[r][a].server # "none" => stream'[r][a].server # "none"
<1>0. stream \in [Runs -> [Attempts -> Streams]] /\ page \in Pages /\ RunsTypeOK
  BY DEF TypeOK
<1>1. ASSUME NEW r \in Runs, NEW a \in Attempts, NEW s \in Streams, Becomes(r, a, s),
             stream[r][a].server # "none" => s.server # "none"
      PROVE  Kept
  <2>1. OneStreamSet(r, a, s)
    BY <1>0, <1>1, BecomesOne
  <2> SUFFICES ASSUME NEW q \in Runs, NEW b \in Attempts, stream[q][b].server # "none"
               PROVE  stream'[q][b].server # "none"
    OBVIOUS
  <2>2. CASE q = r /\ b = a
    BY <1>1, <2>1, <2>2 DEF OneStreamSet
  <2>3. CASE q # r \/ b # a
    BY <2>1, <2>3 DEF OneStreamSet
  <2> QED BY <2>2, <2>3
<1>2. CASE UNCHANGED vars \/ Click \/ PostFails \/ LookupFails
  BY <1>2 DEF vars, Click, PostFails, LookupFails
<1>3. CASE Recovery /\ ~Reopen
  BY <1>3 DEF Recovery, AnswerLookup, RecoverCompleted, RecoverFailed, RecoverLater,
              RecoverExhausted
<1>4. ASSUME NEW r \in Runs, \/ ServePost(r) \/ RunProgress(r) \/ RunHeartbeat(r)
                             \/ LoadResult(r) \/ LoadPrices(r) \/ LoadRaises(r)
      PROVE  Kept
  BY <1>4 DEF ServePost, RunProgress, RunHeartbeat, LoadResult, LoadPrices, LoadRaises
<1>5. CASE OpenFirstStream \/ Reopen
  <2>1. NewStream \in Streams /\ NewStream.server # "none" /\ page.run \in Runs
    BY <1>5 DEF NewStream, Streams, OpenFirstStream, Reopen, PageShape
  <2>2. \E a \in Attempts : Becomes(page.run, a, NewStream)
    BY <1>0, <1>5 DEF OpenFirstStream, Reopen, PageShape, Pages, Attempts
  <2> QED BY <1>1, <2>1, <2>2
<1>6. CASE RestartServer
  <2>1. \A r \in Runs, a \in Attempts : stream'[r][a] =
           [stream[r][a] EXCEPT !.up = FALSE, !.wire = {},
                                !.server = IF @ = "none" THEN @ ELSE "closed"]
    BY <1>6 DEF RestartServer
  <2>2. ASSUME NEW t \in Streams, NEW server
        PROVE  [t EXCEPT !.up = FALSE, !.wire = {}, !.server = server].server = server
    BY DEF Streams
  <2> SUFFICES ASSUME NEW r \in Runs, NEW a \in Attempts, stream[r][a].server # "none"
               PROVE  stream'[r][a].server # "none"
    OBVIOUS
  <2> DEFINE server == IF stream[r][a].server = "none" THEN stream[r][a].server ELSE "closed"
  <2>3. stream'[r][a] = [stream[r][a] EXCEPT !.up = FALSE, !.wire = {}, !.server = server]
    BY <2>1
  <2>4. server = "closed" /\ stream[r][a] \in Streams
    BY <1>0
  <2> HIDE DEF server
  <2> QED BY <2>2, <2>3, <2>4
<1>7. ASSUME NEW r \in Runs, NEW a \in Attempts, ServerEnd(r, a) \/ PageEnd(r, a) \/ Break(r, a)
      PROVE  Kept
  <2> DEFINE Good(s) == stream[r][a].server # "none" => s.server # "none"
  <2>0. stream[r][a] \in Streams
    BY <1>0
  <2>1. CASE AcceptStream(r, a) \/ RejectStream(r, a) \/ NoticeDisconnect(r, a)
    <3>1. \E s \in Streams : Good(s) /\ Becomes(r, a, s)
      BY <2>0, <2>1 DEF AcceptStream, RejectStream, NoticeDisconnect, Streams
    <3> QED BY <1>1, <3>1
  <2>2. CASE IdleTimeout(r, a) \/ Break(r, a) \/ SourceError(r, a)
    <3>1. \E s \in Streams : Good(s) /\ Becomes(r, a, s)
      BY <2>0, <2>2 DEF IdleTimeout, Break, SourceError, Streams
    <3> QED BY <1>1, <3>1
  <2>3. ASSUME NEW i \in stream[r][a].wire,
               ShowProgress(r, a, i) \/ ShowCompleted(r, a, i) \/ ShowFailed(r, a, i)
        PROVE  Kept
    <3>1. \E s \in Streams : Good(s) /\ Becomes(r, a, s)
      BY <2>0, <2>3 DEF ShowProgress, ShowCompleted, ShowFailed, Streams
    <3> QED BY <1>1, <3>1
  <2>4. CASE SendEvent(r, a)
    <3> DEFINE server == IF NextEvent(r).type \in TerminalTypes THEN "closed" ELSE "waiting"
               wire == IF stream[r][a].up THEN stream[r][a].wire \cup {taken[r] + 1}
                       ELSE stream[r][a].wire
               s == [stream[r][a] EXCEPT !.server = server, !.wire = wire]
    <3>1. Becomes(r, a, s)
      BY <2>4 DEF SendEvent
    <3>2. server \in {"waiting", "closed"} /\ wire \in SUBSET Nat
      BY <1>0, <2>0 DEF Streams, RunsTypeOK
    <3>3. s \in Streams /\ s.server = server
      <4> HIDE DEF server, wire
      <4> QED BY <2>0, <3>2 DEF Streams
    <3> HIDE DEF s
    <3> QED BY <1>1, <3>1, <3>2, <3>3
  <2> QED BY <1>7, <2>1, <2>2, <2>3, <2>4 DEF ServerEnd, PageEnd
<1> QED BY <1>2, <1>3, <1>4, <1>5, <1>6, <1>7 DEF Next

\* The failure shown is kept while the control of the page is: outcomes, losses
\* and streams opened last.
LEMMA FailureKept ==
    ASSUME IInv, FailureShape, [Next]_vars, ControlKept
    PROVE  FailureShape'
<1>0. /\ page \in Pages /\ PageShape /\ TypeOK /\ RunsTypeOK /\ Broken \subseteq Broken'
      /\ RunsKept /\ NoRun \notin Runs /\ page' \in Pages
  BY OutcomesLast, RunsAreKept, PageTyped DEF IInv, TypeOK
<1>1. \A r \in Runs, a \in Attempts : stream[r][a].server # "none" => stream'[r][a].server # "none"
  BY <1>0, OpenedLast
<1>2. \A r \in Runs : /\ phase[r] = "lost" => phase'[r] = "lost"
                      /\ phase[r] # "absent" => phase'[r] # "absent"
  BY <1>0 DEF RunsKept
<1>3. \A r \in Runs : EndedAs(r, "failed") => r \in Broken'
  BY <1>0 DEF Broken
<1>4. \A r \in Broken' : \E i \in DOMAIN log'[r] : log'[r][i].type = "failed"
  BY DEF Broken, EndedAs
<1>5. page.run = NoRun \/ page.run \in Runs
  BY <1>0 DEF Pages
<1>6. FailureHasCause'
  <2> SUFFICES ASSUME page.status = "failed", page.run \in Runs
               PROVE  \/ page.terminal /\ \/ page.run \in Broken' \/ phase'[page.run] = "lost"
                                          \/ page.reply = "proxy"
                      \/ ~page.terminal /\ \A a \in Attempts : stream'[page.run][a].server # "none"
    BY <1>4, <1>5 DEF FailureHasCause, ControlKept, EndedAs
  <2> QED BY <1>0, <1>1, <1>2, <1>3 DEF FailureShape, FailureHasCause
<1>7. page'.run # NoRun => phase'[page'.run] # "absent"
  BY <1>2, <1>5 DEF FailureShape, ControlKept
<1>8. (page'.at = "asking" => /\ page'.reply = "500" => EndedAs(page.run, "failed")
                              /\ page'.reply = "404" => phase[page.run] = "lost")
  BY DEF FailureShape, ControlKept
<1>9. page'.at = "asking" => page'.run = page.run /\ page.run \in Runs
  BY <1>0 DEF ControlKept, PageShape
<1>10. page'.at \in {"streaming", "asking", "pausing"} =>
          \A a \in 0 .. page'.attempt : stream'[page'.run][a].server # "none"
  <2> SUFFICES ASSUME page.at \in {"streaming", "asking", "pausing"}, NEW a \in 0 .. page.attempt
               PROVE  stream'[page.run][a].server # "none"
    BY DEF ControlKept
  <2>1. a \in Attempts /\ page.run \in Runs
    BY <1>0 DEF Pages, Attempts, PageShape
  <2> QED BY <1>1, <2>1 DEF FailureShape
<1> QED BY <1>2, <1>3, <1>4, <1>6, <1>7, <1>8, <1>9, <1>10 DEF FailureShape, EndedAs

\* The steps that do change the control of the page: a failure is shown for the
\* failed event, for the answers 500, 404 and the proxy's own, after the last
\* attempt, and when the run could not be started.
LEMMA FailureStep ==
    ASSUME IInv, FailureShape, [Next]_vars
    PROVE  FailureShape'
<1>0. /\ page \in Pages /\ PageShape /\ TypeOK /\ RunsTypeOK /\ Broken \subseteq Broken'
      /\ RunsKept /\ NoRun \notin Runs /\ 0 \in Attempts
      /\ \A r \in Runs : ResultStatus(r) = "500" => r \in Broken
  BY OutcomesLast, RunsAreKept DEF IInv, TypeOK, Attempts
<1>1. \A r \in Runs, a \in Attempts : stream[r][a].server # "none" => stream'[r][a].server # "none"
  BY <1>0, OpenedLast
<1>2. \A r \in Runs : /\ phase[r] = "lost" => phase'[r] = "lost"
                      /\ phase[r] # "absent" => phase'[r] # "absent"
  BY <1>0 DEF RunsKept
<1>3. \A r \in Runs : EndedAs(r, "failed") => r \in Broken
  BY DEF Broken
<1>4. \A r \in Broken' : \E i \in DOMAIN log'[r] : log'[r][i].type = "failed"
  BY DEF Broken, EndedAs
<1>5. page.run = NoRun \/ page.run \in Runs
  BY <1>0 DEF Pages
<1>6. page.run # NoRun => phase'[page.run] # "absent"
  BY <1>2, <1>5 DEF FailureShape
<1> DEFINE Opened == page.at \in {"streaming", "asking", "pausing"} =>
               /\ page.run \in Runs
               /\ \A a \in 0 .. page.attempt : stream'[page.run][a].server # "none"
<1>7. Opened
  <2> SUFFICES ASSUME page.at \in {"streaming", "asking", "pausing"}
               PROVE  /\ page.run \in Runs
                      /\ \A a \in 0 .. page.attempt : stream'[page.run][a].server # "none"
    OBVIOUS
  <2>1. 0 .. page.attempt \subseteq Attempts /\ page.run \in Runs
    BY <1>0 DEF Pages, Attempts, PageShape
  <2> QED BY <1>1, <2>1 DEF FailureShape
<1>8. CASE Click
  BY <1>8, <1>0 DEF Click, Fresh, FailureShape, FailureHasCause
<1>9. ASSUME NEW r \in Runs, ServePost(r)
      PROVE  FailureShape'
  <2>1. page'.status = "running" /\ page'.at = "posted" /\ page'.run = r
    BY <1>0, <1>9 DEF ServePost, PageShape, Pages
  <2>2. phase'[r] = "started"
    BY <1>0, <1>9 DEF ServePost, CreateRun, Advance, RunsTypeOK
  <2> QED BY <2>1, <2>2 DEF FailureShape, FailureHasCause
<1>10. CASE OpenFirstStream
  <2>1. page.run \in Runs /\ NewStream \in Streams /\ page.attempt = 0 /\ page.status = "running"
    BY <1>10, <1>0 DEF OpenFirstStream, PageShape, NewStream, Streams
  <2>2. OneStreamSet(page.run, 0, NewStream)
    BY <1>0, <1>10, <2>1, BecomesOne DEF OpenFirstStream, TypeOK
  <2>3. /\ page'.status = "running" /\ page'.at = "streaming" /\ page'.run = page.run
        /\ page'.attempt = 0
    BY <1>0, <1>10, <2>1 DEF OpenFirstStream, Pages
  <2>4. stream'[page.run][0].server # "none"
    BY <2>2 DEF OneStreamSet, NewStream
  <2> QED BY <1>6, <2>3, <2>4 DEF FailureShape, FailureHasCause
<1>11. CASE PostFails
  <2>1. page'.run = NoRun /\ page'.at = "rest"
    BY <1>0, <1>11 DEF PostFails, Pages
  <2> QED BY <2>1 DEF FailureShape, FailureHasCause
<1>12. CASE LookupFails \/ AnswerLookup
  <2>1. page.at = "asking" /\ page.run \in Runs /\ page.status = "running"
    BY <1>0, <1>12 DEF LookupFails, AnswerLookup, PageShape
  <2>2. /\ page'.status = "running" /\ page'.at = "asking" /\ page'.run = page.run
        /\ page'.attempt = page.attempt
    BY <1>0, <1>12, <2>1 DEF LookupFails, AnswerLookup, Pages
  <2>3. page'.reply \in {"raised", "proxy"} \/ page'.reply = ResultStatus(page.run)
    BY <1>0, <1>12 DEF LookupFails, AnswerLookup, Pages
  <2>4. phase[page.run] # "absent"
    BY <1>0, <2>1 DEF FailureShape
  <2>5. /\ page'.reply = "500" => page.run \in Broken
        /\ page'.reply = "404" => phase[page.run] = "lost"
    BY <1>0, <2>1, <2>3, <2>4 DEF ResultStatus
  <2>6. /\ page'.reply = "500" => \E i \in DOMAIN log'[page.run] : log'[page.run][i].type = "failed"
        /\ page'.reply = "404" => phase'[page.run] = "lost"
    BY <1>0, <1>2, <1>4, <2>1, <2>5
  <2> QED BY <1>6, <1>7, <2>1, <2>2, <2>5, <2>6 DEF FailureShape, FailureHasCause, EndedAs
<1>13. CASE RecoverCompleted
  <2>1. page'.status = "completed" /\ page'.at = "rest" /\ page'.run = page.run
    BY <1>0, <1>13 DEF RecoverCompleted, Pages
  <2> QED BY <1>6, <2>1 DEF FailureShape, FailureHasCause
<1>14. CASE RecoverFailed
  <2>1. page.at = "asking" /\ page.run \in Runs /\ page.reply \notin {"none", "raised", "200", "409"}
    BY <1>0, <1>14 DEF RecoverFailed, Answered, Undecided, Classify, PageShape
  <2>2. page.run \in Broken \/ phase[page.run] = "lost" \/ page.reply = "proxy"
    BY <1>0, <1>3, <2>1 DEF FailureShape, Pages
  <2>3. /\ page'.run = page.run /\ page'.terminal /\ page'.at = "rest"
        /\ page'.reply = page.reply
    BY <1>0, <1>14 DEF RecoverFailed, Pages
  <2>4. \/ \E i \in DOMAIN log'[page.run] : log'[page.run][i].type = "failed"
        \/ phase'[page.run] = "lost" \/ page.reply = "proxy"
    BY <1>0, <1>2, <1>4, <2>1, <2>2
  <2> QED BY <1>6, <2>3, <2>4 DEF FailureShape, FailureHasCause, EndedAs
<1>15. CASE RecoverLater
  <2>1. /\ page.at = "asking" /\ page'.at = "pausing" /\ page'.run = page.run
        /\ page'.attempt = page.attempt /\ page'.status = "running"
    BY <1>0, <1>15 DEF RecoverLater, Answered, PageShape, Pages
  <2> QED BY <1>6, <1>7, <2>1 DEF FailureShape, FailureHasCause
<1>16. CASE RecoverExhausted
  <2>1. page.at = "asking" /\ ~page.terminal /\ page.attempt = Retries
    BY <1>0, <1>16 DEF RecoverExhausted, Answered, PageShape, Pages, Attempts
  <2>2. page'.run = page.run /\ ~page'.terminal /\ page'.at = "rest"
    BY <1>0, <1>16, <2>1 DEF RecoverExhausted, Pages
  <2>3. \A a \in Attempts : stream'[page.run][a].server # "none"
    BY <1>7, <2>1 DEF Attempts
  <2> QED BY <1>6, <2>2, <2>3 DEF FailureShape, FailureHasCause
<1>17. CASE Reopen
  <2>1. /\ page.at = "pausing" /\ page.run \in Runs /\ page.attempt + 1 \in Attempts
        /\ NewStream \in Streams /\ page.status = "running" /\ page.attempt \in Nat
    BY <1>17, <1>0 DEF Reopen, PageShape, NewStream, Streams, Pages, Attempts
  <2>2. OneStreamSet(page.run, page.attempt + 1, NewStream)
    BY <1>0, <1>17, <2>1, BecomesOne DEF Reopen, TypeOK
  <2>3. /\ page'.status = "running" /\ page'.at = "streaming" /\ page'.run = page.run
        /\ page'.attempt = page.attempt + 1
    BY <1>0, <1>17, <2>1 DEF Reopen, Pages
  <2>4. stream'[page.run][page.attempt + 1].server # "none"
    BY <2>2 DEF OneStreamSet, NewStream
  <2>5. \A a \in 0 .. page.attempt + 1 : a \in 0 .. page.attempt \/ a = page.attempt + 1
    BY <2>1
  <2>6. \A a \in 0 .. page'.attempt : stream'[page'.run][a].server # "none"
    BY <1>7, <2>1, <2>3, <2>4, <2>5
  <2> QED BY <1>6, <2>3, <2>6 DEF FailureShape, FailureHasCause
<1>18. ASSUME NEW r \in Runs, NEW a \in Attempts, NEW i \in stream[r][a].wire,
              ShowCompleted(r, a, i) \/ ShowFailed(r, a, i)
       PROVE  FailureShape'
  <2>1. page.run = r /\ (log[r][i].type = "failed" => r \in Broken)
    BY <1>18, ArrivalIsReal DEF ShowCompleted, ShowFailed, IInv
  <2>2. CASE ShowCompleted(r, a, i)
    <3>1. page'.status = "completed" /\ page'.at = "rest" /\ page'.run = page.run
      BY <1>0, <2>2 DEF ShowCompleted, Pages
    <3> QED BY <1>6, <3>1 DEF FailureShape, FailureHasCause
  <2>3. CASE ShowFailed(r, a, i)
    <3>1. page'.terminal /\ page'.at = "rest" /\ page'.run = r
      BY <1>0, <2>1, <2>3 DEF ShowFailed, Pages
    <3>2. \E j \in DOMAIN log'[r] : log'[r][j].type = "failed"
      BY <1>0, <1>4, <2>1, <2>3 DEF ShowFailed
    <3> QED BY <1>6, <2>1, <3>1, <3>2 DEF FailureShape, FailureHasCause, EndedAs
  <2> QED BY <1>18, <2>2, <2>3
<1>19. ASSUME NEW r \in Runs, NEW a \in Attempts, SourceError(r, a)
       PROVE  FailureShape'
  <2>1. page.at = "streaming" /\ page.status = "running"
    BY <1>19 DEF SourceError, IInv, OneOpenSource
  <2>2. /\ page'.at = "asking" /\ page'.run = page.run /\ page'.attempt = page.attempt
        /\ page'.status = "running" /\ page'.reply = "none"
    BY <1>0, <1>19, <2>1 DEF SourceError, Pages
  <2> QED BY <1>6, <1>7, <2>1, <2>2 DEF FailureShape, FailureHasCause
<1>20. ASSUME NEW r \in Runs, NEW a \in Attempts,
              \/ UNCHANGED vars \/ RestartServer \/ ServerEnd(r, a) \/ Break(r, a)
              \/ RunProgress(r) \/ RunHeartbeat(r)
              \/ LoadResult(r) \/ LoadPrices(r) \/ LoadRaises(r)
              \/ \E i \in stream[r][a].wire : ShowProgress(r, a, i)
       PROVE  FailureShape'
  BY <1>0, <1>20, QuietControl, FailureKept
<1>21. CASE UNCHANGED vars \/ RestartServer
  <2>1. ControlKept
    BY <1>21 DEF vars, RestartServer, ControlKept
  <2> QED BY <2>1, FailureKept
<1>22. ASSUME NEW r \in Runs, \/ ServePost(r) \/ RunProgress(r) \/ RunHeartbeat(r)
                              \/ LoadResult(r) \/ LoadPrices(r) \/ LoadRaises(r)
       PROVE  FailureShape'
  BY <1>0, <1>9, <1>20, <1>22
<1>23. ASSUME NEW r \in Runs, NEW a \in Attempts, ServerEnd(r, a) \/ PageEnd(r, a) \/ Break(r, a)
       PROVE  FailureShape'
  BY <1>18, <1>19, <1>20, <1>23 DEF PageEnd
<1> QED BY <1>8, <1>10, <1>11, <1>12, <1>13, <1>14, <1>15, <1>16, <1>17, <1>21, <1>22, <1>23
        DEF Next, Recovery

----------------------------------------------------------------------------
(* Events without faults *)

\* Without a fault, where run r is: one stream at most, which the page keeps open
\* until it has shown the terminal event, the last of the queue; so the stream
\* never falls silent and nothing is taken for nobody.
Undisturbed(r) ==
    /\ phase[r] # "lost"
    /\ phase[r] = "absent" => /\ page.run # r /\ log[r] = <<>>
                              /\ \A a \in Attempts : stream[r][a] = NoStream
    /\ \A a \in Attempts \ {0} : stream[r][a] = NoStream
    /\ \A i \in DOMAIN log[r] : log[r][i].type \in TerminalTypes => i = Len(log[r])
    /\ stream[r][0].server # "closed" =>
          \A i \in 1 .. taken[r] : log[r][i].type \notin TerminalTypes
    /\ page.run = r =>
          /\ ~page.terminal => page.at \in {"posted", "streaming"}
          /\ page.at = "posted" => taken[r] = 0 /\ stream[r][0] = NoStream
          /\ page.at = "streaming" => stream[r][0].open /\ stream[r][0].up
          /\ page.terminal => seen[r] = Len(log[r]) /\ Ended(r)
          /\ \A i \in 1 .. taken[r] : i <= seen[r] \/ i \in stream[r][0].wire

Faultless == faults = 0 => \A r \in Runs : Undisturbed(r)

\* What Undisturbed says of the page does not change.
SamePage ==
    /\ page'.run = page.run /\ page'.terminal = page.terminal /\ page'.at = page.at

\* A step that leaves the run, its streams and what the page knows of it alone.
LEMMA UndisturbedKept ==
    ASSUME NEW r \in Runs, Undisturbed(r),
           phase'[r] = phase[r], log'[r] = log[r], taken'[r] = taken[r], seen'[r] = seen[r],
           stream'[r] = stream[r], page'.run = r => SamePage
    PROVE  Undisturbed(r)'
<1>1. Ended(r)' = Ended(r)
  BY DEF Ended, EndedAs
<1>2. CASE page'.run # r
  BY <1>2 DEF Undisturbed
<1>3. CASE page'.run = r
  BY <1>1, <1>3 DEF Undisturbed, SamePage
<1> QED BY <1>2, <1>3

\* A step of a run's task: it emits the terminal event last, and none after it.
LEMMA TaskUndisturbed ==
    ASSUME IInv, NEW r \in Runs, Undisturbed(r), RunStep(r) \/ Heartbeat(r),
           stream' = stream, page' = page, seen' = seen
    PROVE  \A s \in Runs : Undisturbed(s) => Undisturbed(s)'
<1>0. RunsTypeOK /\ TerminalEventAnswered
  BY DEF IInv, TypeOK
<1>1. PICK q \in Phases, new \in Seq(Events) : TaskStep(r, q, new)
  BY <1>0, TaskSteps
<1>2. /\ log' = [log EXCEPT ![r] = @ \o new] /\ phase' = [phase EXCEPT ![r] = q]
      /\ log \in [Runs -> Seq(Events)] /\ phase \in [Runs -> Phases]
      /\ taken' = taken /\ phase[r] \in {"absent", "started"} \cup Executing
  BY <1>0, <1>1 DEF TaskStep, Advance, RunsTypeOK
<1>3. /\ phase'[r] = q /\ q # "lost" /\ q # "absent"
      /\ \A s \in Runs : s # r => phase'[s] = phase[s]
  <2>1. q # "lost" /\ q # "absent"
    BY <1>1 DEF TaskStep, Executing, TerminalTypes
  <2> QED BY <1>2, <2>1
<1>4. Appended(r, new)
  BY <1>2, AppendedLog
<1>5. ~Ended(r)
  BY <1>0, <1>2 DEF Ended, TerminalEventAnswered, TerminalTypes, ResultStatus, Executing
<1>6. phase[r] # "absent"
  BY DEF RunStep, Heartbeat, BeginRun, CollectPosts, StartWorkflow, FinishNode, BuildResult,
         RecordPrices, CompleteRun, FailRun, Advance, Executing
<1>7. Len(log[r]) \in Nat /\ Len(new) \in Nat /\ taken[r] \in Nat /\ taken[r] <= Len(log[r])
  BY <1>0, <1>2 DEF RunsTypeOK, IInv, WireAhead
<1>8. \A i \in DOMAIN log'[r] : log'[r][i].type \in TerminalTypes => i = Len(log'[r])
  <2> SUFFICES ASSUME NEW i \in DOMAIN log'[r], log'[r][i].type \in TerminalTypes
               PROVE  i = Len(log'[r])
    OBVIOUS
  <2>1. i \notin DOMAIN log[r]
    BY <1>4, <1>5 DEF Appended, Ended, EndedAs
  <2>2. PICK j \in DOMAIN new : i = Len(log[r]) + j
    BY <2>1, <1>4 DEF Appended
  <2>3. new[j].type \in TerminalTypes
    BY <2>2, <1>4 DEF Appended
  <2>4. Len(new) = 1
    BY <1>1, <2>3 DEF TaskStep
  <2>5. j = 1
    BY <2>4
  <2> QED BY <2>2, <2>4, <2>5, <1>4 DEF Appended
<1>9. \A i \in 1 .. taken[r] : log'[r][i] = log[r][i]
  <2>1. 1 .. taken[r] \subseteq DOMAIN log[r]
    BY <1>2, <1>7
  <2> QED BY <2>1, <1>4 DEF Appended
<1>10. ~page.terminal \/ page.run # r
  BY <1>5 DEF Undisturbed
<1>11. Undisturbed(r)'
  BY <1>2, <1>3, <1>6, <1>8, <1>9, <1>10 DEF Undisturbed
<1>12. ASSUME NEW s \in Runs, s # r, Undisturbed(s)
       PROVE  Undisturbed(s)'
  BY <1>2, <1>3, <1>4, <1>12, UndisturbedKept DEF Appended, SamePage
<1> QED BY <1>11, <1>12

\* A new run: nothing is known of it yet.
LEMMA ServeUndisturbed ==
    ASSUME IInv, NEW r \in Runs, Undisturbed(r), ServePost(r)
    PROVE  \A s \in Runs : Undisturbed(s) => Undisturbed(s)'
<1>0. /\ RunsTypeOK /\ page \in Pages /\ ~page.terminal
      /\ Undisturbed(r) /\ phase[r] = "absent"
  BY DEF IInv, TypeOK, PageShape, ServePost, CreateRun, Advance
<1>1. /\ log' = [log EXCEPT ![r] = @ \o <<>>] /\ phase' = [phase EXCEPT ![r] = "started"]
      /\ taken' = taken /\ stream' = stream /\ seen' = seen
      /\ page' = [page EXCEPT !.at = "posted", !.run = r]
  BY DEF ServePost, CreateRun, Advance
<1>2. log[r] = <<>> /\ \A a \in Attempts : stream[r][a] = NoStream
  BY <1>0 DEF Undisturbed
<1>3. 0 \in Attempts /\ taken[r] = 0
  <2>1. taken[r] \in Nat /\ taken[r] <= Len(log[r])
    BY <1>0 DEF RunsTypeOK, IInv, WireAhead
  <2>2. Len(log[r]) = 0
    BY <1>2
  <2> QED BY <2>1, <2>2 DEF Attempts
<1>4. log'[r] = <<>> /\ \A s \in Runs : s # r => log'[s] = log[s]
  BY <1>0, <1>1, <1>2 DEF RunsTypeOK
<1>5. phase'[r] = "started" /\ \A s \in Runs : s # r => phase'[s] = phase[s]
  BY <1>0, <1>1 DEF RunsTypeOK
<1>6. page'.run = r /\ page'.at = "posted" /\ ~page'.terminal
  BY <1>0, <1>1 DEF Pages
<1>7. Undisturbed(r)'
  BY <1>1, <1>2, <1>3, <1>4, <1>5, <1>6 DEF Undisturbed
<1>8. ASSUME NEW s \in Runs, s # r, Undisturbed(s)
      PROVE  Undisturbed(s)'
  BY <1>1, <1>4, <1>5, <1>6, <1>8, UndisturbedKept
<1> QED BY <1>7, <1>8

\* The first stream of a run, the only one it will have.
LEMMA OpenUndisturbed ==
    ASSUME IInv, OpenFirstStream
    PROVE  \A s \in Runs : Undisturbed(s) => Undisturbed(s)'
<1>0. /\ page.run \in Runs /\ ~page.terminal /\ 0 \in Attempts /\ NewStream \in Streams
      /\ stream \in [Runs -> [Attempts -> Streams]] /\ page \in Pages
      /\ page' = [page EXCEPT !.at = "streaming"] /\ page.at = "posted"
      /\ phase' = phase /\ log' = log /\ taken' = taken /\ seen' = seen
  BY DEF IInv, TypeOK, PageShape, OpenFirstStream, Attempts, NewStream, Streams, runVars
<1>1. OneStreamSet(page.run, 0, NewStream)
  BY <1>0, BecomesOne DEF OpenFirstStream
<1>2. /\ page'.at = "streaming" /\ page'.run = page.run /\ ~page'.terminal
  BY <1>0 DEF Pages
<1>3. ASSUME NEW s \in Runs, s = page.run, Undisturbed(s)
      PROVE  Undisturbed(s)'
  <2>1. phase[s] # "absent" /\ taken[s] = 0
    BY <1>0, <1>3 DEF Undisturbed
  <2>2. stream'[s][0] = NewStream /\ \A a \in Attempts \ {0} : stream'[s][a] = stream[s][a]
    BY <1>1, <1>3 DEF OneStreamSet
  <2>3. 1 .. taken[s] = {}
    BY <2>1
  <2> QED BY <1>0, <1>2, <1>3, <2>1, <2>2, <2>3 DEF Undisturbed, NewStream
<1>4. ASSUME NEW s \in Runs, s # page.run, Undisturbed(s)
      PROVE  Undisturbed(s)'
  <2>1. stream'[s] = stream[s]
    <3>1. stream'[s] \in [Attempts -> Streams] /\ stream[s] \in [Attempts -> Streams]
      BY <1>0, <1>1 DEF OneStreamSet
    <3>2. \A a \in Attempts : stream'[s][a] = stream[s][a]
      BY <1>1, <1>4 DEF OneStreamSet
    <3> QED BY <3>1, <3>2
  <2> QED BY <1>0, <1>2, <1>4, <2>1, UndisturbedKept
<1> QED BY <1>3, <1>4

\* Steps at one stream leave the other runs alone.
LEMMA OtherRuns ==
    ASSUME stream \in [Runs -> [Attempts -> Streams]], NEW r \in Runs, NEW a \in Attempts,
           NEW s \in Streams, Becomes(r, a, s),
           phase' = phase, log' = log, \A q \in Runs : q # r => taken'[q] = taken[q],
           \A q \in Runs : q # r => seen'[q] = seen[q], SamePage \/ page'.run = r
    PROVE  \A q \in Runs : q # r /\ Undisturbed(q) => Undisturbed(q)'
<1>1. OneStreamSet(r, a, s)
  BY BecomesOne
<1>2. ASSUME NEW q \in Runs, q # r
      PROVE  stream'[q] = stream[q]
  <2>1. stream'[q] \in [Attempts -> Streams] /\ stream[q] \in [Attempts -> Streams]
    BY <1>1 DEF OneStreamSet
  <2>2. \A b \in Attempts : stream'[q][b] = stream[q][b]
    BY <1>1, <1>2 DEF OneStreamSet
  <2> QED BY <2>1, <2>2
<1> QED BY <1>2, UndisturbedKept

\* The server's end: a terminal event closes the stream, so a stream that waits
\* has one to come and never falls silent.
LEMMA ServerUndisturbed ==
    ASSUME IInv, NEW r \in Runs, NEW a \in Attempts, ServerEnd(r, a), Undisturbed(r)
    PROVE  \A s \in Runs : Undisturbed(s) => Undisturbed(s)'
<1>0. /\ stream \in [Runs -> [Attempts -> Streams]] /\ stream[r][a] \in Streams
      /\ RunsTypeOK /\ seen \in [Runs -> Nat] /\ 0 \in Attempts /\ TerminalEventAnswered
  BY DEF IInv, TypeOK, Attempts, PageAssumption
<1>1. a = 0
  BY DEF ServerEnd, AcceptStream, RejectStream, SendEvent, NoticeDisconnect, IdleTimeout,
         Undisturbed, NoStream
<1>2. phase[r] # "lost" /\ (phase[r] = "absent" => stream[r][0] = NoStream)
  BY <1>0 DEF Undisturbed
<1>3. taken[r] \in Nat /\ Len(log[r]) \in Nat /\ log[r] \in Seq(Events)
      /\ seen[r] \in Nat /\ seen[r] <= taken[r] /\ taken[r] <= Len(log[r])
  BY <1>0 DEF RunsTypeOK, IInv, WireAhead
<1>4. ~RejectStream(r, a)
  BY <1>1, <1>2 DEF RejectStream, NoStream
<1>5. ~IdleTimeout(r, a)
  <2> SUFFICES ASSUME IdleTimeout(r, a) PROVE FALSE
    OBVIOUS
  <2>1. Ended(r) /\ ~Queued(r) /\ stream[r][0].server = "waiting"
    BY <1>0, <1>1 DEF IdleTimeout, TerminalEventAnswered, ResultStatus, Ended, TerminalTypes
  <2>2. PICK i \in DOMAIN log[r] : log[r][i].type \in TerminalTypes
    BY <2>1 DEF Ended, EndedAs
  <2>3. i \in 1 .. taken[r]
    BY <1>3, <2>1, <2>2 DEF Queued
  <2> QED BY <2>1, <2>2, <2>3 DEF Undisturbed
<1> DEFINE Known == page' = page /\ phase' = phase /\ log' = log /\ seen' = seen
<1>6. CASE AcceptStream(r, a) \/ NoticeDisconnect(r, a)
  <2> DEFINE x == [stream[r][a] EXCEPT !.server =
                      IF AcceptStream(r, a) THEN "waiting" ELSE "closed"]
  <2>1. /\ x \in Streams /\ Becomes(r, a, x) /\ Known /\ taken' = taken
        /\ x.server = "waiting" => stream[r][a].server = "opening"
        /\ x.open = stream[r][a].open /\ x.up = stream[r][a].up /\ x.wire = stream[r][a].wire
        /\ stream[r][a].server # "none" /\ x.server # "none"
        /\ stream[r][a].server # "closed"
    BY <1>0, <1>6 DEF AcceptStream, NoticeDisconnect, Streams, runVars
  <2> HIDE DEF x
  <2>2. OneStreamSet(r, 0, x)
    BY <1>0, <1>1, <2>1, BecomesOne
  <2>3. Undisturbed(r)'
    <3>1. stream'[r][0] = x /\ \A b \in Attempts \ {0} : stream'[r][b] = stream[r][b]
      BY <2>2 DEF OneStreamSet
    <3>2. phase[r] # "absent" /\ ~(page.run = r /\ page.at = "posted")
      BY <1>0, <1>1, <2>1 DEF Undisturbed, NoStream
    <3>3. Ended(r)' = Ended(r)
      BY <2>1 DEF Ended, EndedAs
    <3>4. x.server # "closed" => \A j \in 1 .. taken'[r] : log'[r][j].type \notin TerminalTypes
      BY <1>1, <2>1 DEF Undisturbed
    <3>5. \A b \in Attempts \ {0} : stream'[r][b] = NoStream
      BY <3>1 DEF Undisturbed
    <3>6. page.run = r => /\ page.at = "streaming" => x.open /\ x.up
                          /\ \A j \in 1 .. taken'[r] : j <= seen'[r] \/ j \in x.wire
      BY <1>1, <2>1 DEF Undisturbed
    <3> HIDE DEF Known
    <3>7. Known
      BY <2>1
    <3> QED BY <3>1, <3>2, <3>3, <3>4, <3>5, <3>6, <3>7 DEF Undisturbed, Known
  <2> QED BY <1>0, <2>1, <2>3, OtherRuns DEF SamePage
<1>7. CASE SendEvent(r, a)
  <2> DEFINE x == [stream[r][a] EXCEPT
                      !.server = IF NextEvent(r).type \in TerminalTypes THEN "closed" ELSE @,
                      !.wire = IF stream[r][a].up THEN @ \cup {taken[r] + 1} ELSE @]
  <2>1. /\ x \in Streams /\ Becomes(r, a, x) /\ Known
        /\ taken' = [taken EXCEPT ![r] = @ + 1] /\ taken[r] < Len(log[r])
        /\ stream[r][a].server = "waiting"
        /\ x.server # "closed" => log[r][taken[r] + 1].type \notin TerminalTypes
        /\ x.open = stream[r][a].open /\ x.up = stream[r][a].up
        /\ x.wire = IF stream[r][a].up THEN stream[r][a].wire \cup {taken[r] + 1}
                    ELSE stream[r][a].wire
    <3>1. taken[r] + 1 \in Nat
      BY <1>3
    <3>2. stream[r][a].wire \cup {taken[r] + 1} \in SUBSET Nat
      BY <1>0, <3>1 DEF Streams
    <3>3. x \in Streams
      BY <1>0, <3>2 DEF Streams
    <3>4. /\ x.server # "closed" => NextEvent(r).type \notin TerminalTypes
          /\ x.open = stream[r][a].open /\ x.up = stream[r][a].up
          /\ x.wire = IF stream[r][a].up THEN stream[r][a].wire \cup {taken[r] + 1}
                      ELSE stream[r][a].wire
      BY <1>0 DEF Streams
    <3>5. /\ Becomes(r, a, x) /\ Known /\ TakeEvent(r)
          /\ stream[r][a].server = "waiting"
      BY <1>7, Zenon DEF SendEvent, TakeEvent
    <3> QED BY <3>3, <3>4, <3>5, Zenon DEF TakeEvent, Queued, NextEvent
  <2> HIDE DEF x
  <2>2. OneStreamSet(r, 0, x)
    BY <1>0, <1>1, <2>1, BecomesOne
  <2>3. taken'[r] = taken[r] + 1 /\ \A q \in Runs : q # r => taken'[q] = taken[q]
    BY <1>0, <2>1 DEF RunsTypeOK
  <2>4. Undisturbed(r)'
    <3>1. stream'[r][0] = x /\ \A b \in Attempts \ {0} : stream'[r][b] = stream[r][b]
      BY <2>2 DEF OneStreamSet
    <3>2. phase[r] # "absent" /\ ~(page.run = r /\ page.at = "posted")
      BY <1>0, <1>1, <2>1 DEF Undisturbed, NoStream
    <3>3. ~(page.run = r /\ page.terminal)
      BY <1>3, <2>1 DEF Undisturbed
    <3>4. 1 .. taken'[r] = 1 .. taken[r] \cup {taken[r] + 1}
      BY <1>3, <2>3
    <3>5. page.run = r => stream[r][0].up
      BY <3>2, <3>3 DEF Undisturbed
    <3>6. x.server # "closed" => \A i \in 1 .. taken'[r] : log[r][i].type \notin TerminalTypes
      BY <1>1, <2>1, <3>4 DEF Undisturbed
    <3>7. page.run = r => \A i \in 1 .. taken'[r] : i <= seen[r] \/ i \in x.wire
      BY <1>1, <2>1, <3>4, <3>5 DEF Undisturbed
    <3>8. page.run = r => page.at = "streaming"
      BY <3>2, <3>3 DEF Undisturbed
    <3>9. page.run = r => x.open /\ x.up
      BY <1>1, <2>1, <3>8 DEF Undisturbed
    <3> HIDE DEF Known
    <3>10. Known
      BY <2>1
    <3> QED BY <3>1, <3>2, <3>3, <3>6, <3>7, <3>8, <3>9, <3>10 DEF Undisturbed, Known
  <2> QED BY <1>0, <2>1, <2>3, <2>4, OtherRuns DEF SamePage
<1> QED BY <1>4, <1>5, <1>6, <1>7 DEF ServerEnd

\* The page's end: the events of the open stream are shown in order, the
\* terminal one last.
LEMMA PageUndisturbed ==
    ASSUME IInv, NEW r \in Runs, NEW a \in Attempts, PageEnd(r, a), Undisturbed(r)
    PROVE  \A s \in Runs : Undisturbed(s) => Undisturbed(s)'
<1>0. /\ stream \in [Runs -> [Attempts -> Streams]] /\ stream[r][a] \in Streams
      /\ RunsTypeOK /\ seen \in [Runs -> Nat] /\ 0 \in Attempts /\ page \in Pages
  BY DEF IInv, TypeOK, Attempts, PageAssumption
<1>1. /\ stream[r][a].open /\ page.run = r /\ ~page.terminal /\ page.at = "streaming"
      /\ stream[r][a].wire \subseteq Nat
  <2>1. stream[r][a].open
    BY DEF PageEnd, ShowProgress, ShowCompleted, ShowFailed, Arrives, SourceError
  <2> QED BY <1>0, <2>1 DEF IInv, OneOpenSource, IsActive, Streams
<1>2. a = 0 /\ stream[r][0].up
  BY <1>1 DEF Undisturbed, NoStream
<1>3. ~SourceError(r, a)
  BY <1>2 DEF SourceError
<1>4. PICK i \in stream[r][a].wire :
         ShowProgress(r, a, i) \/ ShowCompleted(r, a, i) \/ ShowFailed(r, a, i)
  BY <1>3 DEF PageEnd
<1>5. /\ i \in Nat /\ \A j \in stream[r][a].wire : i <= j
      /\ seen' = [seen EXCEPT ![r] = i]
      /\ phase' = phase /\ log' = log /\ taken' = taken
  BY <1>1, <1>4 DEF ShowProgress, ShowCompleted, ShowFailed, Arrives, runVars
<1>6. /\ seen'[r] = i /\ \A q \in Runs : q # r => seen'[q] = seen[q]
      /\ taken[r] \in Nat /\ seen[r] \in Nat /\ log[r] \in Seq(Events)
      /\ seen[r] < i /\ i <= taken[r] /\ taken[r] <= Len(log[r])
      /\ \A j \in stream[r][a].wire : j <= taken[r]
  BY <1>0, <1>1, <1>5 DEF RunsTypeOK, IInv, WireAhead
<1>7. i \in DOMAIN log[r]
  BY <1>5, <1>6
<1>8. phase[r] # "absent"
  BY <1>1 DEF Undisturbed
<1>9. CASE ShowProgress(r, a, i)
  <2> DEFINE x == [stream[r][a] EXCEPT !.wire = @ \ {i}]
  <2>1. /\ x \in Streams /\ Becomes(r, a, x) /\ SamePage
        /\ x.server = stream[r][a].server /\ x.open = stream[r][a].open
        /\ x.up = stream[r][a].up /\ x.wire = stream[r][a].wire \ {i}
    BY <1>0, <1>9 DEF ShowProgress, SamePage, WithNode, Streams, Pages
  <2> HIDE DEF x
  <2>2. OneStreamSet(r, 0, x)
    BY <1>0, <1>2, <2>1, BecomesOne
  <2>3. stream'[r][0] = x /\ \A b \in Attempts \ {0} : stream'[r][b] = stream[r][b]
    BY <2>2 DEF OneStreamSet
  <2>4. \A j \in 1 .. taken[r] : j <= seen'[r] \/ j \in x.wire
    <3> SUFFICES ASSUME NEW j \in 1 .. taken[r], ~(j <= i) PROVE j \in x.wire
      BY <1>6
    <3>1. ~(j <= seen[r])
      BY <1>5, <1>6
    <3>2. j \in stream[r][0].wire
      BY <1>1, <3>1 DEF Undisturbed
    <3>3. j # i
      BY <1>5, <1>6
    <3> QED BY <1>2, <2>1, <3>2, <3>3
  <2>5. page'.run = r /\ ~page'.terminal /\ page'.at = "streaming"
    BY <1>1, <2>1 DEF SamePage
  <2>6. Undisturbed(r)'
    <3>1. /\ phase'[r] # "lost" /\ phase'[r] # "absent"
          /\ \A j \in DOMAIN log'[r] : log'[r][j].type \in TerminalTypes => j = Len(log'[r])
      BY <1>5, <1>8 DEF Undisturbed
    <3>2. \A b \in Attempts \ {0} : stream'[r][b] = NoStream
      BY <2>3 DEF Undisturbed
    <3>3. stream'[r][0].server # "closed" =>
             \A j \in 1 .. taken'[r] : log'[r][j].type \notin TerminalTypes
      BY <1>2, <1>5, <2>1, <2>3 DEF Undisturbed
    <3>4. stream'[r][0].open /\ stream'[r][0].up
      BY <1>1, <1>2, <2>1, <2>3
    <3>5. \A j \in 1 .. taken'[r] : j <= seen'[r] \/ j \in stream'[r][0].wire
      BY <1>5, <2>3, <2>4
    <3> QED BY <2>5, <3>1, <3>2, <3>3, <3>4, <3>5 DEF Undisturbed
  <2> QED BY <1>0, <1>5, <1>6, <2>1, <2>6, OtherRuns
<1>10. CASE ShowCompleted(r, a, i) \/ ShowFailed(r, a, i)
  <2> DEFINE x == [stream[r][a] EXCEPT !.wire = {}, !.open = FALSE]
  <2>1. /\ x \in Streams /\ Becomes(r, a, x) /\ x.server = stream[r][a].server
        /\ log[r][i].type \in TerminalTypes
    BY <1>0, <1>10 DEF ShowCompleted, ShowFailed, Streams, TerminalTypes
  <2>2. page'.run = r /\ page'.terminal /\ page'.at = "rest"
    <3>1. CASE ShowCompleted(r, a, i)
      BY <1>0, <1>1, <3>1 DEF ShowCompleted, Pages
    <3>2. CASE ShowFailed(r, a, i)
      BY <1>0, <1>1, <3>2 DEF ShowFailed, Pages
    <3> QED BY <1>10, <3>1, <3>2
  <2> HIDE DEF x
  <2>3. OneStreamSet(r, 0, x)
    BY <1>0, <1>2, <2>1, BecomesOne
  <2>4. stream'[r][0] = x /\ \A b \in Attempts \ {0} : stream'[r][b] = stream[r][b]
    BY <2>3 DEF OneStreamSet
  <2>5. seen'[r] = Len(log'[r]) /\ \A j \in 1 .. taken[r] : j <= seen'[r]
    <3>1. i = Len(log[r])
      BY <1>7, <2>1 DEF Undisturbed
    <3> QED BY <1>5, <1>6, <3>1
  <2>6. Ended(r)'
    BY <1>5, <1>7, <2>1 DEF Ended, EndedAs
  <2>7. Undisturbed(r)'
    <3>1. /\ phase'[r] # "lost" /\ phase'[r] # "absent"
          /\ \A j \in DOMAIN log'[r] : log'[r][j].type \in TerminalTypes => j = Len(log'[r])
      BY <1>5, <1>8 DEF Undisturbed
    <3>2. \A b \in Attempts \ {0} : stream'[r][b] = NoStream
      BY <2>4 DEF Undisturbed
    <3>3. stream'[r][0].server # "closed" =>
             \A j \in 1 .. taken'[r] : log'[r][j].type \notin TerminalTypes
      BY <1>2, <1>5, <2>1, <2>4 DEF Undisturbed
    <3>4. \A j \in 1 .. taken'[r] : j <= seen'[r]
      BY <1>5, <2>5
    <3> QED BY <2>2, <2>5, <2>6, <3>1, <3>2, <3>3, <3>4 DEF Undisturbed
  <2> QED BY <1>0, <1>5, <1>6, <2>1, <2>2, <2>7, OtherRuns
<1> QED BY <1>4, <1>9, <1>10

\* Every step without a fault keeps every run undisturbed; recovery never starts.
LEMMA FaultlessStep ==
    ASSUME IInv, Faultless, [Next]_vars
    PROVE  Faultless'
<1>0. /\ faults \in Nat /\ page \in Pages /\ RunsTypeOK
  BY DEF IInv, TypeOK
<1>1. Fault => faults' # 0
  BY <1>0 DEF Fault
<1>2. faults' = faults \/ Fault
  <2>1. CASE \/ UNCHANGED vars \/ Click \/ OpenFirstStream \/ PostFails \/ LookupFails
             \/ RestartServer
    BY <2>1, Zenon DEF vars, Click, OpenFirstStream, PostFails, LookupFails, RestartServer
  <2>2. CASE Recovery
    BY <2>2, Zenon DEF Recovery, AnswerLookup, RecoverCompleted, RecoverFailed, RecoverLater,
                       RecoverExhausted, Reopen
  <2>3. ASSUME NEW r \in Runs, \/ ServePost(r) \/ RunProgress(r) \/ RunHeartbeat(r)
                               \/ LoadResult(r) \/ LoadPrices(r) \/ LoadRaises(r)
        PROVE  faults' = faults \/ Fault
    BY <2>3, Zenon DEF ServePost, RunProgress, RunHeartbeat, LoadResult, LoadPrices, LoadRaises
  <2>4. ASSUME NEW r \in Runs, NEW a \in Attempts, ServerEnd(r, a) \/ Break(r, a)
        PROVE  faults' = faults \/ Fault
    BY <2>4, Zenon DEF ServerEnd, AcceptStream, RejectStream, SendEvent, NoticeDisconnect,
                       IdleTimeout, Break
  <2>5. ASSUME NEW r \in Runs, NEW a \in Attempts, PageEnd(r, a)
        PROVE  faults' = faults
    BY <2>5, Zenon DEF PageEnd, ShowProgress, ShowCompleted, ShowFailed, SourceError
  <2> QED BY <2>1, <2>2, <2>3, <2>4, <2>5 DEF Next
<1> SUFFICES ASSUME faults' = 0 PROVE \A r \in Runs : Undisturbed(r)'
  BY DEF Faultless
<1>3. \A r \in Runs : Undisturbed(r)
  BY <1>1, <1>2 DEF Faultless
<1>4. ~Recovery
  <2>1. page.at \notin {"asking", "pausing"}
    <3> SUFFICES ASSUME page.at \in {"asking", "pausing"} PROVE FALSE
      OBVIOUS
    <3>1. page.run \in Runs /\ ~page.terminal
      BY DEF IInv, PageShape
    <3> QED BY <1>3, <3>1 DEF Undisturbed
  <2> QED BY <2>1 DEF Recovery, AnswerLookup, RecoverCompleted, RecoverFailed, RecoverLater,
                      RecoverExhausted, Reopen, Answered
<1>5. ~(PostFails \/ LookupFails \/ RestartServer)
  BY <1>1 DEF PostFails, LookupFails, RestartServer
<1>6. \A r \in Runs, a \in Attempts : ~Break(r, a)
  BY <1>1 DEF Break
<1>7. ASSUME UNCHANGED <<phase, log, taken, seen, stream>>, SamePage \/ page'.run = NoRun
      PROVE  \A r \in Runs : Undisturbed(r)'
  <2> TAKE r \in Runs
  <2>1. page'.run = r => SamePage
    BY <1>7
  <2> QED BY <1>3, <1>7, <2>1, UndisturbedKept
<1>8. CASE UNCHANGED vars
  BY <1>7, <1>8 DEF vars, runVars, SamePage
<1>9. CASE Click
  <2>1. page'.run = NoRun
    BY <1>9 DEF Click, Fresh
  <2> QED BY <1>7, <1>9, <2>1 DEF Click, runVars
<1>10. ASSUME NEW r \in Runs, LoadResult(r) \/ LoadPrices(r) \/ LoadRaises(r)
       PROVE  \A s \in Runs : Undisturbed(s)'
  <2>1. SamePage /\ UNCHANGED <<phase, log, taken, seen, stream>>
    BY <1>0, <1>10 DEF LoadResult, LoadPrices, LoadRaises, runVars, SamePage, Pages
  <2> QED BY <1>7, <2>1
<1>11. ASSUME NEW r \in Runs, RunProgress(r) \/ RunHeartbeat(r)
       PROVE  \A s \in Runs : Undisturbed(s)'
  BY <1>3, <1>11, TaskUndisturbed DEF RunProgress, RunHeartbeat
<1>12. ASSUME NEW r \in Runs, ServePost(r)
       PROVE  \A s \in Runs : Undisturbed(s)'
  BY <1>3, <1>12, ServeUndisturbed
<1>13. CASE OpenFirstStream
  BY <1>3, <1>13, OpenUndisturbed
<1>14. ASSUME NEW r \in Runs, NEW a \in Attempts, ServerEnd(r, a) \/ PageEnd(r, a)
       PROVE  \A s \in Runs : Undisturbed(s)'
  BY <1>3, <1>14, ServerUndisturbed, PageUndisturbed
<1> QED BY <1>4, <1>5, <1>6, <1>8, <1>9, <1>10, <1>11, <1>12, <1>13, <1>14 DEF Next

----------------------------------------------------------------------------
(* Events of a run whose first connection is up *)

\* The terminal event is the last of a queue.
TerminalLast(r) == \A i \in DOMAIN log[r] : log[r][i].type \in TerminalTypes => i = Len(log[r])

Follows(r) == page.run = r /\ ~page.terminal

\* While the first connection of a run is up it is the only one, and the page
\* either follows it or has shown all there will be.
FirstStream(r) ==
    /\ TerminalLast(r)
    /\ phase[r] = "absent" \/ (page.run = r /\ page.at = "posted") => stream[r][0].server = "none"
    /\ stream[r][0].server = "none" =>
          /\ taken[r] = 0 /\ ~stream[r][0].up
          /\ \A a \in Attempts : stream[r][a].server = "none"
    /\ stream[r][0].up => \A a \in Attempts \ {0} : stream[r][a].server = "none"
    /\ stream[r][0].up /\ Follows(r) =>
          /\ page.at = "streaming" /\ stream[r][0].open
          /\ \A i \in 1 .. taken[r] : i <= seen[r] \/ i \in stream[r][0].wire
    /\ stream[r][0].up /\ ~Follows(r) => Ended(r) /\ seen[r] = Len(log[r])

\* No step emits after a terminal event, or makes a run absent.
LEMMA QueuesEnd ==
    ASSUME IInv, [Next]_vars, NEW r \in Runs, TerminalLast(r)
    PROVE  /\ TerminalLast(r)'
           /\ Ended(r) => Ended(r)' /\ Len(log'[r]) = Len(log[r])
           /\ phase'[r] = "absent" => phase[r] = "absent"
<1>0. RunsTypeOK /\ TerminalEventAnswered /\ RunsKept
  BY RunsAreKept DEF IInv, TypeOK
<1>1. phase'[r] = "absent" => phase[r] = "absent"
  BY <1>0 DEF RunsKept
<1>2. ASSUME log'[r] = log[r]
      PROVE  TerminalLast(r)' /\ (Ended(r) => Ended(r)' /\ Len(log'[r]) = Len(log[r]))
  BY <1>2 DEF TerminalLast, Ended, EndedAs
<1>3. CASE QuietRuns
  BY <1>1, <1>2, <1>3 DEF QuietRuns
<1>4. ASSUME NEW s \in Runs, CreateRun(s) \/ RunStep(s) \/ Heartbeat(s)
      PROVE  TerminalLast(r)' /\ (Ended(r) => Ended(r)' /\ Len(log'[r]) = Len(log[r]))
  <2>1. PICK q \in Phases, new \in Seq(Events) : TaskStep(s, q, new)
    BY <1>0, <1>4, TaskSteps
  <2>2. /\ log' = [log EXCEPT ![s] = @ \o new] /\ log \in [Runs -> Seq(Events)]
        /\ phase[s] \in {"absent", "started"} \cup Executing
    BY <1>0, <2>1 DEF TaskStep, Advance, RunsTypeOK
  <2>3. Appended(s, new)
    BY <2>2, AppendedLog
  <2>4. CASE s # r
    BY <1>2, <2>3, <2>4 DEF Appended
  <2>5. CASE s = r
    <3>1. ~Ended(r)
      BY <1>0, <2>2, <2>5 DEF Ended, TerminalEventAnswered, TerminalTypes, ResultStatus, Executing
    <3> SUFFICES ASSUME NEW i \in DOMAIN log'[r], log'[r][i].type \in TerminalTypes
                 PROVE  i = Len(log'[r])
      BY <3>1 DEF TerminalLast
    <3>2. i \notin DOMAIN log[r]
      BY <2>3, <2>5, <3>1 DEF Appended, Ended, EndedAs
    <3>3. PICK j \in DOMAIN new : i = Len(log[r]) + j
      BY <2>3, <2>5, <3>2 DEF Appended
    <3>4. new[j].type \in TerminalTypes
      BY <2>3, <2>5, <3>3 DEF Appended
    <3>5. Len(new) = 1
      BY <2>1, <3>4 DEF TaskStep
    <3>6. j = 1
      BY <3>5
    <3> QED BY <2>3, <2>5, <3>3, <3>5, <3>6 DEF Appended
  <2> QED BY <2>4, <2>5
<1> QED BY <1>0, <1>1, <1>3, <1>4, RunEffects

\* A step opens no stream of r, takes nothing for it on its live connection, shows
\* nothing of it and leaves the page following it, or not, as before; it may end
\* the connection.
Alike(r) ==
    /\ \A a \in Attempts : stream'[r][a].server = "none" <=> stream[r][a].server = "none"
    /\ stream[r][0].server = "none" => taken'[r] = taken[r] /\ ~stream'[r][0].up
    /\ page'.run = r /\ page'.at = "posted" => page.run = r /\ page.at = "posted"
    /\ stream'[r][0].up =>
          /\ stream[r][0].up /\ stream'[r][0].open = stream[r][0].open
          /\ stream'[r][0].wire = stream[r][0].wire
          /\ taken'[r] = taken[r] /\ seen'[r] = seen[r]
          /\ Follows(r)' <=> Follows(r)
          /\ Follows(r) => page'.at = page.at

LEMMA FirstStreamKept ==
    ASSUME IInv, [Next]_vars, NEW r \in Runs, FirstStream(r), Alike(r)
    PROVE  FirstStream(r)'
<1>1. /\ TerminalLast(r)' /\ (Ended(r) => Ended(r)' /\ Len(log'[r]) = Len(log[r]))
      /\ phase'[r] = "absent" => phase[r] = "absent"
  BY QueuesEnd DEF FirstStream
<1>2. 0 \in Attempts
  BY DEF Attempts
<1>3. phase'[r] = "absent" \/ (page'.run = r /\ page'.at = "posted") => stream'[r][0].server = "none"
  BY <1>1, <1>2 DEF FirstStream, Alike
<1>4. stream'[r][0].server = "none" =>
          /\ taken'[r] = 0 /\ ~stream'[r][0].up
          /\ \A a \in Attempts : stream'[r][a].server = "none"
  BY <1>2 DEF FirstStream, Alike
<1>5. stream'[r][0].up => \A a \in Attempts \ {0} : stream'[r][a].server = "none"
  BY DEF FirstStream, Alike
<1>6. stream'[r][0].up /\ Follows(r)' =>
          /\ page'.at = "streaming" /\ stream'[r][0].open
          /\ \A i \in 1 .. taken'[r] : i <= seen'[r] \/ i \in stream'[r][0].wire
  BY DEF FirstStream, Alike
<1>7. stream'[r][0].up /\ ~Follows(r)' => Ended(r)' /\ seen'[r] = Len(log'[r])
  BY <1>1 DEF FirstStream, Alike
<1> QED BY <1>1, <1>3, <1>4, <1>5, <1>6, <1>7 DEF FirstStream

\* The steps of start and recover: none of them happens to a run whose first
\* connection is up, except that it is made.
LEMMA FirstStreamControl ==
    ASSUME IInv, FailureShape, NEW r \in Runs, FirstStream(r), [Next]_vars,
           \/ Click \/ PostFails \/ LookupFails \/ OpenFirstStream \/ Recovery
           \/ \E s \in Runs : ServePost(s)
    PROVE  FirstStream(r)'
<1>0. /\ page \in Pages /\ PageShape /\ 0 \in Attempts /\ TypeOK /\ RunsTypeOK
      /\ stream \in [Runs -> [Attempts -> Streams]] /\ NoRun \notin Runs
  BY DEF IInv, TypeOK, Attempts
<1>1. stream[r][0].up /\ page.at # "streaming" => page.run # r \/ page.terminal
  BY DEF FirstStream, Follows
<1>2. CASE Click \/ PostFails
  <2>1. page.at # "streaming"
    BY <1>0, <1>2 DEF Click, PostFails, PageShape
  <2>2. page'.run # r
    BY <1>0, <1>2 DEF Click, PostFails, Fresh, Pages
  <2>3. taken' = taken /\ stream' = stream /\ seen' = seen
    BY <1>2 DEF Click, PostFails, runVars
  <2>4. Alike(r)
    BY <1>1, <2>1, <2>2, <2>3 DEF Alike, Follows, FirstStream
  <2> QED BY <2>4, FirstStreamKept
<1>3. CASE \/ LookupFails \/ AnswerLookup \/ RecoverCompleted \/ RecoverFailed \/ RecoverLater
           \/ RecoverExhausted
  <2>1. page.at = "asking" /\ page'.run = page.run /\ page'.at # "posted"
    <3>1. page.at = "asking"
      BY <1>3 DEF LookupFails, AnswerLookup, RecoverCompleted, RecoverFailed, RecoverLater,
                  RecoverExhausted, Answered
    <3>2. CASE LookupFails \/ AnswerLookup
      BY <1>0, <3>1, <3>2 DEF LookupFails, AnswerLookup, Pages
    <3>3. CASE RecoverCompleted \/ RecoverLater
      BY <1>0, <3>1, <3>3 DEF RecoverCompleted, RecoverLater, Pages
    <3>4. CASE RecoverFailed
      BY <1>0, <3>1, <3>4 DEF RecoverFailed, Pages
    <3>5. CASE RecoverExhausted
      BY <1>0, <3>1, <3>5 DEF RecoverExhausted, Pages
    <3> QED BY <1>3, <3>1, <3>2, <3>3, <3>4, <3>5
  <2>2. ~page.terminal
    BY <1>0, <2>1 DEF PageShape
  <2>3. taken' = taken /\ stream' = stream /\ seen' = seen
    BY <1>3 DEF LookupFails, AnswerLookup, RecoverCompleted, RecoverFailed, RecoverLater,
                RecoverExhausted, runVars
  <2>4. stream[r][0].up => page.run # r
    BY <1>1, <2>1, <2>2
  <2>5. Alike(r)
    BY <2>1, <2>3, <2>4 DEF Alike, Follows, FirstStream
  <2> QED BY <2>5, FirstStreamKept
<1>4. CASE Reopen
  <2>1. /\ page.at = "pausing" /\ page.run \in Runs /\ page.attempt + 1 \in Attempts \ {0}
        /\ NewStream \in Streams /\ ~page.terminal /\ 0 \in 0 .. page.attempt
    BY <1>4, <1>0 DEF Reopen, PageShape, NewStream, Streams, Pages, Attempts
  <2>2. OneStreamSet(page.run, page.attempt + 1, NewStream)
    BY <1>0, <1>4, <2>1, BecomesOne DEF Reopen
  <2>3. page'.at = "streaming" /\ page'.run = page.run /\ taken' = taken /\ seen' = seen
    BY <1>0, <1>4 DEF Reopen, Pages, runVars
  <2>4. CASE page.run # r
    <3>1. \A a \in Attempts : stream'[r][a] = stream[r][a]
      BY <2>2, <2>4 DEF OneStreamSet
    <3>2. Alike(r)
      BY <1>0, <2>3, <2>4, <3>1 DEF Alike, Follows, FirstStream
    <3> QED BY <3>2, FirstStreamKept
  <2>5. CASE page.run = r
    <3>1. ~stream[r][0].up
      BY <1>1, <2>1, <2>5
    <3>2. stream'[r][0] = stream[r][0]
      BY <1>0, <2>1, <2>2 DEF OneStreamSet
    <3>3. stream[r][0].server # "none"
      BY <2>1, <2>5 DEF FailureShape
    <3>4. /\ TerminalLast(r)' /\ (phase'[r] = "absent" => phase[r] = "absent")
      BY QueuesEnd DEF FirstStream
    <3>5. ~stream'[r][0].up /\ stream'[r][0].server # "none" /\ phase'[r] # "absent"
      BY <3>1, <3>2, <3>3, <3>4 DEF FirstStream
    <3> QED BY <2>3, <3>4, <3>5 DEF FirstStream
  <2> QED BY <2>4, <2>5
<1>5. CASE OpenFirstStream
  <2>1. /\ page.at = "posted" /\ page.run \in Runs /\ NewStream \in Streams /\ ~page.terminal
    BY <1>5, <1>0 DEF OpenFirstStream, PageShape, NewStream, Streams
  <2>2. OneStreamSet(page.run, 0, NewStream)
    BY <1>0, <1>5, <2>1, BecomesOne DEF OpenFirstStream
  <2>3. /\ page'.at = "streaming" /\ page'.run = page.run /\ page'.terminal = page.terminal
        /\ taken' = taken /\ seen' = seen /\ phase' = phase
    BY <1>0, <1>5 DEF OpenFirstStream, Pages, runVars
  <2>4. CASE page.run # r
    <3>1. \A a \in Attempts : stream'[r][a] = stream[r][a]
      BY <2>2, <2>4 DEF OneStreamSet
    <3>2. Alike(r)
      BY <1>0, <2>3, <2>4, <3>1 DEF Alike, Follows, FirstStream
    <3> QED BY <3>2, FirstStreamKept
  <2>5. CASE page.run = r
    <3>1. /\ stream[r][0].server = "none" /\ taken[r] = 0
          /\ \A a \in Attempts : stream[r][a].server = "none"
      BY <2>1, <2>5 DEF FirstStream
    <3>2. /\ stream'[r][0] = NewStream
          /\ \A a \in Attempts \ {0} : stream'[r][a] = stream[r][a]
      BY <1>0, <2>2, <2>5 DEF OneStreamSet
    <3>3. phase'[r] # "absent" /\ TerminalLast(r)'
      BY <2>1, <2>3, <2>5, QueuesEnd DEF FailureShape, FirstStream
    <3>4. Follows(r)' /\ stream'[r][0].server # "none" /\ stream'[r][0].open
      BY <2>1, <2>3, <2>5, <3>2 DEF Follows, NewStream
    <3>5. 1 .. taken'[r] = {}
      BY <2>3, <3>1
    <3> QED BY <2>3, <3>1, <3>2, <3>3, <3>4, <3>5 DEF FirstStream
  <2> QED BY <2>4, <2>5
<1>6. ASSUME NEW s \in Runs, ServePost(s)
      PROVE  FirstStream(r)'
  <2>1. /\ page.at = "posting" /\ ~page.terminal /\ phase[s] = "absent"
        /\ page'.run = s /\ page'.at = "posted"
        /\ taken' = taken /\ stream' = stream /\ seen' = seen
    BY <1>0, <1>6 DEF ServePost, CreateRun, Advance, PageShape, Pages
  <2>2. CASE s # r
    <3>1. Alike(r)
      BY <1>1, <2>1, <2>2 DEF Alike, Follows, FirstStream
    <3> QED BY <3>1, FirstStreamKept
  <2>3. CASE s = r
    <3>1. stream[r][0].server = "none" /\ ~stream[r][0].up
      BY <2>1, <2>3 DEF FirstStream
    <3>2. TerminalLast(r)'
      BY QueuesEnd DEF FirstStream
    <3> QED BY <2>1, <3>1, <3>2 DEF FirstStream
  <2> QED BY <2>2, <2>3
<1> QED BY <1>2, <1>3, <1>4, <1>5, <1>6 DEF Recovery

\* The steps at a stream: a first connection that stays up carries every event
\* that is taken, and the page shows them in order.
LEMMA FirstStreamTraffic ==
    ASSUME IInv, NEW r \in Runs, FirstStream(r), [Next]_vars,
           NEW s \in Runs, NEW a \in Attempts, ServerEnd(s, a) \/ PageEnd(s, a) \/ Break(s, a)
    PROVE  FirstStream(r)'
<1>0. /\ page \in Pages /\ 0 \in Attempts /\ RunsTypeOK /\ seen \in [Runs -> Nat]
      /\ stream \in [Runs -> [Attempts -> Streams]] /\ stream[s][a] \in Streams
      /\ stream[r][0] \in Streams
  BY DEF IInv, TypeOK, Attempts
<1>1. stream[r][0].up /\ s = r => a = 0 \/ stream[s][a].server = "none"
  BY DEF FirstStream
<1>2. stream[s][a].open => /\ page.run = s /\ ~page.terminal /\ page.at = "streaming"
                           /\ page.attempt = a
  BY DEF IInv, OneOpenSource, IsActive
<1>3. stream[r][0].up /\ s = r /\ stream[s][a].open => a = 0
  BY <1>0, <1>2 DEF FirstStream, Follows, IInv, OneOpenSource
<1>4. stream[r][0].server = "none" =>
         /\ taken[r] = 0 /\ ~stream[r][0].up /\ \A b \in Attempts : stream[r][b].server = "none"
  BY DEF FirstStream
<1>5. ASSUME NEW x \in Streams, Becomes(s, a, x), s # r,
             taken'[r] = taken[r], seen'[r] = seen[r], page' = page \/ stream[s][a].open,
             page'.run = page.run, page'.at # "posted" \/ page'.at = page.at
      PROVE  FirstStream(r)'
  <2>1. \A b \in Attempts : stream'[r][b] = stream[r][b]
    BY <1>0, <1>5, BecomesOne DEF OneStreamSet
  <2>2. Follows(r)' <=> Follows(r)
    BY <1>2, <1>5 DEF Follows
  <2>3. Follows(r) => page'.at = page.at
    BY <1>2, <1>5 DEF Follows
  <2>4. Alike(r)
    BY <1>0, <1>4, <1>5, <2>1, <2>2, <2>3 DEF Alike
  <2> QED BY <2>4, FirstStreamKept
<1>6. ASSUME NEW x \in Streams, Becomes(s, a, x), s = r,
             taken'[r] = taken[r], page'.run = page.run,
             page'.at # "posted" \/ page'.at = page.at,
             x.server = "none" <=> stream[s][a].server = "none",
             a = 0 /\ x.up => /\ stream[s][a].up /\ x.open = stream[s][a].open
                              /\ x.wire = stream[s][a].wire,
             x.up /\ a = 0 => page' = page /\ seen'[r] = seen[r],
             a # 0 /\ stream[r][0].up => page' = page /\ seen'[r] = seen[r]
      PROVE  FirstStream(r)'
  <2>1. /\ stream'[r][a] = x
        /\ \A b \in Attempts : b # a => stream'[r][b] = stream[r][b]
    BY <1>0, <1>6, BecomesOne DEF OneStreamSet
  <2>2. \A b \in Attempts : stream'[r][b].server = "none" <=> stream[r][b].server = "none"
    BY <1>6, <2>1
  <2>3. stream'[r][0].up =>
          /\ stream[r][0].up /\ stream'[r][0].open = stream[r][0].open
          /\ stream'[r][0].wire = stream[r][0].wire
          /\ page' = page /\ seen'[r] = seen[r]
    BY <1>0, <1>6, <2>1
  <2>4. stream'[r][0].up => (Follows(r)' <=> Follows(r)) /\ page'.at = page.at
    BY <2>3 DEF Follows
  <2>5. stream[r][0].server = "none" => ~stream'[r][0].up
    BY <1>4, <2>3
  <2>6. page'.run = r /\ page'.at = "posted" => page.run = r /\ page.at = "posted"
    BY <1>6
  <2>7. Alike(r)
    BY <1>6, <2>2, <2>3, <2>4, <2>5, <2>6 DEF Alike
  <2> QED BY <2>7, FirstStreamKept
<1>7. CASE \/ AcceptStream(s, a) \/ RejectStream(s, a) \/ NoticeDisconnect(s, a)
           \/ IdleTimeout(s, a) \/ Break(s, a)
  <2>1. \E x \in Streams :
           /\ Becomes(s, a, x) /\ (x.server = "none" <=> stream[s][a].server = "none")
           /\ x.up => /\ stream[s][a].up /\ x.open = stream[s][a].open
                      /\ x.wire = stream[s][a].wire
    <3> DEFINE old == stream[s][a]
               Like(x) == /\ x.server = "none" <=> old.server = "none"
                          /\ x.up => old.up /\ x.open = old.open /\ x.wire = old.wire
    <3>1. ASSUME NEW x \in Streams, Becomes(s, a, x), Like(x)
          PROVE  \E y \in Streams :
                    /\ Becomes(s, a, y) /\ (y.server = "none" <=> stream[s][a].server = "none")
                    /\ y.up => /\ stream[s][a].up /\ y.open = stream[s][a].open
                               /\ y.wire = stream[s][a].wire
      BY <3>1
    <3>2. CASE AcceptStream(s, a) \/ NoticeDisconnect(s, a)
      <4>1. PICK server \in {"waiting", "closed"} :
               Becomes(s, a, [old EXCEPT !.server = server]) /\ old.server # "none"
        BY <3>2 DEF AcceptStream, NoticeDisconnect
      <4>2. /\ [old EXCEPT !.server = server] \in Streams
            /\ Like([old EXCEPT !.server = server])
        BY <1>0, <4>1 DEF Streams
      <4> QED BY <3>1, <4>1, <4>2
    <3>3. CASE RejectStream(s, a)
      <4> DEFINE x == [old EXCEPT !.server = "closed", !.up = FALSE]
      <4>1. Becomes(s, a, x) /\ old.server # "none"
        BY <3>3 DEF RejectStream
      <4>2. x \in Streams /\ Like(x)
        BY <1>0, <4>1 DEF Streams
      <4> QED BY <3>1, <4>1, <4>2
    <3>4. CASE IdleTimeout(s, a) \/ Break(s, a)
      <4>1. PICK wire \in SUBSET Nat : Becomes(s, a, [old EXCEPT !.up = FALSE, !.wire = wire])
        <5>1. CASE Break(s, a)
          BY <5>1 DEF Break
        <5>2. CASE IdleTimeout(s, a)
          <6>1. [old EXCEPT !.up = FALSE] = [old EXCEPT !.up = FALSE, !.wire = old.wire]
            BY <1>0 DEF Streams
          <6> QED BY <1>0, <5>2, <6>1 DEF IdleTimeout, Streams
        <5> QED BY <3>4, <5>1, <5>2
      <4>2. /\ [old EXCEPT !.up = FALSE, !.wire = wire] \in Streams
            /\ Like([old EXCEPT !.up = FALSE, !.wire = wire])
        BY <1>0 DEF Streams
      <4> QED BY <3>1, <4>1, <4>2
    <3> QED BY <1>7, <3>1, <3>2, <3>3, <3>4
  <2>2. page' = page /\ taken' = taken /\ seen' = seen
    BY <1>7 DEF AcceptStream, RejectStream, NoticeDisconnect, IdleTimeout, Break, runVars
  <2> QED BY <1>5, <1>6, <2>1, <2>2
<1>8. CASE SendEvent(s, a)
  <2> DEFINE x == [stream[s][a] EXCEPT
                      !.server = IF NextEvent(s).type \in TerminalTypes THEN "closed" ELSE @,
                      !.wire = IF stream[s][a].up THEN @ \cup {taken[s] + 1} ELSE @]
  <2>1. /\ x \in Streams /\ Becomes(s, a, x) /\ page' = page /\ seen' = seen
        /\ taken' = [taken EXCEPT ![s] = @ + 1] /\ taken[s] < Len(log[s])
        /\ stream[s][a].server = "waiting" /\ x.server # "none"
        /\ x.open = stream[s][a].open /\ x.up = stream[s][a].up
        /\ x.wire = IF stream[s][a].up THEN stream[s][a].wire \cup {taken[s] + 1}
                    ELSE stream[s][a].wire
    <3>1. stream[s][a].wire \cup {taken[s] + 1} \in SUBSET Nat
      BY <1>0 DEF Streams, RunsTypeOK
    <3>2. /\ Becomes(s, a, x) /\ page' = page /\ seen' = seen /\ TakeEvent(s)
          /\ stream[s][a].server = "waiting"
      BY <1>8, Zenon DEF SendEvent, TakeEvent
    <3>3. x \in Streams /\ x.server # "none"
      BY <1>0, <3>1, <3>2 DEF Streams
    <3>4. /\ x.open = stream[s][a].open /\ x.up = stream[s][a].up
          /\ x.wire = IF stream[s][a].up THEN stream[s][a].wire \cup {taken[s] + 1}
                      ELSE stream[s][a].wire
      BY <1>0 DEF Streams
    <3> QED BY <3>2, <3>3, <3>4, Zenon DEF TakeEvent, Queued
  <2> HIDE DEF x
  <2>2. CASE s # r
    <3>1. taken'[r] = taken[r]
      BY <1>0, <2>1, <2>2 DEF RunsTypeOK
    <3> QED BY <1>5, <2>1, <2>2, <3>1
  <2>3. CASE s = r
    <3>1. stream[r][0].server # "none"
      BY <1>4, <2>1, <2>3
    <3>2. /\ stream'[r][a] = x
          /\ \A b \in Attempts : b # a => stream'[r][b] = stream[r][b]
      BY <1>0, <2>1, <2>3, BecomesOne DEF OneStreamSet
    <3>3. stream'[r][0].server # "none" /\ stream'[r][0].up = stream[r][0].up
      BY <1>0, <2>1, <2>3, <3>1, <3>2
    <3>4. TerminalLast(r)' /\ (phase'[r] = "absent" => phase[r] = "absent")
      BY QueuesEnd DEF FirstStream
    <3>5. ~(phase'[r] = "absent" \/ (page'.run = r /\ page'.at = "posted"))
      BY <2>1, <3>1, <3>4 DEF FirstStream
    <3>6. CASE ~stream[r][0].up
      BY <3>3, <3>4, <3>5, <3>6 DEF FirstStream
    <3>7. CASE stream[r][0].up
      <4>1. a = 0
        BY <1>1, <2>1, <2>3, <3>7
      <4>2. /\ taken[r] \in Nat /\ seen[r] \in Nat /\ Len(log[r]) \in Nat
            /\ seen[r] <= taken[r] /\ taken'[r] = taken[r] + 1
        BY <1>0, <2>1, <2>3 DEF RunsTypeOK, IInv, WireAhead
      <4>3. Follows(r)
        BY <2>1, <2>3, <3>7, <4>2 DEF FirstStream
      <4>4. 1 .. taken'[r] = 1 .. taken[r] \cup {taken[r] + 1}
        BY <4>2
      <4>5. Follows(r)'
        BY <2>1, <4>3 DEF Follows
      <4>6. page'.at = "streaming" /\ stream'[r][0].open
        BY <2>1, <2>3, <3>2, <3>7, <4>1, <4>3 DEF FirstStream
      <4>7. \A i \in 1 .. taken'[r] : i <= seen'[r] \/ i \in stream'[r][0].wire
        BY <2>1, <2>3, <3>2, <3>7, <4>1, <4>3, <4>4 DEF FirstStream
      <4>8. \A b \in Attempts \ {0} : stream'[r][b].server = "none"
        BY <3>2, <3>7, <4>1 DEF FirstStream
      <4> QED BY <3>3, <3>4, <3>5, <4>5, <4>6, <4>7, <4>8 DEF FirstStream
    <3> QED BY <3>6, <3>7
  <2> QED BY <2>2, <2>3
<1>9. CASE SourceError(s, a)
  <2>1. /\ stream[s][a].open /\ ~stream[s][a].up /\ taken' = taken /\ seen' = seen
        /\ page'.run = page.run /\ page'.at = "asking"
    BY <1>0, <1>9 DEF SourceError, Pages, runVars
  <2>2. \E x \in Streams : /\ Becomes(s, a, x) /\ x.server = stream[s][a].server /\ ~x.up
    <3> DEFINE x == [stream[s][a] EXCEPT !.open = FALSE]
    <3>1. Becomes(s, a, x)
      BY <1>9 DEF SourceError
    <3>2. x \in Streams /\ x.server = stream[s][a].server /\ ~x.up
      BY <1>0, <2>1 DEF Streams
    <3> QED BY <3>1, <3>2
  <2>3. stream[r][0].up => ~(s = r)
    BY <1>3, <2>1
  <2> QED BY <1>5, <1>6, <2>1, <2>2, <2>3
<1>10. ASSUME NEW i \in stream[s][a].wire,
              ShowProgress(s, a, i) \/ ShowCompleted(s, a, i) \/ ShowFailed(s, a, i)
       PROVE  FirstStream(r)'
  <2>1. /\ stream[s][a].open /\ stream[s][a].up /\ taken' = taken /\ log' = log
        /\ \A j \in stream[s][a].wire : i <= j
        /\ seen' = [seen EXCEPT ![s] = i]
    BY <1>10 DEF ShowProgress, ShowCompleted, ShowFailed, Arrives, runVars
  <2>2. /\ page'.run = page.run /\ page'.at # "posted"
        /\ IF log[s][i].type \in TerminalTypes THEN page'.terminal
           ELSE page'.terminal = page.terminal /\ page'.at = page.at
    <3>1. CASE ShowProgress(s, a, i)
      BY <1>0, <1>2, <2>1, <3>1 DEF ShowProgress, WithNode, Pages
    <3>2. CASE ShowCompleted(s, a, i)
      BY <1>0, <3>2 DEF ShowCompleted, Pages, TerminalTypes
    <3>3. CASE ShowFailed(s, a, i)
      BY <1>0, <3>3 DEF ShowFailed, Pages, TerminalTypes
    <3> QED BY <1>10, <3>1, <3>2, <3>3
  <2>3. PICK x \in Streams :
           /\ Becomes(s, a, x) /\ x.server = stream[s][a].server /\ x.up = stream[s][a].up
           /\ log[s][i].type \notin TerminalTypes =>
                 x.open = stream[s][a].open /\ x.wire = stream[s][a].wire \ {i}
    <3>1. CASE ShowProgress(s, a, i)
      <4> DEFINE y == [stream[s][a] EXCEPT !.wire = @ \ {i}]
      <4>1. Becomes(s, a, y)
        BY <3>1 DEF ShowProgress
      <4>2. /\ y \in Streams /\ y.server = stream[s][a].server /\ y.up = stream[s][a].up
            /\ y.open = stream[s][a].open /\ y.wire = stream[s][a].wire \ {i}
        BY <1>0 DEF Streams
      <4> QED BY <4>1, <4>2
    <3>2. CASE ShowCompleted(s, a, i) \/ ShowFailed(s, a, i)
      BY <1>0, <3>2 DEF ShowCompleted, ShowFailed, Streams, TerminalTypes
    <3> QED BY <1>10, <3>1, <3>2
  <2>4. CASE s # r
    <3>1. seen'[r] = seen[r]
      BY <1>0, <2>1, <2>4
    <3> QED BY <1>5, <2>1, <2>2, <2>3, <2>4, <3>1
  <2>5. CASE s = r /\ ~stream[r][0].up
    <3>1. a # 0
      BY <2>1, <2>5
    <3> QED BY <1>6, <2>1, <2>2, <2>3, <2>5, <3>1
  <2>6. CASE s = r /\ stream[r][0].up
    <3>1. a = 0 /\ Follows(r)
      BY <1>2, <1>3, <2>1, <2>6 DEF Follows
    <3>2. /\ stream'[r][0] = x
          /\ \A b \in Attempts \ {0} : stream'[r][b] = stream[r][b]
      <4>1. OneStreamSet(s, a, x)
        BY <1>0, <2>3, BecomesOne
      <4> QED BY <2>6, <3>1, <4>1 DEF OneStreamSet
    <3>3. TerminalLast(r)' /\ (phase'[r] = "absent" => phase[r] = "absent")
      BY QueuesEnd DEF FirstStream
    <3>4. stream'[r][0].server # "none" /\ stream[r][0].server # "none"
      BY <1>4, <2>3, <2>6, <3>1, <3>2
    <3>5. phase'[r] # "absent" /\ page'.at # "posted"
      BY <2>2, <3>3, <3>4 DEF FirstStream
    <3>6. \A b \in Attempts \ {0} : stream'[r][b].server = "none"
      BY <2>6, <3>2 DEF FirstStream
    <3>7. /\ i \in Nat /\ seen'[r] = i /\ taken[r] \in Nat /\ seen[r] \in Nat
          /\ log[r] \in Seq(Events) /\ seen[r] < i /\ i <= taken[r] /\ taken[r] <= Len(log[r])
      BY <1>0, <2>1, <2>6, <3>1 DEF RunsTypeOK, IInv, WireAhead, Streams
    <3>8. CASE log[r][i].type \in TerminalTypes
      <4>1. i \in DOMAIN log[r]
        BY <3>7
      <4>2. Ended(r)' /\ seen'[r] = Len(log'[r])
        BY <2>1, <3>7, <3>8, <4>1 DEF FirstStream, TerminalLast, Ended, EndedAs
      <4>3. ~Follows(r)'
        BY <2>2, <2>6, <3>8 DEF Follows
      <4> QED BY <3>3, <3>4, <3>5, <3>6, <4>2, <4>3 DEF FirstStream
    <3>9. CASE log[r][i].type \notin TerminalTypes
      <4>1. Follows(r)' /\ page'.at = "streaming" /\ stream'[r][0].open
        BY <1>2, <2>1, <2>2, <2>3, <2>6, <3>1, <3>2, <3>9 DEF Follows
      <4>2. \A j \in 1 .. taken'[r] : j <= seen'[r] \/ j \in stream'[r][0].wire
        <5> SUFFICES ASSUME NEW j \in 1 .. taken[r], ~(j <= i) PROVE j \in x.wire
          BY <2>1, <3>2, <3>7
        <5>1. ~(j <= seen[r]) /\ j # i
          BY <3>7
        <5>2. j \in stream[r][0].wire
          BY <2>6, <3>1, <5>1 DEF FirstStream
        <5> QED BY <2>3, <2>6, <3>1, <3>9, <5>1, <5>2
      <4> QED BY <3>3, <3>4, <3>5, <3>6, <4>1, <4>2 DEF FirstStream
    <3> QED BY <3>8, <3>9
  <2> QED BY <2>4, <2>5, <2>6
<1> QED BY <1>7, <1>8, <1>9, <1>10 DEF ServerEnd, PageEnd

\* Every step of the system.
LEMMA FirstStreamStep ==
    ASSUME IInv, FailureShape, [Next]_vars, \A r \in Runs : FirstStream(r)
    PROVE  \A r \in Runs : FirstStream(r)'
<1> SUFFICES ASSUME NEW r \in Runs PROVE FirstStream(r)'
  OBVIOUS
<1>0. page \in Pages /\ 0 \in Attempts /\ stream \in [Runs -> [Attempts -> Streams]]
  BY DEF IInv, TypeOK, Attempts
<1>1. ASSUME taken' = taken, seen' = seen, SamePage,
             \A a \in Attempts : /\ stream'[r][a].server = "none" <=> stream[r][a].server = "none"
                                 /\ stream'[r][a].up => stream'[r][a] = stream[r][a]
      PROVE  FirstStream(r)'
  <2>1. Alike(r)
    BY <1>0, <1>1 DEF Alike, Follows, SamePage, FirstStream
  <2> QED BY <2>1, FirstStreamKept
<1>2. CASE UNCHANGED vars
  BY <1>1, <1>2 DEF vars, runVars, SamePage
<1>3. ASSUME NEW s \in Runs, \/ RunProgress(s) \/ RunHeartbeat(s)
                             \/ LoadResult(s) \/ LoadPrices(s) \/ LoadRaises(s)
      PROVE  FirstStream(r)'
  <2>1. SamePage
    BY <1>0, <1>3 DEF RunProgress, RunHeartbeat, LoadResult, LoadPrices, LoadRaises, SamePage, Pages
  <2>2. stream' = stream /\ seen' = seen
    BY <1>3 DEF RunProgress, RunHeartbeat, LoadResult, LoadPrices, LoadRaises
  <2>3. taken' = taken
    <3>1. CASE RunProgress(s) \/ RunHeartbeat(s)
      BY <3>1, TaskEffects DEF RunProgress, RunHeartbeat, IInv, TypeOK
    <3>2. CASE LoadResult(s) \/ LoadPrices(s) \/ LoadRaises(s)
      BY <3>2 DEF LoadResult, LoadPrices, LoadRaises, runVars
    <3> QED BY <1>3, <3>1, <3>2
  <2> QED BY <1>1, <2>1, <2>2, <2>3
<1>4. CASE RestartServer
  <2>1. page' = page /\ seen' = seen /\ taken' = taken
    BY <1>4 DEF RestartServer, LoseRuns
  <2>2. \A a \in Attempts : stream'[r][a] =
           [stream[r][a] EXCEPT !.up = FALSE, !.wire = {},
                                !.server = IF @ = "none" THEN @ ELSE "closed"]
    BY <1>4 DEF RestartServer
  <2>3. ASSUME NEW a \in Attempts
        PROVE  /\ stream'[r][a].server = "none" <=> stream[r][a].server = "none"
               /\ ~stream'[r][a].up
    <3>1. stream[r][a] \in Streams
      BY <1>0
    <3>2. ASSUME NEW t \in Streams, NEW server
          PROVE  /\ [t EXCEPT !.up = FALSE, !.wire = {}, !.server = server].server = server
                 /\ ~[t EXCEPT !.up = FALSE, !.wire = {}, !.server = server].up
      BY DEF Streams
    <3> DEFINE server == IF stream[r][a].server = "none" THEN stream[r][a].server ELSE "closed"
    <3>3. stream'[r][a] = [stream[r][a] EXCEPT !.up = FALSE, !.wire = {}, !.server = server]
      BY <2>2
    <3>4. server = "none" <=> stream[r][a].server = "none"
      OBVIOUS
    <3> HIDE DEF server
    <3> QED BY <3>1, <3>2, <3>3, <3>4
  <2> QED BY <1>1, <2>1, <2>3 DEF SamePage
<1>5. CASE \/ Click \/ PostFails \/ LookupFails \/ OpenFirstStream \/ Recovery
           \/ \E s \in Runs : ServePost(s)
  BY <1>5, FirstStreamControl
<1>6. ASSUME NEW s \in Runs, NEW a \in Attempts, ServerEnd(s, a) \/ PageEnd(s, a) \/ Break(s, a)
      PROVE  FirstStream(r)'
  BY <1>6, FirstStreamTraffic
<1> QED BY <1>2, <1>3, <1>4, <1>5, <1>6 DEF Next

----------------------------------------------------------------------------
(* The theorems *)

\* Initially nothing has happened and nothing is shown.
LEMMA InitIInv == Init => IInv
<1> SUFFICES ASSUME Init PROVE IInv
  OBVIOUS
<1> USE DEF Init, RunsInit
<1>1. RunsTypeOK
  <2>1. <<>> \in Seq(Events)
    OBVIOUS
  <2> QED BY <2>1 DEF RunsTypeOK, Phases
<1>2. page \in Pages
  BY DEF Fresh, Pages, Attempts
<1>3. stream \in [Runs -> [Attempts -> Streams]]
  BY DEF NoStream, Streams
<1>4. TypeOK
  BY <1>1, <1>2, <1>3 DEF TypeOK
<1>5. \A r \in Runs, type \in TerminalTypes : ~EndedAs(r, type)
  BY DEF EndedAs
<1>6. TerminalEventAnswered
  BY <1>5 DEF TerminalEventAnswered, ResultStatus, TerminalTypes
<1>7. CompletionShownIsReal /\ PageShape /\ ReplyIsReal
  BY DEF CompletionShownIsReal, PageShape, ReplyIsReal, Fresh
<1>8. OneOpenSource /\ WireAhead
  BY DEF OneOpenSource, WireAhead, NoStream
<1> QED BY <1>4, <1>6, <1>7, <1>8 DEF IInv

\* Each conjunct of the invariant is kept by every step.
LEMMA StepIInv == IInv /\ [Next]_vars => IInv'
<1> SUFFICES ASSUME IInv, [Next]_vars PROVE IInv'
  OBVIOUS
<1>1. RunsKept
  BY RunsAreKept DEF IInv, TypeOK
<1>2. stream' \in [Runs -> [Attempts -> Streams]] /\ page' \in Pages
  BY StreamTyped, PageTyped DEF IInv
<1>3. /\ seen' \in [Runs -> Nat] /\ loads' \in [Runs -> {"none", "result", "prices"}]
      /\ faults' \in 0 .. MaxFaults
  BY RestTyped DEF IInv
<1>4. TypeOK'
  BY <1>1, <1>2, <1>3 DEF TypeOK, RunsKept
<1>5. OneOpenSource' /\ PageShape' /\ WireAhead'
  BY SourceStep, ShapeStep, WireStep DEF IInv
<1>6. CompletionShownIsReal' /\ ReplyIsReal'
  BY CompletionStep
<1> QED BY <1>1, <1>4, <1>5, <1>6 DEF IInv, RunsKept

\* The invariant that carries the others: the state of start and recover, the
\* one open source, the order on the wire, and outcomes that are real.
THEOREM DashboardInvariant == Spec => []IInv
  BY InitIInv, StepIInv, PTL DEF Spec

\* The variables keep their types; in particular a run has at most Retries + 1
\* streams (nextSseRecoveryDelay).
THEOREM DashboardTypeCorrect == Spec => []TypeOK
<1>1. IInv => TypeOK
  BY DEF IInv
<1> QED BY DashboardInvariant, <1>1, PTL

\* The stream and GET /api/runs/{run_id} never disagree about an outcome.
THEOREM StreamAndEndpointAgree == Spec => []TerminalEventAnswered
<1>1. IInv => TerminalEventAnswered
  BY DEF IInv
<1> QED BY DashboardInvariant, <1>1, PTL

\* A completion the page shows happened, and so did the result it shows.
THEOREM CompletionIsReal == Spec => []CompletionShownIsReal
<1>1. IInv => CompletionShownIsReal
  BY DEF IInv
<1> QED BY DashboardInvariant, <1>1, PTL

\* Across failures, reconnections and reruns the page reads one stream at a time.
THEOREM OneSource == Spec => []OneOpenSource
<1>1. IInv => OneOpenSource
  BY DEF IInv
<1> QED BY DashboardInvariant, <1>1, PTL

\* Failures keep their reasons, and pages the streams they opened.
LEMMA FailureInvariant == Spec => []FailureShape
<1>1. Init => FailureShape
  BY DEF Init, Fresh, FailureShape, FailureHasCause
<1>2. IInv /\ IInv' /\ FailureShape /\ [Next]_vars => FailureShape'
  BY FailureStep
<1> QED BY <1>1, <1>2, DashboardInvariant, PTL DEF Spec

\* A failure is shown for one of five reasons: a failed run, a lost one, one that
\* could not be started, the last attempt made, or an error status of the proxy.
THEOREM FailureIsExplained == Spec => []FailureHasCause
<1>1. FailureShape => FailureHasCause
  BY DEF FailureShape
<1> QED BY <1>1, FailureInvariant, PTL

\* While the first connection of a run is up, or without any fault, nothing is
\* lost: what is taken from the queue of the run was shown or is on its way.
THEOREM NothingLost == Spec => []NoLossOnFirstStream
<1>1. Init => Faultless /\ \A r \in Runs : FirstStream(r)
  <2> SUFFICES ASSUME Init, NEW r \in Runs PROVE Undisturbed(r) /\ FirstStream(r)
    BY DEF Faultless
  <2>1. NoRun # r /\ page.run = NoRun
    BY DEF Init, Fresh
  <2>2. Undisturbed(r)
    BY <2>1 DEF Undisturbed, Init, RunsInit, NoStream, Attempts
  <2>3. FirstStream(r)
    BY <2>1 DEF FirstStream, TerminalLast, Follows, Init, RunsInit, NoStream, Attempts
  <2> QED BY <2>2, <2>3
<1>2. IInv /\ Faultless /\ [Next]_vars => Faultless'
  BY FaultlessStep
<1>3. /\ IInv /\ FailureShape /\ [Next]_vars /\ \A r \in Runs : FirstStream(r)
      => (\A r \in Runs : FirstStream(r))'
  BY FirstStreamStep
<1>4. IInv /\ Faultless /\ (\A r \in Runs : FirstStream(r)) => NoLossOnFirstStream
  <2> SUFFICES ASSUME IInv, Faultless, NEW r \in Runs, FirstStream(r),
                      stream[r][0].up \/ (faults = 0 /\ page.run = r),
                      NEW i \in 1 .. taken[r]
               PROVE  i <= seen[r] \/ i \in stream[r][0].wire
    BY DEF NoLossOnFirstStream
  <2>1. taken[r] \in Nat /\ seen[r] \in Nat /\ Len(log[r]) \in Nat /\ taken[r] <= Len(log[r])
    BY DEF IInv, TypeOK, RunsTypeOK, WireAhead
  <2>2. CASE stream[r][0].up /\ Follows(r)
    BY <2>2 DEF FirstStream
  <2>3. CASE stream[r][0].up /\ ~Follows(r)
    BY <2>1, <2>3 DEF FirstStream
  <2>4. CASE faults = 0 /\ page.run = r
    BY <2>4 DEF Faultless, Undisturbed
  <2> QED BY <2>2, <2>3, <2>4
<1> QED BY <1>1, <1>2, <1>3, <1>4, DashboardInvariant, FailureInvariant, PTL DEF Spec

----------------------------------------------------------------------------
(* The refinement *)

\* The feed as a state of the system: the mapping of Feed.
Emitted == [r \in Runs |-> Len(log[r])]
Finished == [r \in Runs |-> Ended(r)]

\* Events are emitted by a run without an outcome.
LEMMA EmitStep ==
    ASSUME IInv, NEW r \in Runs, CreateRun(r) \/ RunStep(r) \/ Heartbeat(r), seen' = seen
    PROVE  Feed!Emit(r) \/ UNCHANGED Feed!feedVars
<1>0. RunsTypeOK /\ TerminalEventAnswered
  BY DEF IInv, TypeOK
<1>1. PICK q \in Phases, new \in Seq(Events) : TaskStep(r, q, new)
  BY <1>0, TaskSteps
<1>2. /\ log' = [log EXCEPT ![r] = @ \o new] /\ log \in [Runs -> Seq(Events)]
      /\ phase[r] \in {"absent", "started"} \cup Executing
  BY <1>0, <1>1 DEF TaskStep, Advance, RunsTypeOK
<1>3. Appended(r, new)
  BY <1>2, AppendedLog
<1>4. ~Ended(r)
  BY <1>0, <1>2 DEF Ended, TerminalEventAnswered, TerminalTypes, ResultStatus, Executing
<1>5. \A s \in Runs : s # r => Len(log'[s]) = Len(log[s]) /\ Ended(s)' = Ended(s)
  BY <1>3 DEF Appended, Ended, EndedAs
<1>6. CASE new = <<>>
  <2>1. Len(log[r]) \in Nat /\ Len(new) = 0
    BY <1>2, <1>6
  <2>2. log'[r] = log[r]
    BY <1>2, <1>6
  <2>3. \A s \in Runs : Len(log'[s]) = Len(log[s]) /\ Ended(s)' = Ended(s)
    BY <1>5, <2>2 DEF Ended, EndedAs
  <2>4. Emitted' = Emitted /\ Finished' = Finished
    BY <2>3 DEF Emitted, Finished
  <2> QED BY <2>4 DEF Feed!feedVars, Emitted, Finished
<1>7. CASE new # <<>>
  <2>1. Len(log[r]) \in Nat /\ Len(new) \in Nat \ {0} /\ Len(log'[r]) = Len(log[r]) + Len(new)
    BY <1>2, <1>3, <1>7 DEF Appended
  <2>2. Emitted'[r] \in Nat /\ Emitted'[r] > Emitted[r]
    BY <2>1 DEF Emitted
  <2>3. Emitted' = [Emitted EXCEPT ![r] = Emitted'[r]]
    BY <1>5 DEF Emitted
  <2>4. \E last \in BOOLEAN : Finished' = [Finished EXCEPT ![r] = last]
    <3>1. Ended(r)' \in BOOLEAN
      BY DEF Ended
    <3>2. Finished' = [Finished EXCEPT ![r] = Ended(r)']
      BY <1>5 DEF Finished
    <3> QED BY <3>1, <3>2
  <2>5. ~Finished[r]
    BY <1>4 DEF Finished
  <2> QED BY <2>2, <2>3, <2>4, <2>5 DEF Feed!Emit, Emitted, Finished
<1> QED BY <1>6, <1>7

\* The page shows a later event than the last, one that happened.
LEMMA ShowStep ==
    ASSUME IInv, NEW r \in Runs, NEW a \in Attempts, NEW i \in stream[r][a].wire,
           Arrives(r, a, i), log' = log
    PROVE  Feed!Show(r)
<1>1. i \in Nat /\ seen[r] \in Nat /\ taken[r] \in Nat /\ log[r] \in Seq(Events)
  BY DEF IInv, TypeOK, RunsTypeOK, Streams
<1>2. seen[r] < i /\ i <= taken[r] /\ taken[r] <= Len(log[r])
  BY DEF IInv, WireAhead, Arrives
<1>3. i \in seen[r] + 1 .. Emitted[r]
  BY <1>1, <1>2 DEF Emitted
<1>4. Emitted' = Emitted /\ Finished' = Finished
  BY DEF Emitted, Finished, Ended, EndedAs
<1> QED BY <1>3, <1>4 DEF Feed!Show, Emitted, Finished, Arrives

\* Every other step leaves the feed alone.
LEMMA FeedStep ==
    ASSUME IInv, [Next]_vars
    PROVE  [Feed!FeedNext]_Feed!feedVars
<1>1. ASSUME log' = log, seen' = seen
      PROVE  UNCHANGED Feed!feedVars
  <2>1. Emitted' = Emitted /\ Finished' = Finished
    BY <1>1 DEF Emitted, Finished, Ended, EndedAs
  <2> QED BY <1>1, <2>1 DEF Feed!feedVars, Emitted, Finished
<1>2. CASE UNCHANGED vars \/ Click \/ OpenFirstStream \/ PostFails \/ LookupFails
  BY <1>1, <1>2 DEF vars, Click, OpenFirstStream, PostFails, LookupFails, runVars
<1>3. CASE Recovery
  BY <1>1, <1>3 DEF Recovery, AnswerLookup, RecoverCompleted, RecoverFailed, RecoverLater,
                    RecoverExhausted, Reopen, runVars
<1>4. CASE RestartServer
  <2>1. log' = log /\ seen' = seen
    BY <1>4, Zenon DEF RestartServer, LoseRuns
  <2> QED BY <1>1, <2>1
<1>5. ASSUME NEW r \in Runs, ServePost(r) \/ RunProgress(r) \/ RunHeartbeat(r)
      PROVE  [Feed!FeedNext]_Feed!feedVars
  <2>1. (CreateRun(r) \/ RunStep(r) \/ Heartbeat(r)) /\ seen' = seen
    BY <1>5 DEF ServePost, RunProgress, RunHeartbeat
  <2> QED BY <2>1, EmitStep DEF Feed!FeedNext
<1>6. ASSUME NEW r \in Runs, LoadResult(r) \/ LoadPrices(r) \/ LoadRaises(r)
      PROVE  UNCHANGED Feed!feedVars
  BY <1>1, <1>6 DEF LoadResult, LoadPrices, LoadRaises, runVars
<1>7. ASSUME NEW r \in Runs, NEW a \in Attempts, ServerEnd(r, a) \/ Break(r, a) \/ SourceError(r, a)
      PROVE  UNCHANGED Feed!feedVars
  <2>1. log' = log /\ seen' = seen
    BY <1>7 DEF ServerEnd, AcceptStream, RejectStream, SendEvent, NoticeDisconnect, IdleTimeout,
                Break, SourceError, TakeEvent, runVars
  <2> QED BY <1>1, <2>1
<1>8. ASSUME NEW r \in Runs, NEW a \in Attempts, NEW i \in stream[r][a].wire,
             ShowProgress(r, a, i) \/ ShowCompleted(r, a, i) \/ ShowFailed(r, a, i)
      PROVE  Feed!FeedNext
  <2>1. Arrives(r, a, i) /\ log' = log
    BY <1>8 DEF ShowProgress, ShowCompleted, ShowFailed, runVars
  <2> QED BY <2>1, ShowStep DEF Feed!FeedNext
<1> QED BY <1>2, <1>3, <1>4, <1>5, <1>6, <1>7, <1>8 DEF Next, PageEnd

\* The page over all streams of a run implements the lossy feed in order: the
\* reconnections add nothing to what the queue holds and reorder nothing.
THEOREM PageImplementsFeed == Spec => FeedKept
<1>1. Init => Feed!FeedInit
  <2> SUFFICES ASSUME Init PROVE Feed!FeedInit
    OBVIOUS
  <2>1. \A r \in Runs : Len(log[r]) = 0 /\ Ended(r) = FALSE
    BY DEF Init, RunsInit, Ended, EndedAs
  <2>2. Emitted = [r \in Runs |-> 0] /\ Finished = [r \in Runs |-> FALSE]
    BY <2>1 DEF Emitted, Finished
  <2> QED BY <2>2 DEF Feed!FeedInit, Emitted, Finished, Init
<1>2. IInv /\ [Next]_vars => [Feed!FeedNext]_Feed!feedVars
  BY FeedStep
<1> QED BY <1>1, <1>2, DashboardInvariant, PTL DEF Spec, FeedKept, Feed!FeedSpec
=============================================================================
