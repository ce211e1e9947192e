----------------------------- MODULE DashboardRun -----------------------------
(***************************************************************************)
(* The dashboard page (useRecommendationRun.ts) over the runs of the       *)
(* dashboard process: it starts a run, reads its event stream, and when    *)
(* the connection breaks asks the result endpoint and opens another        *)
(* stream, at most Retries times.  Connections go through the Next.js      *)
(* proxy.  The page abandons a broken stream at once; its server side      *)
(* waits for the next event until it notices.                              *)
(***************************************************************************)
EXTENDS RunManager

CONSTANTS
    NoRun,       \* no run id
    Retries,     \* recovery delays: streams a run may have after its first
    MaxFaults    \* bound on faults: broken connections, failing requests, restarts

ASSUME PageAssumption ==
    /\ NoRun \notin Runs
    /\ Retries \in Nat /\ MaxFaults \in Nat

VARIABLES
    page,    \* the page and the recovery of its current run
    stream,  \* per run and attempt: an event stream, at both ends
    seen,    \* per run: the last event the page has shown
    loads,   \* per run: the fetch its loadResult is waiting for
    faults   \* faults so far

vars == <<runVars, page, stream, seen, loads, faults>>

Attempts == 0 .. Retries

\* status, run (activeRunIdRef), terminal and attempt (recoveryAttempt) are the
\* code's; at: what start or recover is waiting for; reply: the result lookup's
\* answer; ran, skipped: the stages; result, prices: the run the tables show.
Pages ==
    [status : {"idle", "running", "completed", "failed"},
     at : {"rest", "posting", "posted", "streaming", "asking", "pausing"},
     run : Runs \cup {NoRun}, terminal : BOOLEAN, attempt : Attempts,
     reply : {"none", "200", "404", "409", "500", "proxy", "raised"},
     ran : SUBSET (1 .. LastNode), skipped : SUBSET (1 .. LastNode),
     result : Runs \cup {NoRun}, prices : Runs \cup {NoRun},
     notice : {"none", "recovering", "error"}]

\* server: the generator of the response; open: the EventSource was not closed;
\* up: bytes still arrive; wire: events sent and not yet dispatched.
Streams ==
    [server : {"none", "opening", "waiting", "closed"}, open : BOOLEAN, up : BOOLEAN,
     wire : SUBSET Nat]

TypeOK ==
    /\ RunsTypeOK
    /\ page \in Pages
    /\ stream \in [Runs -> [Attempts -> Streams]]
    /\ seen \in [Runs -> Nat]
    /\ loads \in [Runs -> {"none", "result", "prices"}]
    /\ faults \in 0 .. MaxFaults

Fresh == [status |-> "idle", at |-> "rest", run |-> NoRun, terminal |-> FALSE, attempt |-> 0,
          reply |-> "none", ran |-> {}, skipped |-> {}, result |-> NoRun, prices |-> NoRun,
          notice |-> "none"]
NoStream == [server |-> "none", open |-> FALSE, up |-> FALSE, wire |-> {}]
NewStream == [server |-> "opening", open |-> TRUE, up |-> TRUE, wire |-> {}]

Init ==
    /\ RunsInit
    /\ page = Fresh
    /\ stream = [r \in Runs |-> [a \in Attempts |-> NoStream]]
    /\ seen = [r \in Runs |-> 0]
    /\ loads = [r \in Runs |-> "none"]
    /\ faults = 0

Fault == faults < MaxFaults /\ faults' = faults + 1

Becomes(r, a, s) == stream' = [stream EXCEPT ![r][a] = s]

\* isActive: the run is the page's current one and its outcome is not known yet.
IsActive(r) == page.run = r /\ ~page.terminal

----------------------------------------------------------------------------
(* start *)

\* The button, enabled unless a run is in progress: everything shown is reset.
\* Fetches of an earlier loadResult stay in flight.
Click ==
    /\ page.status # "running"
    /\ \E r \in Runs : phase[r] = "absent"
    /\ page' = [Fresh EXCEPT !.status = "running", !.at = "posting"]
    /\ UNCHANGED <<runVars, stream, seen, loads, faults>>

ServePost(r) ==
    /\ page.at = "posting"
    /\ CreateRun(r)
    /\ page' = [page EXCEPT !.at = "posted", !.run = r]
    /\ UNCHANGED <<stream, seen, loads, faults>>

OpenFirstStream ==
    /\ page.at = "posted"
    /\ page' = [page EXCEPT !.at = "streaming"]
    /\ Becomes(page.run, 0, NewStream)
    /\ UNCHANGED <<runVars, seen, loads, faults>>

\* The request or its answer is lost; in the second case the run goes on unseen.
PostFails ==
    /\ page.at \in {"posting", "posted"}
    /\ page' = [page EXCEPT !.status = "failed", !.at = "rest", !.run = NoRun,
                            !.notice = "error"]
    /\ Fault
    /\ UNCHANGED <<runVars, stream, seen, loads>>

----------------------------------------------------------------------------
(* The server's end of a stream: stream_events *)

AcceptStream(r, a) ==
    /\ stream[r][a].server = "opening" /\ phase[r] \notin {"absent", "lost"}
    /\ Becomes(r, a, [stream[r][a] EXCEPT !.server = "waiting"])
    /\ UNCHANGED <<runVars, page, seen, loads, faults>>

\* ensure_exists: an unknown run is answered with 404, which ends the EventSource.
RejectStream(r, a) ==
    /\ stream[r][a].server = "opening" /\ phase[r] \in {"absent", "lost"}
    /\ Becomes(r, a, [stream[r][a] EXCEPT !.server = "closed", !.up = FALSE])
    /\ UNCHANGED <<runVars, page, seen, loads, faults>>

\* Slip: the generator returns at the terminal event before it yields it.
SendEvent_ReturnsFirst(r, a) ==
    /\ stream[r][a].server = "waiting"
    /\ TakeEvent(r)
    /\ Becomes(r, a, IF NextEvent(r).type \in TerminalTypes
                     THEN [stream[r][a] EXCEPT !.server = "closed"]
                     ELSE [stream[r][a] EXCEPT
                         !.wire = IF stream[r][a].up THEN @ \cup {taken[r] + 1} ELSE @])
    /\ UNCHANGED <<page, seen, loads, faults>>

\* An event is taken and sent; on a broken connection it is lost.  Any waiting
\* stream of the run may get it.
SendEvent(r, a) ==
    /\ stream[r][a].server = "waiting"
    /\ TakeEvent(r)
    /\ Becomes(r, a, [stream[r][a] EXCEPT
                         !.server = IF NextEvent(r).type \in TerminalTypes THEN "closed" ELSE @,
                         !.wire = IF stream[r][a].up THEN @ \cup {taken[r] + 1} ELSE @])
    /\ UNCHANGED <<page, seen, loads, faults>>

\* The disconnect of a broken or closed stream reaches the server.
NoticeDisconnect(r, a) ==
    /\ stream[r][a].server = "waiting" /\ ~(stream[r][a].up /\ stream[r][a].open)
    /\ Becomes(r, a, [stream[r][a] EXCEPT !.server = "closed"])
    /\ UNCHANGED <<runVars, page, seen, loads, faults>>

\* The connection breaks somewhere, with what was on its way.
Break(r, a) ==
    /\ stream[r][a].open /\ stream[r][a].up
    /\ Becomes(r, a, [stream[r][a] EXCEPT !.up = FALSE, !.wire = {}])
    /\ Fault
    /\ UNCHANGED <<runVars, page, seen, loads>>

\* The proxy ends a connection on which nothing comes any more: without
\* heartbeats there is silence for longer than its 30 seconds.
IdleTimeout(r, a) ==
    /\ stream[r][a].server = "waiting" /\ stream[r][a].open /\ stream[r][a].up
    /\ stream[r][a].wire = {} /\ ~Queued(r) /\ phase[r] \in TerminalTypes
    /\ Becomes(r, a, [stream[r][a] EXCEPT !.up = FALSE])
    /\ UNCHANGED <<runVars, page, seen, loads, faults>>

----------------------------------------------------------------------------
(* The page's end of a stream: openStream and applyEvent *)

\* TCP delivers in order.
Arrives(r, a, i) ==
    /\ stream[r][a].open /\ stream[r][a].up
    /\ i \in stream[r][a].wire /\ \A j \in stream[r][a].wire : i <= j
    /\ seen' = [seen EXCEPT ![r] = i]

\* A finished node: earlier nodes without an event are shown as not executed.
WithNode(n) ==
    [page EXCEPT !.skipped = (@ \cup (1 .. n - 1 \ page.ran)) \ {n}, !.ran = @ \cup {n}]

ShowProgress(r, a, i) ==
    /\ Arrives(r, a, i)
    /\ log[r][i].type \notin TerminalTypes
    /\ Becomes(r, a, [stream[r][a] EXCEPT !.wire = @ \ {i}])
    /\ page' = IF log[r][i].type = "workflow" THEN WithNode(log[r][i].node) ELSE page
    /\ UNCHANGED <<runVars, loads, faults>>

ShowCompleted(r, a, i) ==
    /\ Arrives(r, a, i)
    /\ log[r][i].type = "completed"
    /\ Becomes(r, a, [stream[r][a] EXCEPT !.wire = {}, !.open = FALSE])
    /\ page' = [page EXCEPT !.status = "completed", !.at = "rest", !.terminal = TRUE]
    /\ loads' = [loads EXCEPT ![r] = "result"]
    /\ UNCHANGED <<runVars, faults>>

ShowFailed(r, a, i) ==
    /\ Arrives(r, a, i)
    /\ log[r][i].type = "failed"
    /\ Becomes(r, a, [stream[r][a] EXCEPT !.wire = {}, !.open = FALSE])
    /\ page' = [page EXCEPT !.status = "failed", !.at = "rest", !.terminal = TRUE,
                            !.notice = "error"]
    /\ UNCHANGED <<runVars, loads, faults>>

\* Slip: the broken source is left to reconnect by itself.
SourceError_NoClose(r, a) ==
    /\ stream[r][a].open /\ ~stream[r][a].up
    /\ IsActive(r)
    /\ page' = [page EXCEPT !.at = "asking", !.reply = "none", !.notice = "recovering"]
    /\ UNCHANGED <<runVars, stream, seen, loads, faults>>

\* onerror closes the source and starts recover, which asks for the result.
SourceError(r, a) ==
    /\ stream[r][a].open /\ ~stream[r][a].up
    /\ IsActive(r)
    /\ Becomes(r, a, [stream[r][a] EXCEPT !.open = FALSE])
    /\ page' = [page EXCEPT !.at = "asking", !.reply = "none", !.notice = "recovering"]
    /\ UNCHANGED <<runVars, seen, loads, faults>>

----------------------------------------------------------------------------
(* recover *)

AnswerLookup ==
    /\ page.at = "asking" /\ page.reply = "none"
    /\ page' = [page EXCEPT !.reply = ResultStatus(page.run)]
    /\ UNCHANGED <<runVars, stream, seen, loads, faults>>

\* The lookup fails: the fetch raises, or the proxy, which cannot reach the
\* dashboard, answers it with an error status of its own.
LookupFails ==
    /\ page.at = "asking" /\ page.reply = "none"
    /\ \E reply \in {"raised", "proxy"} : page' = [page EXCEPT !.reply = reply]
    /\ Fault
    /\ UNCHANGED <<runVars, stream, seen, loads>>

\* Slip: 409 is not told apart from errors.
Classify_ConflictFails(reply) == IF reply = "200" THEN "completed" ELSE "failed"

\* classifySseResultStatus
Classify(reply) ==
    CASE reply = "200" -> "completed"
      [] reply = "409" -> "running"
      [] OTHER -> "failed"

Answered == page.at = "asking" /\ page.reply # "none"
Undecided == page.reply = "raised" \/ Classify(page.reply) = "running"

RecoverCompleted ==
    /\ Answered /\ ~Undecided /\ Classify(page.reply) = "completed"
    /\ page' = [page EXCEPT !.status = "completed", !.at = "rest", !.terminal = TRUE]
    /\ loads' = [loads EXCEPT ![page.run] = "result"]
    /\ UNCHANGED <<runVars, stream, seen, faults>>

RecoverFailed ==
    /\ Answered /\ ~Undecided /\ Classify(page.reply) = "failed"
    /\ page' = [page EXCEPT !.status = "failed", !.at = "rest", !.terminal = TRUE,
                            !.notice = "error"]
    /\ UNCHANGED <<runVars, stream, seen, loads, faults>>

\* Slip: one pause too many.
RecoverLater_OneMore ==
    /\ Answered /\ Undecided /\ page.attempt <= Retries
    /\ page' = [page EXCEPT !.at = "pausing"]
    /\ UNCHANGED <<runVars, stream, seen, loads, faults>>

\* nextSseRecoveryDelay: pause and open the next stream, while there is a delay left.
RecoverLater ==
    /\ Answered /\ Undecided /\ page.attempt < Retries
    /\ page' = [page EXCEPT !.at = "pausing"]
    /\ UNCHANGED <<runVars, stream, seen, loads, faults>>

\* Slip: nothing is done when no delay is left.
RecoverExhausted_Ignored ==
    /\ Answered /\ Undecided /\ page.attempt >= Retries
    /\ page' = [page EXCEPT !.at = "rest"]
    /\ UNCHANGED <<runVars, stream, seen, loads, faults>>

RecoverExhausted ==
    /\ Answered /\ Undecided /\ page.attempt >= Retries
    /\ page' = [page EXCEPT !.status = "failed", !.at = "rest", !.notice = "error"]
    /\ UNCHANGED <<runVars, stream, seen, loads, faults>>

Reopen ==
    /\ page.at = "pausing"
    /\ page' = [page EXCEPT !.at = "streaming", !.attempt = @ + 1]
    /\ Becomes(page.run, page.attempt + 1, NewStream)
    /\ UNCHANGED <<runVars, seen, loads, faults>>

----------------------------------------------------------------------------
(* loadResult: it writes into the page whatever run the page shows by then *)

LoadResult(r) ==
    /\ loads[r] = "result" /\ ResultStatus(r) = "200"
    /\ page' = [page EXCEPT !.result = r]
    /\ loads' = [loads EXCEPT ![r] = "prices"]
    /\ UNCHANGED <<runVars, stream, seen, faults>>

LoadPrices(r) ==
    /\ loads[r] = "prices"
    /\ page' = [page EXCEPT !.prices = r]
    /\ loads' = [loads EXCEPT ![r] = "none"]
    /\ UNCHANGED <<runVars, stream, seen, faults>>

\* Its fetch raises, or the result is not available any more.
LoadRaises(r) ==
    /\ loads[r] # "none"
    /\ \/ Fault
       \/ loads[r] = "result" /\ ResultStatus(r) # "200" /\ UNCHANGED faults
    /\ page' = [page EXCEPT !.notice = "error"]
    /\ loads' = [loads EXCEPT ![r] = "none"]
    /\ UNCHANGED <<runVars, stream, seen>>

----------------------------------------------------------------------------
\* The dashboard process restarts: its runs and connections are gone.
RestartServer ==
    /\ LoseRuns /\ phase' # phase
    /\ stream' = [r \in Runs |-> [a \in Attempts |->
                     [stream[r][a] EXCEPT !.up = FALSE, !.wire = {},
                         !.server = IF @ = "none" THEN @ ELSE "closed"]]]
    /\ Fault
    /\ UNCHANGED <<page, seen, loads>>

RunProgress(r) == RunStep(r) /\ UNCHANGED <<page, stream, seen, loads, faults>>
RunHeartbeat(r) == Heartbeat(r) /\ UNCHANGED <<page, stream, seen, loads, faults>>

ServerEnd(r, a) ==
    \/ AcceptStream(r, a) \/ RejectStream(r, a) \/ SendEvent(r, a)
    \/ NoticeDisconnect(r, a) \/ IdleTimeout(r, a)

PageEnd(r, a) ==
    \/ \E i \in stream[r][a].wire :
          ShowProgress(r, a, i) \/ ShowCompleted(r, a, i) \/ ShowFailed(r, a, i)
    \/ SourceError(r, a)

Recovery ==
    \/ AnswerLookup \/ RecoverCompleted \/ RecoverFailed \/ RecoverLater
    \/ RecoverExhausted \/ Reopen

Next ==
    \/ Click \/ OpenFirstStream \/ PostFails \/ LookupFails \/ Recovery \/ RestartServer
    \/ \E r \in Runs :
          \/ ServePost(r) \/ RunProgress(r) \/ RunHeartbeat(r)
          \/ LoadResult(r) \/ LoadPrices(r) \/ LoadRaises(r)
          \/ \E a \in Attempts : ServerEnd(r, a) \/ PageEnd(r, a) \/ Break(r, a)

Spec == Init /\ [][Next]_vars

----------------------------------------------------------------------------
(* Fairness.  The two event loops keep running; the pipeline ends, since   *)
(* every call it makes has a timeout; requests are answered or fail; and   *)
(* the proxy ends a silent connection.  The user, the heartbeat bound and  *)
(* the faults are not fair.                                                *)

Fairness ==
    /\ WF_vars(Recovery) /\ WF_vars(OpenFirstStream)
    /\ WF_vars(\E r \in Runs : ServePost(r))
    /\ \A r \in Runs :
          /\ WF_vars(RunProgress(r))
          /\ \A a \in Attempts : WF_vars(ServerEnd(r, a)) /\ WF_vars(PageEnd(r, a))

FairSpec == Spec /\ Fairness

----------------------------------------------------------------------------
(* Properties *)

\* What the page implements: it shows events of a run in order, none twice, and
\* the terminal event is the last one, across all streams of the run.
Feed == INSTANCE RunFeed WITH
            Feeds <- Runs, emitted <- [r \in Runs |-> Len(log[r])],
            ended <- [r \in Runs |-> Ended(r)], shown <- seen

FeedKept == Feed!FeedSpec

\* The result endpoint and the stream agree: a terminal event in the queue means
\* the lookup answers with that outcome, unless a restart lost the run.
TerminalEventAnswered ==
    \A r \in Runs :
        phase[r] # "lost" =>
            /\ EndedAs(r, "completed") <=> ResultStatus(r) = "200"
            /\ EndedAs(r, "failed") <=> ResultStatus(r) = "500"

\* A page that shows a run as completed is right, and so is a result it shows,
\* whichever of the stream and the lookup it learned it from.
CompletionShownIsReal ==
    /\ page.status = "completed" => EndedAs(page.run, "completed")
    /\ page.result # NoRun => EndedAs(page.result, "completed")

\* A page that shows a failure was told of one (the failed event, the answer 500),
\* lost its run to a restart (404) or could not start it, has opened every stream
\* it may, or took an error status of the proxy for the run's: nothing else ends it.
FailureHasCause ==
    page.status = "failed" =>
        \/ page.run = NoRun
        \/ page.terminal /\ \/ EndedAs(page.run, "failed") \/ phase[page.run] = "lost"
                            \/ page.reply = "proxy"
        \/ ~page.terminal /\ \A a \in Attempts : stream[page.run][a].server # "none"

\* The page reads one stream at a time, the last it opened for its active run; a
\* source that stayed open would show events twice over or of an earlier run.
OneOpenSource ==
    \A r \in Runs, a \in Attempts :
        stream[r][a].open => /\ IsActive(r) /\ page.status = "running"
                             /\ page.at = "streaming" /\ page.attempt = a

\* Events of a run are lost by a fault of its own first connection only: while
\* that is up, or nothing has failed at all, whatever was taken from the queue of
\* the run was shown or is on its way, whatever happened to other requests and runs.
NoLossOnFirstStream ==
    \A r \in Runs :
        stream[r][0].up \/ (faults = 0 /\ page.run = r) =>
            \A i \in 1 .. taken[r] : i <= seen[r] \/ i \in stream[r][0].wire

\* A page that shows a run in progress stops doing so: it learns the outcome or
\* gives up, also when an abandoned stream took the terminal event.
PageSettles == (page.status = "running") ~> (page.status # "running")

----------------------------------------------------------------------------
(* Statements of the documents that the code does not keep *)

\* A failure is shown for a failure of the server (a lost run among them) or
\* after the recovery budget is spent only (docs/ARCHITECTURE.md:65).
FailureShownIsReal ==
    page.status = "failed" =>
        \/ page.run = NoRun
        \/ page.terminal /\ (EndedAs(page.run, "failed") \/ phase[page.run] = "lost")
        \/ ~page.terminal /\ \A a \in Attempts : stream[page.run][a].server # "none"

\* A stage shown as not executed did not run.
SkippedStagesDidNotRun ==
    page.run # NoRun => page.skipped \cap RanNodes(page.run) = {}
=============================================================================
