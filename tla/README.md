# A TLA+ verification project for the AI Content Screening Platform

The platform collects news and filings, runs them through a screening and recommendation
workflow (LangGraph over OpenAI calls), shows the run live on a dashboard (FastAPI + Next.js),
stores recommendation prices, and repeats the whole pipeline on a cron schedule with a Telegram
summary. This directory holds TLA+ modules translated from that code, the TLC configurations
that check them on small instances, and TLAPS proofs for all instances.

Run in this directory: `tlc -workers 2 -config Workers_safety.cfg MCScheduledWorker.tla` for a
run, and `tlapm M.tla` for the proofs of a module `M` whose name ends in `_proofs`.
`PROJECT.json` lists the runs, the lines every definition stands for, the mutants, the findings,
the hazards and the theorems.

| Part of the system | Modules | Runs | Proofs |
| --- | --- | --- | --- |
| Schedules (section 3) | `ScheduleStore`, `ScheduledWorker`, `SlotLedger` | `Workers_*` | `ScheduledWorker_proofs` |
| Dashboard runs and their page (4) | `RunManager`, `DashboardRun`, `RunFeed` | `Dashboard_*` | `DashboardRun_proofs` |
| Recommendation prices (5) | `PriceLookup`, `PriceStore`, `RecommendationPrices`, `PriceLedger` | `Prices_shared` | `RecommendationPrices_proofs` |
| The calls of a screening (6) | `ExtractionRules`, `ScreeningRun` | `Screening_calls` | `ExtractionRules_proofs`, `ScreeningRun_proofs` |
| What a screening decides (7) | `EventRules`, `EventDecisions` | `Decisions` | `EventDecisions_proofs` |
| Executions around it (8) | `Collection`, `ScreeningExecutions` | `Intake` | `ScreeningExecutions_proofs` |

`Lists` has the comprehensions the code is full of, `[x for x in s if ...]` and the count of such
`x`, with `s[:n]` and `combinations`; `Lists_proofs` has the facts about them that sections 6 to 8 cite.

An `MC` module and a `.cfg` file instantiate each of them. The modules do not share variables:
where one component meets another, each models the other by what it may do to it (the workflow is
one step of `ScreeningExecutions`, the number of events of each kind a choice in `ScreeningRun`).

## 1. Inventory

| Component | State | Operations | Hard behaviour | What makes it correct |
| --- | --- | --- | --- | --- |
| Schedule store `app/persistence/schedule_repository.py` | one job row (settings, version, next and last slot, lease), one execution row per slot | get, save, claim_due, complete_execution, renew_lease | concurrent transactions, row locks with SKIP LOCKED, a renewal of two statements | a slot runs once; leases and executions agree; versions are not lost |
| Schedule worker `app/harness/scheduled_recommendations.py`, `app/scheduled_worker.py` | main task, renewal task, the `now_utc` of the current `run_due` | poll, claim, run, record, renew, report | crashes and Docker restarts, late renewals, leases taken over while the pipeline runs | overtaken workers record nothing; due slots are handled; a summary only for a recorded completion |
| Schedule settings `app/web/app.py` (380-418), `settings/page.tsx` | the version a page was loaded with | load, save | check and update in two transactions; saves racing claims | every save replaces the version it saw |
| Worker heartbeat `worker_heartbeat.py`, `worker_healthcheck.py` | a timestamp file | touch, check | a blocked loop, clock skew | a stalled worker is seen as unhealthy, a long run is not |
| Dashboard runs `DashboardRunManager` | per run: event queue, result, error, stage counters | start, run_scheduled, events, result, _execute, heartbeats | several streams on one queue, heartbeats against the terminal event, runs never evicted | the terminal event is the last one and agrees with the result endpoint |
| Dashboard client `useRecommendationRun.ts`, `sseRecovery.ts` | run id, stream, recovery attempt, status | start, stream events, recover, load result | lost connections, proxy errors, a new run over pending fetches | the page ends with the run's actual outcome |
| Recommendation prices `recommendation_prices.py`, `price_repository.py`, `entry_price_backfill.py` | entry and latest snapshot per recommendation | record entries, refresh, backfill, daily backfill | rows read long before they are written; overlapping refreshes and backfills | an entry price never changes; a latest price belongs to its entry |
| Market prices `app/market_prices/` | KIS access token | fetch with retries, KRX fallback, return policy | stale token, bounded retries | the latest closing price any market has; a return only from two available prices |
| Screening workflow `app/workflows/screening/` | graph state per run | 11 nodes, conditional edges, stage retry (at most 3), progress events | retries repeat side effects on the request budget; items dropped between nodes | every article is accounted for once; stages in order |
| Extraction and budget `app/extractors/`, `app/llms/` | recovery requests used, requests used | batches, retries, split recovery, claim | budget exhausted mid-batch | no article lost silently; the caps hold |
| Screening, cross validation, resolution, dedup, analysis, scoring, recommendation, selection | none (functions) | policies and rankings | thresholds, ties, groups of duplicates | deterministic, bounded, order-independent where promised |
| Execution audit, alerts, retention, daily scheduler `app/harness/` | JSONL files, next run time | append, rotate, run_pending | rotation against appends, failing appends after a successful run | row, log line and alert tell the same end; no line is lost |
| Documents, filter snapshots, audits `app/persistence/` | three tables | look up and insert, insert | two executions inserting the same documents, deadlocks | the input of a workflow is on record |
| Providers, normalizers, filter `app/providers/`, `app/skills/`, `app/filters/` | none | collect, normalise, filter | one source of several failing, pages shifting under the reader | a failed source costs its own posts only |
| Config, CLI, prompts, pages | little or none | I/O, text, wiring | set-up failing before anything is audited | not concurrent |

Interactions: the dashboard process and the schedule worker share only PostgreSQL (and log
files). The worker calls the same `DashboardRunManager._execute` as the dashboard, so a
scheduled run is a dashboard run without a stream. Both write price snapshots; the dashboard
and the worker's daily task both backfill them. The browser talks to the dashboard through the
Next.js proxy.

## 2. Plan

Ordered by how much the system's promises depend on it.

1. **Schedules** (done): the transactions, the workers, renewal tasks and settings pages over
   them, an abstract ledger of slots and the proof that they implement it.
2. **Dashboard runs and their client** (done): the runs of the process, the page and its streams
   over them, an abstract feed and the proof that they implement it.
3. **Recommendation prices** (done): recording, refreshes and recoveries as concurrent steps, an
   abstract ledger of observations and the proof that they implement it.
4. **The calls of a screening** (done): the graph with its retries, extraction recovery and the
   request budget, what is reported. Proved: the caps, the explanations of failures, that no
   article vanishes, that the progress events tell the truth.
5. **What a screening decides** (done): deduplication to candidate selection as operators, run
   over small answers and directories. Proved: every invariant of the run.
6. **Executions** (done): collection, documents, audit, alerts, rotation. Proved: every safety
   invariant of the run.
7. **Left**: the cron fields and `next_run_at` against a reference definition, the token cache of
   the KIS client, the heartbeat of the worker.

## 3. The schedule model

**Time.** `now` counts units of a renewal pause (300 s in the code) and every cron slot falls on
a unit; `MaxTime` bounds it. `Fires(c, t)` says that cron `c` matches instant `t` and
`IsNextSlot` is the search of `next_run_at`, bounded by `Horizon` (527 040 minutes in the code).

**ScheduleStore.** `job` is the single row `"default"` that the dashboard can save; version 0
stands for no row. `execs` maps a slot to the status of its execution row. Each operator is one
transaction. `claim_due` and `complete_execution` begin with a `FOR UPDATE` of the job and
`save` is one statement, so they are atomic; `renew_lease` reads the execution and updates the
job in two statements (`RenewalAllowed`, `ExtendLease`), which other transactions can separate.

| Code | Model |
| --- | --- |
| due query of `claim_due` | `Due`; `NothingDue` when there is no row |
| row of the job locked by another transaction (SKIP LOCKED) | `RowBusy`, `RowLocked` |
| execution exists: move on, mark `abandoned` if running | `AbandonSlot` in `PassClaimedSlot` |
| insert the execution, lease the job | `LeaseSlot` in `ClaimSlot` |
| `next_run_at` raises | `ClaimRaises` in `PollRaises` |
| `run_due` called again with the same `now_utc` | `worker[w].polled` |
| `runner.run` returns, raises | `RunReturns`, `RunRaises` |
| `complete_execution` true, false | `RecordCompleted`, `RecordFailed`, `RecordRefused` |
| `reporter.deliver` | `Deliver` |
| `_renew_lease_until_finished` | `renewer`, `RenewCheck`, `RenewUpdate`, `RenewRaises` |
| process death, `restart: unless-stopped` | `Crash`, `Restart` |
| settings page GET, PUT in two transactions | `OpenForm`, `SubmitForm`, `SaveSchedule` |

The renewal task and the main task share an event loop and interleave at every await, so each
step of either is an action. `cancel()` of the renewal task in the `finally` block is part of
the step that leaves the pipeline; a renewal task that already ended with an exception makes
that step end the process. `runs` and `told` count pipeline starts and sent summaries; no code
reads them.

**SlotLedger** is what a user is promised: per slot at most one start, one final outcome, at
most one summary after a completed outcome. `LedgerKept` maps outcome to `execs`, started to
`runs` and sent to `told`.

### Properties

* `TypeOK`: types; also that no undocumented status is written.
* `SlotRunsAtMostOnce`, `LedgerKept`: even when a save moves `next_run_at` back onto a slot
  that was claimed a moment before, and whatever leases expire.
* `LeaseHeldToItsEnd`: nobody takes or releases a lease that has not expired but its own worker,
  and that one with the outcome of the leased slot; a worker whose lease was taken over and that
  finishes late leaves the newer lease alone.
* `LeaseNamesItsRun`, `NoOvertakenOutcome`, `RenewalKeepsOwnLease`: fencing. `complete_execution`
  and `renew_lease` compare the lease owner's name only; with distinct names that is enough,
  also across the two statements of a renewal. With one shared name (the default
  `SCHEDULE_WORKER_ID` twice) it is not.
* `NoSlotDropped`: between saves the schedule moves slot by slot, past executed slots only.
* `SaveReplacesSeenVersion`: optimistic concurrency of the settings.
* `SummaryFollowsCompletion`: no summary for a failed, refused or repeated run.
* `DueSlotHandled`: every due slot is left behind, whatever crashes before.
* `EveryRunEnds`: with one worker, every slot it works on gets its outcome unless its own process
  ends. Earlier faults excuse nothing. A renewal that raises does end the process, at the `await` of
  the renewal task in the `finally` block, and the outcome of the finished pipeline is lost; no
  document promises otherwise, and what becomes of the row is `LostRunIsAbandoned`'s matter.

### Runs and bounds

| Run | Instance | Result |
| --- | --- | --- |
| `Workers_safety` | 2 workers, 2 pages, 2 saves, clock to 4, lease of 1 (so that late renewals lose it), 1 fault, one cron with and one without further slots | holds |
| `Workers_liveness` | 1 worker (as deployed), 1 page, 2 saves, 3 settings, clock to 5, lease of 2, 1 early fault | holds |
| `Workers_lost_run` | as above, safety only | `LostRunIsAbandoned` violated |
| `Workers_stale_clock` | prompt worker, no faults, clock to 8 | `LeaseKeptAhead` violated |
| `Workers_leap_day` | a cron that matches once within the horizon | `DueSlotHandled` violated |

Two workers are what it takes to lose a lease to another claim; a second save is what it takes
to move a claimed schedule back; the clock of the safety run leaves room for two slots, an
expired lease and a takeover. The two pages are interchangeable (symmetry); workers are not,
they have names. Liveness needs a fault early enough that its lease expires before the clock
stops (`LastFault`).

### Fairness

Weak fairness of a live worker's steps: its event loop runs, and every external call has a
timeout. Weak fairness of `Restart`: Docker restarts the container. Strong fairness of the two
claim actions: a worker that finds the row locked polls again, and locks are held for one short
transaction. Weak fairness of a save in flight and of the clock. Opening or submitting a form,
crashing and failing are never fair.

### Findings

* `LostRunIsAbandoned`: a worker's death leaves its execution `running` for ever, against the
  plan that promises a `lease_expired` observation before the schedule moves on.
* `LeaseKeptAhead`: catching up on missed slots, a lease is computed from an old clock value.
* Leap day: a cron without a match within a year ends the worker on every poll, and since the
  settings request fails too, the page has no version to save a replacement with.

### Proofs

`ScheduledWorker_proofs` proves, for every number of workers and pages, every cron, lease
length, clock bound and number of faults and saves:

* `TypeCorrect`, from lemmas that each transaction keeps the tables typed.
* `InvariantHolds`: the invariant `IInv`. The safety invariants are not inductive alone: that a
  slot starts once needs that a started slot has its execution row (part of
  `SlotRunsAtMostOnce`); that a summary is sent once needs that no two workers hold a claim of
  one slot (`ClaimsDistinct`), that a claim has its row and its start (`ClaimsRecorded`) and that
  a reporting worker's slot is completed and unreported (`ReportsDue`). The proof classifies the
  steps (`StepKinds`): claim, pass, outcome, report, or quiet, and handles each kind once.
* `RunsAtMostOnce` and `SummaryAfterCompletion` follow from it; `WorkersImplementLedger` is the
  refinement.
* `LeasesHeldToTheirEnds` (`LeaseHeldToItsEnd`, with `DistinctNames`): a claim looks at the lease with
  a clock that is never ahead (`PolledBefore`), so the lease it takes has expired
  (`LeaseHasExpiry`); a completion that releases one finds its own name and its own slot running,
  which by `LeaseGuardsRunningSlot` of `IInv` (while a lease is held the slot claimed last is
  running) and `NamesIdentifyRuns` is the leased slot.
* `NamesIdentifyRuns`, `OvertakenRunsRecordNothing`, `RenewalsKeepOwnLeases` assume
  `DistinctNames`. The last needs a further invariant, `RenewersWork`: a renewal task lives only
  while its pipeline runs or its failure is being recorded, so that between the check and the
  update of a renewal no other worker can have claimed the slot
  (`LeaseGuardsRunningSlot` makes the leased slot the last claimed).
* `SchedulesAdvanceSlotBySlot` and `SavesReplaceSeenVersions` need the types only.

They rest on `StoreAssumption` and `WorkerAssumption`, which TLC evaluates in every run. Only
model-checked: the liveness properties, which are out of the prover's reach.

### Not modelled here

The contents of a recommendation, the password session of the settings page, cron parsing (a
later module) and the heartbeat file of the worker; its daily price recovery is in section 5. Jobs with an id other
than `"default"` cannot be created by the code.

## 4. The dashboard model

A page posts a run, reads its events as a server-sent stream and, when the connection breaks,
asks the result endpoint and opens another stream, after 1 s and after 3 s. The events of a run
are in one `asyncio.Queue`; every stream of the run takes from it, so a dying stream can take
events, the terminal one included, that nobody will see.

**RunManager** keeps three functions of the run: `phase` (where `_execute` is suspended, or how
it ended), `log` (all events ever put, in order) and `taken` (how many a stream has taken); the
queue is what lies between. The queue is unbounded, so `_emit` never suspends, and each operator
is the code between two suspensions.

| Code | Model |
| --- | --- |
| `start` | `CreateRun`, in `ServePost` |
| `_execute` up to its awaits | `BeginRun`, `CollectPosts`, `StartWorkflow`, `FinishNode`, `BuildResult`, `RecordPrices`, `CompleteRun`, `FailRun` |
| `_emit_heartbeats` | `Heartbeat`; `MaxBeats` bounds it |
| `result` | `ResultStatus` |
| `events` | `TakeEvent`, in `SendEvent` |
| process restart | `LoseRuns`, in `RestartServer` |

A workflow node is a number; `evaluate` is 1 and may branch to `SkipTo` (`aggregate`). The
payload of events, the analyses and the counters are left out.

**DashboardRun** adds the page (`page`), one stream per run and attempt (`stream`, with its
server end, whether the EventSource is open, whether bytes arrive and what is on the wire), the
last event shown (`seen`) and the fetches of `loadResult` in flight (`loads`). `page.at` is what
`start` or `recover` waits for.

| Code | Model |
| --- | --- |
| the button (disabled while a run is in progress), reset in `start` | `Click` |
| POST: served; request or answer lost | `ServePost`, `OpenFirstStream`; `PostFails` |
| `stream_events`: accepted, 404, one event, disconnect noticed | `AcceptStream`, `RejectStream`, `SendEvent`, `NoticeDisconnect` |
| listeners of `openStream`, `applyEvent` | `ShowProgress`, `ShowCompleted`, `ShowFailed` |
| `onerror` | `SourceError` |
| `recover`: lookup, its answer, its failure | `AnswerLookup`, `LookupFails`, `RecoverCompleted`, `RecoverFailed`, `RecoverLater`, `RecoverExhausted` |
| the timer of `recover` | `Reopen` |
| `loadResult` | `LoadResult`, `LoadPrices`, `LoadRaises` |
| network, proxy | `Break`, `IdleTimeout` (external) |

`sourceRef.close()` and `clearTimeout` in `start` have nothing to do: the button is enabled only
when the page is not in progress, and then no source is open (`OneOpenSource`) and no timer is
pending (`PageShape`). For the same reason the automatic reconnection of an EventSource plays no
part: the hook closes every source that reports an error while the run is active, and no source
is open otherwise.

**RunFeed** is what `docs/ARCHITECTURE.md` calls a best-effort transport: per run, events happen
until the terminal one; the page shows some of them, in order, none twice. `FeedKept` maps the
events that happened to `Len(log)`, the end to the terminal event in the log, and what is shown
to `seen`, across all streams of the run.

### Properties

* `TypeOK`: types; among them that a run never has more than `Retries + 1` streams.
* `FeedKept`: reconnections reorder and repeat nothing, and no event follows the terminal one.
* `TerminalEventAnswered`: stream and result endpoint agree at every moment.
* `CompletionShownIsReal`: status and result of the page belong to completed runs.
* `FailureHasCause`: what may make the page show a failure: the failed event, the answer 500, a lost
  run (404), a POST that failed, every stream used up, or an error status of the proxy; nothing
  else does, however events, lookups and timers interleave.
* `OneOpenSource`: one source at a time, that of the last attempt of the active run.
* `NoLossOnFirstStream`: an event taken from the queue exists nowhere else. While the first connection
  of a run is up, whatever fails besides, or as long as nothing has failed, all events that were
  taken have been shown or are on their way. Once a second stream is open this is not so, since
  the dying one may take events: that is `SkippedStagesDidNotRun`.
* `PageSettles`: a run shown as in progress does not stay so for ever, although an abandoned
  stream may have swallowed the terminal event.
* `SkippedStagesDidNotRun`, `FailureShownIsReal`: statements of the documents that the code
  does not keep, below.

### Runs and bounds

| Run | Instance | Result |
| --- | --- | --- |
| `Dashboard_recovery` | 1 run, 2 nodes, 1 heartbeat, 2 streams (`Retries` 1), 2 faults | holds |
| `Dashboard_lost_events` | 3 nodes, 2 retries, 1 fault | `SkippedStagesDidNotRun` violated |
| `Dashboard_proxy_error` | 2 nodes, 1 retry, 2 faults | `FailureShownIsReal` violated |

Two streams are what it takes to share a queue and to exhaust the recovery after a second break;
two faults also let a restart follow a broken stream. One heartbeat can come before, between and
(in a mutated code) after the other events. The run has one run of the dashboard; that a second
one is never mixed up with it is part of the proofs, which cover every number of each.

### Fairness

The two event loops run: weak fairness of the recovery, of each stream's ends, of the run's task.
The task ends because every call it awaits has a timeout. Requests are answered or fail.
`IdleTimeout` is the one assumption about code outside the repository: Next.js ends a proxied
connection after 30 s of silence (its default `proxyTimeout`, which `next.config.ts` leaves
alone); heartbeats come every 5 s, so only a stream whose run is over falls silent. Without it a
reconnected stream whose predecessor took the terminal event would wait for ever, and the page
with it. The user, heartbeats and faults are not fair.

### Findings

* `SkippedStagesDidNotRun`: a lost node event makes the page show an executed node as `미실행`.
* `FailureShownIsReal`: `docs/ARCHITECTURE.md:65` promises the stopped state only for an actual
  failure of the server or an exhausted recovery. The page reaches the API through the rewrite of
  Next.js (`next.config.ts:16-22`), and every status but 200 and 409 is a failure to it
  (`sseRecovery.ts:12`): an error of the proxy itself, while it cannot reach the API, ends the display
  of a run that is still going, with recovery attempts left.

### Proofs

`DashboardRun_proofs`, for every number of runs, nodes, heartbeats, retries and faults:

* `DashboardInvariant`: the invariant `IInv`. The safety properties need one another and three
  helpers: `PageShape` (what the closure of `start` holds while it waits: without it a reopened
  stream could exceed the attempts), `ReplyIsReal` (an answer 200 stays true while it travels)
  and `WireAhead` (what is on the wire of the open source is later than what was shown).
  `RunsAreKept` collects what every step leaves of the runs: outcomes, events and losses last.
  Then each conjunct has its lemma, by the kind of step: those that leave the control of the page
  alone (`QuietControl`), open a stream, close it, or show an event.
* `DashboardTypeCorrect`, `StreamAndEndpointAgree`, `CompletionIsReal`, `OneSource` follow.
* `FailureIsExplained` (`FailureHasCause`), with the invariant `FailureShape`: why a lookup answered
  as it did, and which streams were opened.
* `NothingLost` (`NoLossOnFirstStream`), with two invariants. `FirstStream`, per run: while its first
  connection is up there is no other stream, and the page reads that one or has shown all there
  will be, so nobody else takes from the queue; a step of another run or stream leaves that as it
  was (`Alike`). `Faultless`, as long as nothing has failed: the terminal event is the last of its
  queue, a run has one stream, and it is open until the page has shown the terminal event, so it
  never falls silent and recovery never starts.
* `PageImplementsFeed`: `FeedKept`, every step is a step of the feed or a stutter.

Only model-checked: `PageSettles`.

### Not modelled here

Leaving the page, the diagnostics it posts, analyses and counters, `run_scheduled` (a run whose
events nobody takes), and the eviction of runs (there is none). A result fetched by `loadResult`
is written into the page whatever run it shows by then (`LoadResult`); no document promises
otherwise.

## 5. The price model

A BUY or SELL recommendation gets an entry observation when its run ends; the schedule worker and
the history page observe latest prices later, and recover entries that had no price. All of them
read the table, look prices up one after the other over seconds, and then write in one
transaction, so every write rests on a stale read.

**PriceLookup** is what one lookup observes: `KrxFetch` over days, markets and attempts,
`ClassifyStatus` of the errors, and the returns and summaries computed from two observations.
**PriceStore** holds the rows of `recommendation_price_snapshots` and its three transactions;
the conflict clauses and the `WHERE` of the update are what they keep. **RecommendationPrices**
gives every actor a program of operations, each begun, looked up and ended in its own steps.

| Code | Model |
| --- | --- |
| `record_entries` | `BeginRecord`, `Lookup`, `Write` |
| `refresh_and_query`, `_collect`, `_refresh_latest`, `_latest_for_entry` | `BeginQuery`, `ToObserve`, `Lookup`, `Write`, `Answer` |
| `backfill`, `_pending_entries`, `recovered_count` | the same with `op` "backfill"; `Counted` |
| a lookup that raises, the database that fails | `LookupRaises`, `DatabaseFails` |
| `DashboardScheduledRunner.run`, its summary | `Summarize` |
| history page: load, `replaceHistoryRun`, `replaceHistoryItem` | `Deliver` |
| `store_entries`, `upsert_latest`, `backfill_entries` | `StoreEntries`, `UpsertLatest`, `BackfillEntries` |

The lookups of one operation touch only its locals, so they are one action. The time of a
query is one instant after the last recording; that is all the return policy tells apart.

**PriceLedger** is the promise: per recommendation one entry of the time it was made, which may
still get a price as of that time and never changes afterwards; later observations only where
there is an entry. That a newer latest observation may be replaced by an older one (the last
writer wins) is allowed by it, as it is by the code.

### Properties, run and bounds

* `LedgerKept`: the refinement, whatever refreshes and recoveries overlap.
* `ShownEntryIsStored`: a stale read may lack a price, never show another one.
* `RecoveredCountIsTrue`: the count is of observations and not of updated rows, and true all the
  same, because a row somebody else updated first has a price.
* `PicksRecorded`: one lookup that raises costs its siblings nothing.
* `QueriesSettle`: every operation ends and the scheduled run gets its outcome.
* `LatestCloseIsFound`, `SummariesAreSound`, `ReturnsMirror` (assumptions of
  `MCRecommendationPrices`, evaluated by TLC): the pure functions against what they are for.

`Prices_shared`: the worker (record, refresh, recover) and two requests of the page on two
items, one fault; two of each is what it takes for a stale read to meet a write. Two days, markets
and attempts show every branch of the lookup. A database error in the price refresh or summary of a
scheduled run makes it a failed one, with its entries stored (`DatabaseFails`): the promise of
`scheduled_worker.py:196`, a summary that does not affect the result, is kept by the creation of
the service only.

Fairness: some step goes on while any can, since database and HTTP clients have timeouts; no
order among the actors is assumed.

### Proofs

`RecommendationPrices_proofs`, for every set of items, programs, outcomes and faults: `IInv` is
typing, `ShownEntryIsStored`, `PicksRecorded` and `Fits` for each actor, which says what a stale
local still implies of the table: a row that was read is there with its time, and what is about
to be written has a row and, in a recovery, that row's time. `Grow` is the fact every step gives
the other actors: entries stay, with their times, and priced ones unchanged. From it
`PricesTypeCorrect`, `ShownIsStored`, `PicksAreRecorded` and `PricesImplementLedger`.

`CountsAreTrue` adds to `IInv` that each counted item is priced in the table (`Grow` keeps it so)
and is read as priced by any later query. It needs `LaterStepsCover`: the query after a recovery
asks for at least the recovered items, as the page does, which has the whole run answered
(`MCRecommendationPrices` evaluates it). Only model-checked: `QueriesSettle`, a liveness property.

Not modelled: the token of the KIS client (a lookup that fails with it is one unavailable
outcome), the once-a-day date of the daily recovery (a repetition changes nothing), the texts of
company and ticker.

## 6. The calls of a screening

**ExtractionRules** has the rule evaluator, the parser of an extraction answer, which accepts or
refuses an answer as a whole and drops single events and facts, and the contract events read from
the titles of filings. **ScreeningRun** is one execution of the graph: `node` and `attempt` are
where LangGraph is, `used` is the budget of the execution, `ext` and `asked` are the locals of the
nodes that call the model, `flow` is the state of the graph, as sequences where the extraction needs
them and counts after it, and `progress` is what `run_with_progress` has yielded.

| Code | Model |
| --- | --- |
| edges, `has_accepted_articles` | `After` |
| `_next_node`, `_stage_counts`, `_analysis_progress` | `NextNode`, `StageCounts`, `Analyses` |
| `_LLM_RETRY_POLICY`, `_retry_llm_stage`, `_raise_retry_exhausted` | `Raise` |
| `ProviderRequestBudget.claim`, its error | `Claim`, `BudgetSpent` |
| `LLMNewsEventExtractor.extract`, `_extract_with_recovery`, `_attempt_batch` | `ExtractBatch` with `Answered`, `Missed`, `MaySplit`, `PartEnds`; `ExtractFails`, `ExtractEnds` |
| `LLMEventComparator.compare` | `Deduplicate`, `NothingToCompare` |
| `LLMEventScreener.screen` | `ScreenRefuses`, `ScreenEvents`, `ScreenFails`, `ScreenEnds` |
| `LLMEventCrossValidator.validate` | `CrossValidationRefuses`, `CrossValidate`, `CrossValidationFails`, `CrossValidationEnds` |
| the nodes that compute | `Evaluate`, `Resolve`, `Analyze`, `Aggregate`, `Advise` |
| the statistics of `recommend` | `Statistics` |

### Properties, run and bounds

* `TypeOK` carries the caps: requests of an execution, recovery calls of an extraction.
* `ArticlesAccounted`: retried, split, refused or collected twice, every accepted article ends
  with its inference or with an error that names its batch; events quote their article.
* `FailureIsExplained`: the error names the stage whose third attempt failed, or the budget.
* `ProgressTellsTruth`: the edge logic that is written twice agrees, every stage is reported once,
  and stage counts and statistics, computed in two places, agree.
* `ScreeningEnds`: with answers, errors and budget in any order, an execution ends.

`Screening_calls` has inputs of up to five articles (among them none accepted, one twice, one with
paragraphs, a filing), batches of two split in ones, 7 requests and 3 recovery calls: half of what
the code has, so that each limit can be met in each stage, and by a stage that is retried. The
fairness is that a call ends: the OpenAI client has a timeout (`app/llms/openai.py:11`).

### Proofs

`ScreeningRun_proofs`, for every input, answer, error and limit:

* `CapsHold` and `FailuresAreExplained`, from the invariant `IInv`. It needs `SplitFits` (while a
  batch is split, the parts that are left fit the recovery limit: the check is made once, before
  the first part) and `AttemptsPaid` (what a stage has done in this attempt, and each earlier
  attempt, has cost a request: why an exhausted stage has used at least three).
* `NoArticleVanishes` (`ArticlesAccounted`), from `AInv`. While the extraction runs, `Accounted(ext)`
  says of the batches and parts behind it what the property says at the end: the inferences and
  the errors found so far account for the first `Through(batch - 1)` accepted articles, and those
  of the current batch for the parts that were answered. `MissedAccounted` and `AnsweredAccounted`
  have one case per way a call can end (retry, split, part, batch lost, batch kept), and
  `ResultAccounts` adds the events read from titles. What an answer that is not refused contains
  (one inference per article of the batch, with grounded evidence) and what `Augment` leaves of a
  list are lemmas about the operators, in `ExtractionRules_proofs`.
* `ProgressIsTrue` (`ProgressTellsTruth`), from `PInv`: the events so far are of the nodes behind the
  current one in the order of the graph, each named the next (`Chained`), the counts of each
  event are what its node left in the state (`Linked`) and no later node changes them, and
  without accepted articles the counts of the nodes that are passed over stay zero (`Skips`: the
  statistics are read from the state, the events are not there). `NextIsAfter` is the lemma that the
  two copies of the edges agree. That extract accounts for every article needs `AInv`: without
  it, there could be more inferences than articles.

They rest on `ScreeningAssumption`, `ExtractionAssumption` and `AnswersAssumption` (the items of an
answer have lists of events, and these lists of facts: the response format), which TLC evaluates.
Accepted articles and dropped items are selected by `Where` and counted by `HowMany` of `Lists`, which
pick the places of the elements, because `SelectSeq` of the standard modules has no definition the
prover could use. Induction over a list is done on the set of lengths for which a claim
holds (`SetInduction`), since the library's induction theorems take an operator as parameter. Only
model-checked: `ScreeningEnds`, a liveness property.

## 7. What a screening decides

**EventRules** holds the deterministic rules as operators: candidate pairs, union-find, the rank
of a canonical event, scorecard and decision, evidence and independent sources, the directory and
the resolution of names, impacts, exclusions, groups, scores, actions, ranks. **EventDecisions**
runs them as the nodes do, with any of a set of model answers in between. Texts are values that
are equal where the code's normalisation makes them equal.

* `IncidentsAreJoined`: the clusters are exactly the connected components of the pairs judged the
  same (stated by cuts, not by union-find), each represented by one of its best ranked events.
* `VerifiedIndependently`: a verified event has two supporting articles that no chain of shared
  sites or publishers joins, and none of them is its own report.
* `PickIsSupported`: every selected candidate goes back to an event with enough relevance and
  importance that was accepted or verified, and names the company directly and unambiguously.
* `ScoresAreNet`: a company is scored once, whatever names it goes by, with good news less bad. An
  event counts for each name it has for a company, as `RuleImpactStrategy` has one observation per
  fact and name and the aggregation merges none (`docs/WORKFLOW.md:325`).

`Decisions` has four articles with shared publishers and sites, up to three events on them (one calls
a company by two names), directories of each kind (none, from a file, from the exchange; with an
ambiguous name, found some days back; those with an id twice, an invalid row of a local file or no
row are refused) and answers at each threshold, one below it, twice for one index, out of range and invalid. Batches of two
make for a second batch in screening and review. The cut-off of 100 pairs is never met in the run;
in the proofs it is any number. `default.py` and `rule_strategy.py` of the deduplicators are not
wired by `bootstrap.py` and not modelled, nor is an evidence relation `partial`, which the parser
never produces.

### Proofs

`EventDecisions_proofs`, for every extraction, directory, answer, batch size and limit:

* `ReportsAreJoined` (`IncidentsAreJoined`). `LinkedJoins` is about the union-find: after n pairs the
  parents are a forest (`Forest`: every node reaches a root within as many steps as there are nodes
  that are not roots), and two nodes have one root exactly when no set that the first n pairs do
  not leave separates them (`Joined`). The step is `UnionJoins`, that the root of one tree becomes a
  child of the other root: paths grow by one step at most, and there is one root fewer. So the
  bounded search for a root always ends at one (`RootIsRoot`). `CanonicalIsFirst` says that the
  representative of a group is one that no other is ranked before: ranks are tuples of numbers
  ending in the event's own (`Keys`), on which `Before` is a strict total order (`BeforeOrders`).
* `VerificationIsIndependent` (`VerifiedIndependently`). `TwoSources`: if the union-find over the
  supporting articles finds two groups, the articles of one of them are a cut that no common source
  crosses. `Founded` is what the invariant keeps of a verdict; it is about the articles related
  to the event (`RelatedAre`), which do not include its own.
* `ScoresAreNetted` (`ScoresAreNet`). The sum over a group (`ScoreIsNet`) is the count of its good
  less its bad impacts; a group has all impacts of its company (`GroupsAre`); and these are as
  many as the pairs of a fact and a company of an event that counts (`ImpactsAre`, `ObservationsAre`,
  over `FlattenedCount` of `Lists_proofs`).
* `PicksAreSupported` (`PickIsSupported`), which needs all of them: what is picked has a score of at
  least one, so good news, so an event that counts (`CountsWhen` goes back through the resolve
  policy to the screening decision and the verdict), whose company was resolved to the only id its
  name can mean (`ResolutionIs`), and which stands for its incident.
* `TypeCorrect` (`TypeOK`): no decision outside the events, no more batches than events, no advice
  on a company the directory does not have, ranks up to the limit.

The invariant `IInv` has what each node left in the state: `Represented` of the groups, `Decisions`
(they are on the kept events of the batches so far, on each once: why a failed batch can be
skipped), `Progress`, `Validations`, and `Conclusions`, that the results of the last nodes are
still those of the state they were computed from. They rest on `RulesAssumption` (limits are numbers,
publication dates too, and `None` differs from the texts it is compared with), `ExtractionsAssumption`
(events were read from the articles of the run), `DirectoriesAssumption` and `AnswersAssumption` (what
the loaders and parsers pass on: lists, scores of 0 to 100), all evaluated by TLC. Induction over pairs,
impacts and lists is done on the set of lengths, as in section 6.

## 8. Executions around the workflow

**Collection** has the three providers with their paging and partial failures, the normalizers by
what they drop, the filter and its snapshot. **ScreeningExecutions** runs dashboard and command
line executions side by side on one database and one log.

| Code | Model |
| --- | --- |
| `CollectPostsSkill.execute`, `posts_to_articles`, the filter | `Collect` |
| the filter snapshot of a dashboard run | `StoreSnapshot` |
| `SqlAlchemyDocumentPersistence.persist` (one transaction) | `LookupDocument`, `InsertDocument`, `CommitDocuments`, `BreakDeadlock` (the database) |
| `ScreeningExecutionHarness.run`, `_append` | `Work`, `StoreAudit`, `AuditFails`, `OpenLog`, `WriteLog`, `LogFails` |
| alerts | `AlertsOf`, `DeliverAlerts` |
| `JsonLinesLogMaintenance.rotate` | `RotationBegins`, `RenameLog`, `RotationEnds` |
| failures of the set-up, the database, the process | `SetUpFails`, `DatabaseFails`, `Killed` |

A log file is what its path named when it was opened: `files` are all that were ever created,
`active` and `archives` say where they can be found.

* `InputsRecorded`: what a workflow reads is on record before it starts. Its part
  `DocumentsRecorded`: a rolled-back execution leaves no document, and none is stored twice.
* `AuditIsTrue`: row, log line, alert and answer tell the same end. A failing append replaces the
  result by its error; then there may be a row without a line, never a line without its row.
* `RecordsKept`: no line is lost or found twice when appends meet rotations, also two in one
  second (its part `LinesFound`), and the metrics of all logs count every logged execution once.

`Intake`: one dashboard run and two command-line executions that store the same documents in
different orders (which is what a deadlock takes), two rotations, one fault of one of two
executions.

`ScreeningExecutions_proofs`, for every set of executions, whatever they collect:

* `AuditsAreTrue`. Its invariant `Account` says per position of an execution which of its records
  exist; `RecordsStay` that nobody else's step changes them.
* `LinesAreFound` (`LinesFound`). `FilesInv` says that every file there is has one path (`Shelf`),
  that a logged execution has one line in them (`Filed`), and that a file opened for writing
  exists, whatever has been renamed since (`Pending`). A rotation keeps the lines and all paths
  different; a write adds the one line that was not there.
* `DocumentsAreRecorded` (`DocumentsRecorded`). `DocumentsInv` says that no two rows clash, of
  whichever open or committed transactions (an insert waits for the others' rows, and its lookup
  saw its own), and that the articles an execution has passed have a row it will see
  (`Standing`). That the collected articles are a list is a lemma about `Collection`.
* `TypeCorrect`; `InputsAreRecorded` (`InputsRecorded`), which adds the counts of the filter
  snapshot, and `RecordsAreKept` (`RecordsKept`), which adds that the metrics over all logs count every
  logged execution once: both count the places of a list, so that the lines of the files and
  the logged executions are put in correspondence one to one.

They rest on `ExecutionsAssumption`: the errors of the workflow are told apart from those of
set-up and harness, and `None` from numbers and errors.

## 9. Not modelled

* The worker's heartbeat and its health check: one writer and one reader of a timestamp; a read
  between truncation and write is a matter of the file system, absorbed by Docker's retries.
* `DailyWorkflowScheduler`, which no entry point starts; `plan_prune`, which deletes nothing; the
  content pipeline and the model-based evaluator, which the screening does not use.
* A log line that is written in part, `--input` files, the KIS token, cron parsing.
* Prompts, configuration, formatting, layout: text and wiring.
* The web session, the diagnostics endpoint and the browser's display of analyses.
