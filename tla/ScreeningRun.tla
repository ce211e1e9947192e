---------------------------- MODULE ScreeningRun -----------------------------
(***************************************************************************)
(* One execution of the screening workflow: the graph of                   *)
(* app/workflows/screening/graph.py with its retry policy, the calls its   *)
(* nodes make to the model (extraction with its recovery, deduplication,   *)
(* screening, cross validation), the request budget those calls share      *)
(* (app/llms/budget.py), and the progress events and statistics it reports *)
(* (workflow.py).  What the answers after the extraction decide is the     *)
(* matter of EventDecisions; here only how many of each kind there are.    *)
(***************************************************************************)
EXTENDS ExtractionRules

CONSTANTS
    Inputs,       \* sequences of articles a screening may start with
    Answers(_),   \* answers about a batch of articles
    ErrorTypes,   \* OpenAI errors a call may raise
    MaxRequests,  \* calls of one execution (20)
    BatchSize,    \* articles per extraction call (10)
    PartSize,     \* and per call of a split recovery (5)
    MaxRetries,   \* further attempts of a whole batch (1)
    MaxRecovery,  \* recovery calls of one extraction (4)
    ScreenBatch,  \* events per screening call (5)
    ReviewBatch,  \* reviewed events per cross-validation call
    MaxImpacts,   \* bound: impacts of one screening
    MaxPicks      \* candidates selected at most

ASSUME ScreeningAssumption ==
    /\ MaxRequests \in Nat \ {0} /\ MaxRetries \in Nat /\ MaxRecovery \in Nat
    /\ {BatchSize, PartSize, ScreenBatch, ReviewBatch} \subseteq Nat \ {0}
    /\ MaxImpacts \in Nat /\ MaxPicks \in Nat
    /\ Inputs \subseteq Seq(DOMAIN Articles)
    /\ "ResponseProcessingError" \notin ErrorTypes

\* The response format: lists of events, of which each has a list of facts.
ASSUME AnswersAssumption ==
    \A n \in 1 .. BatchSize : \A batch \in [1 .. n -> DOMAIN Articles] :
       \A items \in Answers(batch) : \A i \in DOMAIN items : Listed(items[i])

VARIABLES
    input,     \* the articles
    node,      \* node of the graph that runs, "end" after the last one
    attempt,   \* its attempt
    used,      \* requests claimed from the budget
    ext,       \* locals of an extraction
    asked,     \* locals of a screening or cross validation
    flow,      \* what the completed nodes have left in the state of the graph
    progress,  \* progress events sent
    outcome    \* of the execution

vars == <<input, node, attempt, used, ext, asked, flow, progress, outcome>>

Order == <<"evaluate", "extract", "deduplicate", "screen", "cross_validate", "resolve", "analyze",
           "aggregate", "score", "recommend", "select_candidates">>
Attempts == 3
Retryable == {"APITimeoutError", "APIConnectionError", "AuthenticationError", "PermissionDeniedError"}

At(n) == node = n /\ outcome.status = "running"
Accepted == Where(input, LAMBDA a : Rejection(a) = None)
AcceptedCount == HowMany(input, LAMBDA a : Rejection(a) = None)
Smaller(m, n) == IF m < n THEN m ELSE n
Parts(n, size) == (n + size - 1) \div size
BatchOf(s, n, size) == SubSeq(s, (n - 1) * size + 1, Smaller(n * size, Len(s)))
SizeOf(count, n, size) == Smaller(n * size, count) - (n - 1) * size

NoWork == [batch |-> 1, phase |-> "initial", tries |-> 0, part |-> 0, recovery |-> 0, ok |-> 0,
           found |-> <<>>, errors |-> <<>>, partFound |-> <<>>, partErrors |-> <<>>]
NoAnswer == [good |-> 0, middle |-> 0, bad |-> 0]
NotAsked == [handled |-> 0, tally |-> NoAnswer, last |-> None]
NoFlow == [inferences |-> <<>>, errors |-> <<>>, ok |-> 0, events |-> 0, passed |-> 0, review |-> 0,
           rejected |-> 0, related |-> 0, verified |-> 0, unverified |-> 0, resolved |-> 0,
           refused |-> 0, impacts |-> 0, eligible |-> 0, companies |-> 0]
Running == [status |-> "running", error |-> None, stage |-> None, statistics |-> None]

Init ==
    /\ input \in Inputs
    /\ node = "evaluate" /\ attempt = 1 /\ used = 0
    /\ ext = NoWork /\ asked = NotAsked /\ flow = NoFlow
    /\ progress = <<>> /\ outcome = Running

----------------------------------------------------------------------------
(* The graph, its retries and what it reports.                             *)

\* The edge out of a node; evaluate has two.
After(n) ==
    IF n = "evaluate" /\ AcceptedCount = 0 THEN "aggregate"
    ELSE IF n = "select_candidates" THEN "end"
    ELSE Order[1 + CHOOSE k \in DOMAIN Order : Order[k] = n]

\* Mutant: the next node is told without the branch of evaluate.
NextNode_NoBranch(n) ==
    IF n = "select_candidates" THEN None ELSE Order[1 + CHOOSE k \in DOMAIN Order : Order[k] = n]

\* ScreeningWorkflow._next_node, which repeats the edges for the progress event.
NextNode(n) ==
    LET order == Tail(Order) IN
    IF n = "evaluate" THEN IF AcceptedCount # 0 THEN "extract" ELSE "aggregate"
    ELSE LET k == CHOOSE k \in DOMAIN order : order[k] = n
         IN  IF k < Len(order) THEN order[k + 1] ELSE None

\* The events of all inferences, each told by its inference and its position there.
EventsOf(inferences) == Cardinality(UNION {{n} \X DOMAIN inferences[n].events : n \in DOMAIN inferences})

\* The ids of events: the article and the position among its events.
EventIds(inferences) == UNION {{i.article} \X DOMAIN i.events : i \in ToSet(inferences)}

\* ScreeningWorkflow._stage_counts: from the state before the node and its update f.
StageCounts(n, f) ==
    LET counts(in, accepted) == [input |-> in, accepted |-> accepted, rejected |-> in - accepted]
        decided == f.passed + f.review + f.rejected
    IN  CASE n = "evaluate" -> counts(Len(input), AcceptedCount)
          [] n = "extract" ->
                counts(AcceptedCount, HowMany(f.inferences, LAMBDA i : i.events # <<>>))
          [] n = "deduplicate" -> counts(EventsOf(flow.inferences), f.events)
          [] n = "screen" -> counts(decided, f.passed + f.review)
          [] n = "cross_validate" ->
                [input |-> flow.review, accepted |-> f.verified, rejected |-> f.unverified]
          [] n = "resolve" -> [input |-> decided, accepted |-> f.resolved, rejected |-> f.refused]
          [] n = "analyze" -> counts(f.resolved + f.refused, f.resolved + f.refused)
          [] n = "aggregate" -> counts(f.impacts, f.eligible)
          [] n \in {"score", "recommend"} -> counts(f.companies, f.companies)
          [] n = "select_candidates" -> counts(f.companies, Smaller(f.companies, MaxPicks))

\* ScreeningWorkflow._analysis_progress of extract: the articles with an inference, then
\* the others that were evaluated.
Analyses(n, f) ==
    LET found == [k \in DOMAIN f.inferences |-> f.inferences[k].article] IN
    CASE n = "extract" -> found \o Where(input, LAMBDA a : a \notin ToSet(found))
      [] OTHER -> <<>>

\* The statistics _ScreeningNodes.recommend takes from the final state.
Statistics ==
    LET errorsOf(kinds) == HowMany(flow.errors, LAMBDA e : e.kind \in kinds) IN
    [total |-> Len(input), accepted |-> AcceptedCount, extracted |-> flow.events, batches |-> flow.ok,
     decisions |-> flow.passed + flow.review + flow.rejected,
     results |-> flow.verified + flow.unverified, resolved |-> flow.resolved + flow.refused,
     lostBatches |-> errorsOf({"api_call", "response_processing"}),
     malformed |-> errorsOf({"event_validation", "fact_validation"}),
     eligible |-> flow.eligible, companies |-> flow.companies]

\* The node ends with f as the state: one progress event, and the next node starts afresh.
Complete(f) ==
    /\ flow' = f
    /\ progress' = Append(progress, [node |-> node, next |-> NextNode(node),
                                     articles |-> Analyses(node, f), counts |-> StageCounts(node, f)])
    /\ node' = After(node) /\ attempt' = 1
    /\ ext' = NoWork /\ asked' = NotAsked
    /\ outcome' = IF node' = "end" THEN [Running EXCEPT !.status = "done", !.statistics = Statistics]
                  ELSE outcome
    /\ UNCHANGED input

\* The execution fails: an error was raised, a stage's retries are exhausted, or the budget.
Fail(status, error, stage) ==
    /\ outcome' = [Running EXCEPT !.status = status, !.error = error, !.stage = stage]
    /\ UNCHANGED <<input, node, attempt, ext, asked, flow, progress>>

\* Mutant: the deduplication does not mark its errors, which then count as another stage's.
Raise_Unmarked(type, stage) ==
    IF type \notin Retryable THEN Fail("raised", type, None)
    ELSE IF attempt = Attempts
    THEN Fail("retries_exhausted", type, IF stage = "deduplicate" THEN "cross_validate" ELSE stage)
    ELSE /\ attempt' = attempt + 1 /\ ext' = NoWork /\ asked' = NotAsked
         /\ UNCHANGED <<input, node, flow, progress, outcome>>

\* The node raises a provider error of the given type: the retry policy of the graph
\* starts it again from the same state, and after the last attempt
\* _raise_retry_exhausted names the stage; other types pass through unchanged.
Raise(type, stage) ==
    IF type \notin Retryable THEN Fail("raised", type, None)
    ELSE IF attempt = Attempts THEN Fail("retries_exhausted", type, stage)
    ELSE /\ attempt' = attempt + 1 /\ ext' = NoWork /\ asked' = NotAsked
         /\ UNCHANGED <<input, node, flow, progress, outcome>>

\* ProviderRequestBudget.claim, before each call.
Claim == used < MaxRequests /\ used' = used + 1

----------------------------------------------------------------------------
(* extract: batches, retries of a batch, and its recovery in parts.        *)

Batch == BatchOf(Accepted, ext.batch, BatchSize)
BatchLength == SizeOf(AcceptedCount, ext.batch, BatchSize)
Attempted == IF ext.phase = "split" THEN BatchOf(Batch, ext.part, PartSize) ELSE Batch

NextBatch(x) ==
    [x EXCEPT !.batch = @ + 1, !.phase = "initial", !.tries = 0, !.part = 0,
              !.partFound = <<>>, !.partErrors = <<>>]
Keep(x, inferences, errors) ==
    [NextBatch(x) EXCEPT !.found = @ \o inferences, !.errors = @ \o errors, !.ok = @ + 1]
Lose(x, errors) == [NextBatch(x) EXCEPT !.errors = @ \o errors]

\* Mutant: a partly recovered batch drops the errors of its lost parts.
PartEnds_Silent(x, inferences, errors) ==
    LET found == x.partFound \o inferences
        missed == x.partErrors \o errors
    IN  IF x.part < Parts(BatchLength, PartSize)
        THEN [x EXCEPT !.part = @ + 1, !.recovery = @ + 1, !.partFound = found, !.partErrors = missed]
        ELSE IF found = <<>> THEN Lose(x, missed) ELSE Keep(x, found, <<>>)

\* One call of a split recovery has ended; after the last one the batch counts as
\* successful if any of its articles was recovered.
PartEnds(x, inferences, errors) ==
    LET found == x.partFound \o inferences
        missed == x.partErrors \o errors
    IN  IF x.part < Parts(BatchLength, PartSize)
        THEN [x EXCEPT !.part = @ + 1, !.recovery = @ + 1, !.partFound = found, !.partErrors = missed]
        ELSE IF found = <<>> THEN Lose(x, missed) ELSE Keep(x, found, missed)

\* Mutant: they are tried as long as one call is left.
MaySplit_Started(x) == BatchLength > PartSize /\ x.recovery < MaxRecovery

\* Parts are tried only if all their calls still fit the recovery limit.
MaySplit(x) ==
    /\ BatchLength > PartSize
    /\ Parts(BatchLength, PartSize) <= MaxRecovery - x.recovery

Missed(x, error) ==
    IF x.phase = "split" THEN PartEnds(x, <<>>, <<error>>)
    ELSE IF x.tries < MaxRetries /\ x.recovery < MaxRecovery
    THEN [x EXCEPT !.phase = "retry", !.tries = @ + 1, !.recovery = @ + 1]
    ELSE IF MaySplit(x) THEN [x EXCEPT !.phase = "split", !.part = 1, !.recovery = @ + 1]
    ELSE Lose(x, <<error>>)

Answered(x, parsed) ==
    IF x.phase = "split" THEN PartEnds(x, parsed.inferences, parsed.errors)
    ELSE Keep(x, parsed.inferences, parsed.errors)

BatchesLeft == ext.batch <= Parts(AcceptedCount, BatchSize)

\* One provider call of the extraction: an error of the provider, a response that is
\* refused, incomplete or does not match, or an answer.
ExtractBatch ==
    /\ At("extract") /\ BatchesLeft /\ Claim
    /\ \E batch \in {Attempted} :
       \/ \E type \in ErrorTypes : ext' = Missed(ext, Error("api_call", batch, type))
       \/ ext' = Missed(ext, Error("response_processing", batch, None))
       \/ \E items \in Answers(batch) : \E parsed \in {Parse(items, batch)} :
             ext' = IF parsed = None THEN Missed(ext, Error("response_processing", batch, None))
                    ELSE Answered(ext, parsed)
    /\ UNCHANGED <<input, node, attempt, asked, flow, progress, outcome>>

\* Without one successful batch the extraction raises what the provider raised last.
ExtractFails ==
    LET raised == {n \in DOMAIN ext.errors : ext.errors[n].kind = "api_call"} IN
    /\ At("extract") /\ ~BatchesLeft /\ ext.ok = 0
    /\ \/ raised = {} /\ Raise("ResponseProcessingError", "extract")
       \/ \E last \in raised : (\A n \in raised : n <= last) /\ Raise(ext.errors[last].type, "extract")
    /\ UNCHANGED used

ExtractEnds ==
    /\ At("extract") /\ ~BatchesLeft /\ ext.ok > 0
    /\ \E accepted \in {Accepted} : \E inferences \in {Augment(ext.found, accepted)} :
       Complete([flow EXCEPT !.inferences = inferences, !.errors = ext.errors, !.ok = ext.ok,
                             !.events = EventsOf(inferences)])
    /\ UNCHANGED used

----------------------------------------------------------------------------
(* The other nodes that ask the model.                                     *)

\* deduplicate: it asks once, if it has a pair of events to compare, and handles no
\* error; the events that stand for others remain, by their ids.
Deduplicate ==
    /\ At("deduplicate") /\ flow.events > 1 /\ Claim
    /\ \/ \E type \in ErrorTypes : Raise(type, "deduplicate")
       \/ Fail("raised", "StructuredOutputResponseError", None)
       \/ \E kept \in 1 .. Cardinality(EventIds(flow.inferences)) : Complete([flow EXCEPT !.events = kept])

NothingToCompare ==
    /\ At("deduplicate")
    /\ Complete([flow EXCEPT !.events = Cardinality(EventIds(flow.inferences))])
    /\ UNCHANGED used

Decisions(t) == t.good + t.middle + t.bad
Tallies(size) == {t \in [good : 0 .. size, middle : 0 .. size, bad : 0 .. size] : Decisions(t) <= size}
Plus(s, t) == [good |-> s.good + t.good, middle |-> s.middle + t.middle, bad |-> s.bad + t.bad]

\* An article that was collected twice keeps its events twice, also where they stand for
\* others; only if all of them were merged into another article's are the ids unique.
Duplicated == EventsOf(flow.inferences) > Cardinality(EventIds(flow.inferences))
MayScreen == Duplicated => flow.events < Cardinality(EventIds(flow.inferences))

\* _index_candidates: screen refuses candidates with duplicate ids before its first call.
ScreenRefuses ==
    /\ At("screen") /\ Duplicated /\ asked = NotAsked
    /\ Fail("raised", "RuntimeError", None)
    /\ UNCHANGED used

\* One batch handled with these results.
Handle(size, tally, type) ==
    /\ asked' = [handled |-> asked.handled + size, tally |-> Plus(asked.tally, tally),
                 last |-> IF type = None THEN asked.last ELSE type]
    /\ UNCHANGED <<input, node, attempt, ext, flow, progress, outcome>>

\* screen: a batch whose call fails is passed over, and only the type of its error kept;
\* an item that is not valid is left out.
ScreenEvents ==
    LET size == Smaller(ScreenBatch, flow.events - asked.handled) IN
    /\ At("screen") /\ MayScreen /\ asked.handled < flow.events /\ Claim
    /\ \/ \E type \in ErrorTypes \cup {None} : Handle(size, NoAnswer, type)
       \/ \E tally \in Tallies(size) : Handle(size, tally, None)

ScreenFails ==
    /\ At("screen") /\ asked.handled = flow.events
    /\ flow.events > 0 /\ asked.tally = NoAnswer
    /\ Raise(IF asked.last = None THEN "ResponseProcessingError" ELSE asked.last, "screen")
    /\ UNCHANGED used

ScreenEnds ==
    /\ At("screen") /\ MayScreen /\ asked.handled = flow.events
    /\ flow.events > 0 => asked.tally # NoAnswer
    /\ \E related \in 0 .. asked.tally.middle :
          Complete([flow EXCEPT !.passed = asked.tally.good, !.review = asked.tally.middle,
                                !.rejected = asked.tally.bad, !.related = related])
    /\ UNCHANGED used

\* cross_validate: the reviewed events with related articles; an error that is worth a
\* retry is raised at once, any other makes the batch's evidence insufficient.
CrossValidate ==
    LET size == Smaller(ReviewBatch, flow.related - asked.handled)
        insufficient == [NoAnswer EXCEPT !.bad = size]
    IN
    /\ At("cross_validate") /\ asked.handled < flow.related /\ Claim
    /\ \/ \E type \in ErrorTypes \cap Retryable : Raise(type, "cross_validate")
       \/ Handle(size, insufficient, None)
       \/ \E tally \in Tallies(size) : tally.middle = 0 /\ Handle(size, tally, None)

\* _related_articles shows the validator an article that was collected twice two times,
\* if both copies are among the first five by rank; the candidate of an event found
\* elsewhere is then not valid, before the first call.
Repeats(a) == Cardinality({n \in DOMAIN input : input[n] = a}) > 1
CrossValidationRefuses ==
    /\ At("cross_validate") /\ attempt = 1 /\ asked = NotAsked /\ flow.review > 0
    /\ \E a \in ToSet(input), i \in ToSet(flow.inferences) :
          Repeats(a) /\ i.article # a /\ i.events # <<>>
    /\ Fail("raised", "ValidationError", None)
    /\ UNCHANGED used

CrossValidationFails ==
    /\ At("cross_validate") /\ asked.handled = flow.related
    /\ flow.related > 0 /\ asked.tally = NoAnswer
    /\ Fail("raised", "NoValidCrossValidationResultsError", None)
    /\ UNCHANGED used

CrossValidationEnds ==
    /\ At("cross_validate") /\ asked.handled = flow.related
    /\ flow.related > 0 => asked.tally # NoAnswer
    /\ Complete([flow EXCEPT !.verified = asked.tally.good,
                             !.unverified = asked.tally.bad + flow.review - flow.related])
    /\ UNCHANGED used

WantsToAsk ==
    \/ At("extract") /\ BatchesLeft
    \/ At("deduplicate") /\ flow.events > 1
    \/ At("screen") /\ MayScreen /\ asked.handled < flow.events
    \/ At("cross_validate") /\ asked.handled < flow.related

\* Mutant: a claim over the cap waits for one to be given back.
BudgetSpent_Waits ==
    /\ WantsToAsk /\ used > MaxRequests
    /\ Fail("over_budget", "ProviderRequestBudgetExceededError", None)
    /\ UNCHANGED used

\* The budget is spent when the node wants to ask: no handler and no retry catches that.
BudgetSpent ==
    /\ WantsToAsk /\ used >= MaxRequests
    /\ Fail("over_budget", "ProviderRequestBudgetExceededError", None)
    /\ UNCHANGED used

----------------------------------------------------------------------------
(* The nodes that compute.                                                 *)

Evaluate == At("evaluate") /\ Complete(flow) /\ UNCHANGED used

\* Every decision is resolved, and every resolved event analysed once.
Resolve ==
    LET decided == flow.passed + flow.review + flow.rejected IN
    /\ At("resolve")
    /\ \E n \in 0 .. decided : Complete([flow EXCEPT !.resolved = n, !.refused = decided - n])
    /\ UNCHANGED used

Analyze ==
    /\ At("analyze")
    /\ \E n \in 0 .. IF flow.resolved + flow.refused = 0 THEN 0 ELSE MaxImpacts : \E eligible \in 0 .. n :
          Complete([flow EXCEPT !.impacts = n, !.eligible = eligible])
    /\ UNCHANGED used

Aggregate ==
    /\ At("aggregate")
    /\ \E companies \in 0 .. flow.eligible :
          /\ companies = 0 <=> flow.eligible = 0
          /\ Complete([flow EXCEPT !.companies = companies])
    /\ UNCHANGED used

\* score, recommend and select_candidates: one score and one decision per company.
Advise == (\E n \in {"score", "recommend", "select_candidates"} : At(n)) /\ Complete(flow) /\ UNCHANGED used

Next ==
    \/ Evaluate \/ ExtractBatch \/ ExtractFails \/ ExtractEnds
    \/ Deduplicate \/ NothingToCompare \/ ScreenRefuses \/ ScreenEvents \/ ScreenFails \/ ScreenEnds
    \/ CrossValidate \/ CrossValidationRefuses \/ CrossValidationFails \/ CrossValidationEnds \/ BudgetSpent
    \/ Resolve \/ Analyze \/ Aggregate \/ Advise

Spec == Init /\ [][Next]_vars

\* A call of the provider ends: the client has a timeout (openai.py:11).
FairSpec == Spec /\ WF_vars(Next)

----------------------------------------------------------------------------
(* Properties.                                                             *)

\* The state is typed; whatever is retried or split, an execution never claims more
\* than its budget (budget.py:48) nor one extraction more than its recovery limit
\* (llm_extractor.py:146).
TypeOK ==
    /\ node \in ToSet(Order) \cup {"end"} /\ attempt \in 1 .. Attempts
    /\ used \in 0 .. MaxRequests
    /\ ext.recovery \in 0 .. MaxRecovery
    /\ ext.phase \in {"initial", "retry", "split"} /\ {ext.batch, ext.ok, ext.tries, ext.part} \subseteq Nat
    /\ outcome.status \in {"running", "done", "raised", "retries_exhausted", "over_budget"}

\* No accepted article vanishes (llm_extractor.py:93-211, dart_filing.py:25-63): after the
\* extraction each occurrence has an inference, or an error names its lost batch; both only
\* if its inference was read from its title or it was collected twice.  Every event
\* quotes the article it was found in.
ArticlesAccounted ==
    node \notin {"evaluate", "extract"} =>
        /\ \A a \in {b \in ToSet(input) : Rejection(b) = None} :
              LET occurrences == {n \in DOMAIN input : input[n] = a}
                  found == {n \in DOMAIN flow.inferences : flow.inferences[n].article = a}
                  lost == {n \in DOMAIN flow.errors : /\ flow.errors[n].kind \in {"api_call", "response_processing"}
                                                      /\ a \in flow.errors[n].articles}
              IN  /\ Cardinality(lost) <= Cardinality(occurrences)
                  /\ IF found = {} THEN lost # {} ELSE Cardinality(found) = Cardinality(occurrences)
                  /\ found # {} /\ lost # {} => FilingEvent(a) # None \/ Cardinality(occurrences) > 1
        /\ \A n \in DOMAIN flow.inferences :
              LET inference == flow.inferences[n] IN
              \A k \in DOMAIN inference.events :
                  \/ inference.events[k] = FilingEvent(inference.article)
                  \/ Grounded(inference.events[k].evidence, inference.article)

\* Why an execution fails: the third attempt of the stage that is named raised a provider
\* error worth a retry (graph.py:58, workflow.py:188), or the budget is spent, or the
\* error is one no retry may follow.
FailureIsExplained ==
    /\ outcome.status = "retries_exhausted" =>
          attempt = Attempts /\ outcome.stage = node /\ outcome.error \in Retryable /\ used >= Attempts
    /\ outcome.status = "over_budget" => used = MaxRequests /\ outcome.stage = None
    /\ outcome.status = "raised" => outcome.error \notin Retryable /\ outcome.stage = None

\* What the dashboard was told is what happened (workflow.py:168-193, 333-522): every event
\* names the node whose event follows, extract accounts for every article, and the
\* counts are those of the statistics.
ProgressTellsTruth ==
    LET nodes == [n \in DOMAIN progress |-> progress[n].node]
        of(n) == IF n \in ToSet(nodes) THEN progress[CHOOSE k \in DOMAIN nodes : nodes[k] = n].counts
                 ELSE [input |-> 0, accepted |-> 0, rejected |-> 0]
        stats == outcome.statistics
    IN  /\ IsInjective(nodes)
        /\ \A n \in DOMAIN progress :
              /\ nodes[n] = "extract" => /\ Len(progress[n].articles) = Len(input)
                                         /\ ToSet(progress[n].articles) = ToSet(input)
              /\ n < Len(progress) => nodes[n + 1] = progress[n].next
              /\ progress[n].counts.accepted >= 0 /\ progress[n].counts.rejected >= 0
              /\ progress[n].counts.accepted + progress[n].counts.rejected <= progress[n].counts.input
        /\ outcome.status = "done" =>
              /\ Last(progress).next = None
              /\ stats.total = of("evaluate").input /\ stats.accepted = of("evaluate").accepted
              /\ stats.extracted = of("deduplicate").accepted
              /\ stats.decisions = of("screen").input
              /\ stats.results = of("cross_validate").accepted + of("cross_validate").rejected
              /\ stats.resolved = of("resolve").input
              /\ stats.eligible = of("aggregate").accepted /\ stats.companies = of("recommend").input

\* Whatever the provider answers, an execution ends with a result or an error.
ScreeningEnds == <>(outcome.status # "running")
=============================================================================
