---------------------------- MODULE EventDecisions ----------------------------
(***************************************************************************)
(* What one screening decides of its events, from their extraction to the  *)
(* stock candidates: the nodes of app/workflows/screening/graph.py after   *)
(* extract, in their order, each with the answers a model may give it.     *)
(* Retries of a node and the extraction itself are ScreeningRun's.         *)
(***************************************************************************)
EXTENDS EventRules

CONSTANTS
    Extractions,    \* [articles, events] a screening starts from
    Directories,    \* the days of markets a company directory may be loaded from
    Files,          \* rows of a file it may be loaded from
    Comparisons,    \* answers about pairs of events
    Assessments,    \* answers about a batch of events, None for a failed call
    Verdicts,       \* answers about a batch of reviewed events, None likewise
    ScreenBatch,    \* events per screening call (5)
    ReviewBatch     \* reviewed events per cross-validation call (2)

ASSUME DecisionsAssumption == ScreenBatch \in Nat \ {0} /\ ReviewBatch \in Nat \ {0}

\* Each event was read from one of finitely many articles.
ASSUME ExtractionsAssumption ==
    \A x \in Extractions :
        /\ IsFiniteSet(x.articles) /\ x.articles \subseteq DOMAIN Articles
        /\ IsList(x.events)
        /\ \A n \in DOMAIN x.events : LET e == x.events[n] IN
              e.article \in x.articles /\ e.evidence \in Nat /\ IsList(e.companies) /\ IsList(e.facts)

\* A directory is loaded from lists of rows, None for a market that failed.
ASSUME DirectoriesAssumption ==
    /\ \A rows \in Files : IsList(rows)
    /\ \A days \in Directories : IsList(days) /\ \A d \in DOMAIN days :
          IsList(days[d]) /\ \A m \in DOMAIN days[d] : days[d][m] = None \/ IsList(days[d][m])

\* The parsers take a list of items, and a score of 0 to 100 or none.
ASSUME AnswersAssumption ==
    /\ \A items \in Comparisons : IsList(items)
    /\ \A items \in Assessments \ {None} : \A i \in DOMAIN items :
          items[i].scorecard = None \/
          {items[i].scorecard.relevance, items[i].scorecard.importance, items[i].scorecard.credibility}
              \subseteq [1 .. 3 -> 0 .. 100]

VARIABLES
    stage,       \* the node that runs next, "done" or "failed"
    input,       \* the extraction
    directory,   \* the companies known
    same,        \* pairs of events found to be one incident, in order
    canonical,   \* the event that stands for each event
    handled,     \* events handled by the batches of the stage so far
    decisions,   \* screening decisions
    validations, \* result of each validated event
    resolved,    \* final decisions, with the companies of each event
    impacts,     \* eligible impacts
    groups,      \* impacts per company, and once scored the score
    advice,      \* [id, score, action] of each company
    selection    \* outcome of each advice

vars == <<stage, input, directory, same, canonical, handled, decisions, validations, resolved, impacts,
          groups, advice, selection>>

events == input.events
Kept == Ascending({canonical[e] : e \in DOMAIN events})
Reviewed == Where(decisions, LAMBDA d : d.decision = "review")
RelatedTo(e) == Related(events[e], input.articles)
Targets == Where(Reviewed, LAMBDA d : RelatedTo(d.event) # <<>>)
BatchAt(s, size) == SubSeq(s, handled + 1, IF handled + size < Len(s) THEN handled + size ELSE Len(s))

\* create_company_directory_async: empty, from either kind of file or from the exchange;
\* a process whose directory is a configuration error (None) runs no screening.
Configured ==
    {{}} \cup {Directory(rows) : rows \in Files} \cup {CsvDirectory(rows) : rows \in Files}
    \cup {MarketDirectory(days) : days \in Directories}

Init ==
    /\ input \in Extractions
    /\ directory \in Configured \ {None}
    /\ stage = "deduplicate" /\ handled = 0
    /\ canonical = [e \in DOMAIN input.events |-> e]
    /\ same = <<>> /\ decisions = <<>> /\ validations = <<>> /\ resolved = <<>>
    /\ impacts = <<>> /\ groups = <<>> /\ advice = <<>> /\ selection = <<>>

\* deduplicate: nobody is asked when there is no pair; the events that stand for no
\* group are dropped from the inferences.
Deduplicate ==
    LET pairs == CandidatePairs(events) IN
    /\ stage = "deduplicate"
    /\ \E items \in IF pairs = <<>> THEN {<<>>} ELSE Comparisons : same' = Merged(items, pairs)
    /\ canonical' = LET groupings == Clusters(DOMAIN events, same') IN
                    [e \in DOMAIN events |-> Canonical(events, CHOOSE c \in groupings : e \in c)]
    /\ stage' = "screen" /\ handled' = 0
    /\ UNCHANGED <<input, directory, decisions, validations, resolved, impacts, groups, advice, selection>>

\* One batch of LLMEventScreener.screen: a failed call or answer loses its events.
Assess ==
    LET batch == BatchAt(Kept, ScreenBatch) IN
    /\ stage = "screen" /\ handled < Len(Kept)
    /\ \E items \in Assessments :
          decisions' = IF items = None THEN decisions ELSE decisions \o Decided(items, batch)
    /\ handled' = handled + Len(batch)
    /\ UNCHANGED <<stage, input, directory, same, canonical, validations, resolved, impacts, groups,
                   advice, selection>>

\* Its end, and the reviewed events that nobody else reported.
Screened ==
    /\ stage = "screen" /\ handled = Len(Kept)
    /\ stage' = IF Kept # <<>> /\ decisions = <<>> THEN "failed" ELSE "cross_validate"
    /\ validations' = [e \in {d.event : d \in ToSet(Reviewed)} \ {d.event : d \in ToSet(Targets)} |-> Insufficient]
    /\ handled' = 0
    /\ UNCHANGED <<input, directory, same, canonical, decisions, resolved, impacts, groups, advice, selection>>

\* One batch of LLMEventCrossValidator.validate.
CrossValidate ==
    LET batch == BatchAt(Targets, ReviewBatch)
        verdict(items, k) == IF items = None THEN Insufficient
                             ELSE Verdict(items, k, Len(batch), RelatedTo(batch[k].event))
        position(e) == CHOOSE k \in DOMAIN batch : batch[k].event = e
    IN
    /\ stage = "cross_validate" /\ handled < Len(Targets)
    /\ \E items \in Verdicts :
          LET answered == {batch[k].event : k \in {j \in DOMAIN batch : verdict(items, j) # None}} IN
          validations' = [e \in DOMAIN validations \cup answered |->
              IF e \in DOMAIN validations THEN validations[e] ELSE verdict(items, position(e))]
    /\ handled' = handled + Len(batch)
    /\ UNCHANGED <<stage, input, directory, same, canonical, decisions, resolved, impacts, groups, advice,
                   selection>>

\* Its end: without one result for all the events it asked about, the screening fails.
Validated ==
    /\ stage = "cross_validate" /\ handled = Len(Targets)
    /\ stage' = IF Targets # <<>> /\ \A d \in ToSet(Targets) : d.event \notin DOMAIN validations
                THEN "failed" ELSE "resolve"
    /\ UNCHANGED <<input, directory, same, canonical, handled, decisions, validations, resolved, impacts,
                   groups, advice, selection>>

\* A call that the node's retries do not get through, or that the request budget refuses,
\* which the screener's handlers do not catch either.
CallFails ==
    /\ \/ stage = "deduplicate" /\ CandidatePairs(events) # <<>>
       \/ stage = "screen" /\ handled < Len(Kept)
       \/ stage = "cross_validate" /\ handled < Len(Targets)
    /\ stage' = "failed"
    /\ UNCHANGED <<input, directory, same, canonical, handled, decisions, validations, resolved, impacts,
                   groups, advice, selection>>

\* resolve: every decision once, with the verdict on its event and its companies.
ResolveEvents ==
    /\ stage = "resolve" /\ stage' = "analyze"
    /\ resolved' = [n \in DOMAIN decisions |->
           LET e == decisions[n].event
               validation == IF e \in DOMAIN validations THEN validations[e].status ELSE None
           IN  [event |-> e, facts |-> events[e].facts, validation |-> validation,
                companies |-> [c \in DOMAIN events[e].companies |-> Resolution(directory, events[e].companies[c])],
                decision |-> Resolve(decisions[n].decision, validation)]]
    /\ UNCHANGED <<input, directory, same, canonical, handled, decisions, validations, impacts, groups,
                   advice, selection>>

Analyze ==
    /\ stage = "analyze" /\ stage' = "aggregate"
    /\ impacts' = Impacts(resolved)
    /\ UNCHANGED <<input, directory, same, canonical, handled, decisions, validations, resolved, groups,
                   advice, selection>>

Aggregate ==
    /\ stage = "aggregate" /\ stage' = "score"
    /\ groups' = Grouped(impacts)
    /\ UNCHANGED <<input, directory, same, canonical, handled, decisions, validations, resolved, impacts,
                   advice, selection>>

\* score and recommend: each company keeps its place.
Recommend ==
    /\ stage = "score" /\ stage' = "select_candidates"
    /\ advice' = [g \in DOMAIN groups |->
           [id |-> groups[g].id, score |-> Score(groups[g]), action |-> ActionOf(Score(groups[g]))]]
    /\ UNCHANGED <<input, directory, same, canonical, handled, decisions, validations, resolved, impacts,
                   groups, selection>>

SelectCandidates ==
    /\ stage = "select_candidates" /\ stage' = "done"
    /\ selection' = [i \in DOMAIN advice |->
           [status |-> CandidateStatus(advice, i),
            rank |-> IF i \in ToSet(Selected(advice))
                     THEN CHOOSE n \in DOMAIN Selected(advice) : Selected(advice)[n] = i ELSE 0]]
    /\ UNCHANGED <<input, directory, same, canonical, handled, decisions, validations, resolved, impacts,
                   groups, advice>>

Next ==
    \/ Deduplicate \/ Assess \/ Screened \/ CrossValidate \/ Validated \/ CallFails
    \/ ResolveEvents \/ Analyze \/ Aggregate \/ Recommend \/ SelectCandidates

Spec == Init /\ [][Next]_vars

----------------------------------------------------------------------------
(* What must hold *)

Stages == {"deduplicate", "screen", "cross_validate", "resolve", "analyze", "aggregate", "score",
           "select_candidates", "done", "failed"}
Verdicts3 == {"verified", "partially_verified", "conflicted", "insufficient_evidence"}

\* The state is well formed: each decision, verdict and advice is of an event or company
\* of this screening.
TypeOK ==
    /\ stage \in Stages /\ handled \in 0 .. Len(events)
    /\ canonical \in [DOMAIN events -> DOMAIN events]
    /\ \A d \in ToSet(decisions) :
          /\ d.event \in DOMAIN events /\ d.decision \in {"accept", "review", "reject"}
          /\ \A s \in {d.scores.relevance, d.scores.importance, d.scores.credibility} : s \in 0 .. 100
    /\ \A e \in DOMAIN validations : e \in DOMAIN events /\ validations[e].status \in Verdicts3
    /\ \A a \in ToSet(advice) : a.id \in {c.id : c \in directory} /\ a.score \in Int
    /\ \A s \in ToSet(selection) : s.rank \in 0 .. MaxPicks

\* Whatever the order and shape of the answer, two reports stand for one incident exactly
\* when a chain of pairs judged the same joins them; one of them, none ranked
\* behind another, is decided on, and no other is (event_deduplicator.py).
IncidentsAreJoined ==
    stage # "deduplicate" =>
        /\ \A e, f \in DOMAIN events :
              canonical[e] = canonical[f] <=>
                  \A cut \in SUBSET DOMAIN events : e \in cut /\ f \notin cut =>
                      \E p \in ToSet(same) : (p[1] \in cut) # (p[2] \in cut)
        /\ \A e \in DOMAIN events : canonical[canonical[e]] = canonical[e]
        /\ \A e \in DOMAIN events :
              ~Before(Rank(events, e), Rank(events, canonical[e]))
        /\ \A d \in ToSet(decisions) : canonical[d.event] = d.event
        /\ \A m, n \in DOMAIN decisions : decisions[m].event = decisions[n].event => m = n

\* A verified event is supported by two reports that share no source, also not by
\* way of a third one, and neither of them is its own (cross_validators/policy.py).
VerifiedIndependently ==
    \A e \in DOMAIN validations : validations[e].status = "verified" =>
        LET others == ToSet(validations[e].supporting) IN
        /\ events[e].article \notin others
        /\ \E cut \in (SUBSET others) \ {{}, others} :
              \A a \in cut, b \in others \ cut : ~SameSource(a, b)

\* A stock that is picked rests on an event that stands for its incident, was rated
\* relevant and important, is accepted or confirmed by others and not contradicted,
\* and names the one company of the directory it can mean.
PickIsSupported ==
    \A i \in DOMAIN selection : selection[i].status = "selected" =>
        \E n \in DOMAIN resolved : LET r == resolved[n] IN
            /\ canonical[r.event] = r.event
            /\ decisions[n].scores.relevance >= 40 /\ decisions[n].scores.importance >= 40
            /\ \/ decisions[n].decision = "accept"
               \/ r.event \in DOMAIN validations
                  /\ validations[r.event].status \in {"verified", "partially_verified"}
            /\ \E c \in ToSet(events[r.event].companies) :
                  /\ c.direct
                  /\ {d.id : d \in {x \in directory : c.name \in x.names}} = {advice[i].id}

\* Each company is scored once, under all of its names, with its good news less its bad
\* news over the events that count: the facts of an event count for each name it has there
\* (RuleImpactStrategy.analyze; docs/WORKFLOW.md:325 has observations not merged).
ScoresAreNet ==
    LET counts(r) == r.decision = "accept" \/
                     (r.decision = "review" /\ r.validation \in {"verified", "partially_verified"})
        news(id, direction) ==
            UNION {{n} \X {p \in (DOMAIN resolved[n].facts) \X (DOMAIN resolved[n].companies) :
                              /\ resolved[n].companies[p[2]].direct /\ resolved[n].companies[p[2]].id = id
                              /\ Direction(resolved[n].facts[p[1]]) = direction} :
                   n \in {m \in DOMAIN resolved : counts(resolved[m])}}
    IN
    \A i \in DOMAIN advice :
        /\ \A j \in DOMAIN advice : advice[j].id = advice[i].id => j = i
        /\ advice[i].score = Cardinality(news(advice[i].id, "positive")) - Cardinality(news(advice[i].id, "negative"))
=============================================================================
