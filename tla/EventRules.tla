------------------------------ MODULE EventRules ------------------------------
(***************************************************************************)
(* The deterministic rules a screening decides by: which events may be the *)
(* same incident and who represents it, how an assessment becomes a        *)
(* decision, how evidence and the company directory are judged, and how    *)
(* impacts become scores, actions and ranks (app/deduplicators, screeners, *)
(* cross_validators, resolvers, analyzers, aggregators, scorers,           *)
(* recommenders, candidates and their models).  A text is a value, equal   *)
(* where the code's normalization makes it equal; a list of reasons or     *)
(* claims is whether it is valid or not empty.                             *)
(***************************************************************************)
EXTENDS Lists

CONSTANTS
    None,           \* no value
    Articles,       \* per article: [domain, source, dart, length, at, words]
    MaxCandidates,  \* pairs compared at most (100)
    MaxRelated,     \* articles shown with a reviewed event at most (5)
    MaxPicks        \* candidates selected at most (10)

ASSUME RulesAssumption ==
    /\ MaxCandidates \in Nat /\ MaxRelated \in Nat \ {0} /\ MaxPicks \in Nat \ {0}
    /\ None \notin {"event_rejected", "event_review_not_verified", "company_not_resolved",
                    "company_identity_missing", "unknown_direction", "verified", "partially_verified"}
    /\ DOMAIN Articles \subseteq Nat
    /\ \A a \in DOMAIN Articles :
          /\ Articles[a].at \in Nat /\ Articles[a].length \in Nat /\ Articles[a].dart \in BOOLEAN
          /\ IsFiniteSet(Articles[a].words)

\* An event, numbered in the order of its article and position, is a record
\* [article, type, title, keywords, companies, facts, evidence]; title is the
\* sequence of its words, companies a sequence of [name, direct].
SameTitle(l, r) == l.title = r.title

Overlaps(s, t) == s # {} /\ t # {} /\ 2 * Cardinality(s \cap t) >= Cardinality(s \cup t)

Names(e) == {e.companies[n].name : n \in DOMAIN e.companies}
Published(e) == Articles[e.article].at
Apart(m, n) == IF m < n THEN n - m ELSE m - n

\* EventCandidateGenerator._is_candidate, with times in days.
IsCandidate(l, r) ==
    /\ Apart(Published(l), Published(r)) <= 7
    /\ \/ SameTitle(l, r)
       \/ /\ l.type = r.type /\ Names(l) \cap Names(r) # {}
          /\ \/ Overlaps(l.keywords, r.keywords)
             \/ Overlaps(ToSet(l.title), ToSet(r.title))

\* generate: the pairs in the order of combinations(events, 2), cut off.
CandidatePairs(events) ==
    Leading(Where(Combinations(Len(events)), LAMBDA p : IsCandidate(events[p[1]], events[p[2]])),
            MaxCandidates)

\* The items of a model's answer that name a position in 1 .. n nobody else names;
\* an item's index is None where it is not an integer.  All parsers start with this.
Unambiguous(items, n) ==
    {i \in DOMAIN items : items[i].index \in 1 .. n /\
                          \A j \in DOMAIN items : items[j].index = items[i].index => j = i}

ItemAt(items, k, chosen) == items[CHOOSE i \in chosen : items[i].index = k]

\* LLMEventComparator._parse and should_merge: the pairs to be merged, in the order of
\* the answer.  Confidence is None where an item is not valid.
Merged(items, pairs) ==
    LET same == Picked(items, {i \in Unambiguous(items, Len(pairs)) :
                    /\ items[i].relation = "same"
                    /\ items[i].confidence # None /\ items[i].confidence >= 80})
    IN  [n \in DOMAIN same |-> pairs[same[n].index]]

----------------------------------------------------------------------------
(* Sorting by keys, which are tuples of numbers *)

Before(s, t) ==
    \E k \in DOMAIN s : s[k] < t[k] /\ \A j \in 1 .. k - 1 : s[j] = t[j]

Sorted(keys) ==
    LET placed == {<<Cardinality({j \in keys : Before(j, k)}) + 1, k>> : k \in keys}
    IN  [n \in 1 .. Cardinality(keys) |-> CHOOSE k \in keys : <<n, k>> \in placed]

----------------------------------------------------------------------------
(* Union-find, as deduplicate and _independent_source_count both have it *)

Path(parents, x) ==
    LET up[n \in 0 .. Cardinality(DOMAIN parents)] == IF n = 0 THEN x ELSE parents[up[n - 1]] IN up

Root(parents, x) == Path(parents, x)[Cardinality(DOMAIN parents)]

\* Slip: the node is linked, and not the root of its tree.
Union_Nodes(parents, pair) == [parents EXCEPT ![pair[2]] = Root(parents, pair[1])]

Union(parents, pair) == [parents EXCEPT ![Root(parents, pair[2])] = Root(parents, pair[1])]

\* pairs is the sequence in which they are linked.
Linked(nodes, pairs) ==
    LET linked[n \in 0 .. Len(pairs)] == IF n = 0 THEN [x \in nodes |-> x] ELSE Union(linked[n - 1], pairs[n])
    IN  linked[Len(pairs)]

Clusters(nodes, pairs) ==
    LET parents == Linked(nodes, pairs)
    IN  {{y \in nodes : Root(parents, y) = Root(parents, x)} : x \in nodes}

\* CanonicalEventSelector._rank, compared entry by entry; the numbers stand for the ids.
Rank(events, i) ==
    LET e == events[i] IN
    <<IF Articles[e.article].dart THEN 0 ELSE 1, -e.evidence, -Articles[e.article].length,
      Published(e), i>>

Canonical(events, cluster) ==
    CHOOSE i \in cluster : \A j \in cluster \ {i} : Before(Rank(events, i), Rank(events, j))

----------------------------------------------------------------------------
(* Screening *)

\* ScreeningScorecardPolicy: thirds of three scores, rounded half up.
Total(scores) == (scores[1] + scores[2] + scores[3] + 1) \div 3

\* _map_assessment: an item is a scorecard of three dimensions, None where one of its
\* nine scores or reasons is invalid, a flag and its reasons; None if any is invalid.
Assessment(item) ==
    IF item.scorecard = None \/ item.check = None \/ ~item.reasons THEN None
    ELSE [relevance |-> Total(item.scorecard.relevance), importance |-> Total(item.scorecard.importance),
          credibility |-> Total(item.scorecard.credibility), check |-> item.check]

\* Slip: the flag is read before the scores.
Decide_FlagFirst(a) ==
    IF a.check THEN "review"
    ELSE IF a.relevance < 40 \/ a.importance < 40 THEN "reject"
    ELSE IF a.relevance >= 70 /\ a.importance >= 70 /\ a.credibility >= 70 THEN "accept"
    ELSE "review"

\* DefaultScreeningPolicy._decision_type.
Decide(a) ==
    IF a.relevance < 40 \/ a.importance < 40 THEN "reject"
    ELSE IF a.check THEN "review"
    ELSE IF a.relevance >= 70 /\ a.importance >= 70 /\ a.credibility >= 70 THEN "accept"
    ELSE "review"

\* parse and screen: the decisions on the events of a batch, in its order.
Decided(items, batch) ==
    LET chosen == Unambiguous(items, Len(batch))
        read == Ascending({k \in DOMAIN batch :
                    \E i \in chosen : items[i].index = k /\ Assessment(items[i]) # None})
        judged(k) == Assessment(ItemAt(items, k, chosen))
    IN  [n \in DOMAIN read |->
            [event |-> batch[read[n]], scores |-> judged(read[n]), decision |-> Decide(judged(read[n]))]]

----------------------------------------------------------------------------
(* Cross validation *)

\* _related_articles: the articles but the source, those naming more of the event's
\* keywords, companies and title first.
Related(e, articles) ==
    LET mentions(a) == Cardinality((e.keywords \cup Names(e)) \cap Articles[a].words)
                       + (IF ToSet(e.title) \subseteq Articles[a].words THEN 1 ELSE 0)
        first == Leading(Sorted({<<-mentions(a), a>> : a \in articles \ {e.article}}), MaxRelated)
    IN  [k \in DOMAIN first |-> first[k][2]]

\* _map_evidence_item: claims are [matched, conflicting], whether there are any.
ValidEvidence(e) ==
    CASE e.relation = "supports" -> e.matched /\ ~e.conflicting
      [] e.relation = "conflicts" -> e.conflicting
      [] e.relation = "unrelated" -> ~e.matched /\ ~e.conflicting
      [] OTHER -> FALSE

\* _map_evidence and _evidence: the relation of each related article, "unrelated"
\* where no valid item names it; None if none is named.
Evidence(items, related) ==
    LET valid == {i \in Unambiguous(items, Len(related)) : ValidEvidence(items[i])}
    IN  IF valid = {} THEN None
        ELSE [k \in DOMAIN related |->
                 IF \E i \in valid : items[i].index = k THEN ItemAt(items, k, valid).relation ELSE "unrelated"]

SameSource(a, b) ==
    \/ Articles[a].domain # None /\ Articles[a].domain = Articles[b].domain
    \/ Articles[a].source # None /\ Articles[a].source = Articles[b].source

\* Slip: every supporting article counts as a source of its own.
IndependentSources_All(supporting) == Len(supporting)

\* _independent_source_count: a domain or source name that does not identify is None.
IndependentSources(supporting) ==
    LET known == Where(supporting, LAMBDA a : Articles[a].domain # None \/ Articles[a].source # None)
        pairs == Where(Combinations(Len(known)), LAMBDA p : SameSource(known[p[1]], known[p[2]]))
    IN  Cardinality(Clusters(DOMAIN known, pairs))

Supporting(evidence, related) == Picked(related, {k \in DOMAIN related : evidence[k] = "supports"})

\* DefaultCrossValidationPolicy.decide.
Validate(evidence, related, confidence) ==
    LET supporting == Supporting(evidence, related) IN
    IF \E k \in DOMAIN related : evidence[k] = "conflicts" THEN "conflicted"
    ELSE IF Len(supporting) >= 2 /\ IndependentSources(supporting) >= 2 /\ confidence >= 70
    THEN "verified"
    ELSE IF supporting # <<>> THEN "partially_verified"
    ELSE "insufficient_evidence"

\* parse and validate: the result of the k-th candidate of a batch, whose articles are
\* related; None where the answer has no usable item for it.
Verdict(items, k, n, related) ==
    LET chosen == {i \in Unambiguous(items, n) : items[i].index = k /\ items[i].confidence # None}
        evidence == IF chosen = {} THEN None ELSE Evidence(ItemAt(items, k, chosen).evidence, related)
    IN  IF evidence = None THEN None
        ELSE [status |-> Validate(evidence, related, ItemAt(items, k, chosen).confidence),
              supporting |-> Supporting(evidence, related)]

Insufficient == [status |-> "insufficient_evidence", supporting |-> <<>>]

----------------------------------------------------------------------------
(* Companies and the final decision *)

\* A directory is a set of [id, names]: rows that are not valid (None) are left out, and
\* one without rows or with an id twice is a configuration error.  The exchange's own file
\* (KrxMasterCsvCompanyDirectory) is read like this.
Directory(rows) ==
    LET valid == {i \in DOMAIN rows : rows[i] # None}
    IN  IF valid = {} \/ \E i, j \in valid : i # j /\ rows[i].id = rows[j].id THEN None
        ELSE {rows[i] : i \in valid}

\* LocalCsvCompanyDirectory: a row that is not valid is a configuration error as well.
CsvDirectory(rows) == IF None \in ToSet(rows) THEN None ELSE Directory(rows)

\* KrxCompanyDirectoryLoader.load: of the days looked back, the first with a row in any
\* market, without the markets that failed (None).
MarketDirectory(days) ==
    LET rows(d) == FlattenSeq([m \in DOMAIN days[d] |->
                       IF days[d][m] = None THEN <<>> ELSE Where(days[d][m], LAMBDA r : r # None)])
        loaded == {d \in DOMAIN days : rows(d) # <<>>}
    IN  IF loaded = {} THEN None ELSE Directory(rows(CHOOSE d \in loaded : \A e \in loaded : d <= e))

\* find_candidates and CompanyResolutionPolicy.
Resolution(directory, company) ==
    LET ids == {c.id : c \in {d \in directory : company.name \in d.names}}
    IN  [name |-> company.name, direct |-> company.direct,
         status |-> IF ids = {} THEN "unresolved"
                    ELSE IF Cardinality(ids) = 1 THEN "resolved" ELSE "ambiguous",
         id |-> IF Cardinality(ids) = 1 THEN CHOOSE id \in ids : TRUE ELSE None]

\* DefaultResolvePolicy.
Resolve(decision, validation) ==
    IF decision = "reject" \/ validation \in {None, "insufficient_evidence"} THEN decision
    ELSE CASE validation = "verified" -> "accept"
           [] validation = "partially_verified" -> "review"
           [] validation = "conflicted" -> "reject"

----------------------------------------------------------------------------
(* Impact, score, recommendation, selection *)

\* DEFAULT_IMPACT_RULE_CATALOG and DEFAULT_DIRECTION_SCORE_CATALOG.
Direction(fact) ==
    CASE fact \in {"factory_expansion", "major_supply_contract"} -> "positive"
      [] fact \in {"mass_layoff", "bankruptcy"} -> "negative"
      [] OTHER -> "unknown"

Weight(direction) == CASE direction = "positive" -> 1 [] direction = "negative" -> -1 [] OTHER -> 0

\* RuleImpactStrategy.analyze: a resolved event is [event, companies, facts, decision,
\* validation]; one observation per fact and direct company, in that order.
Observations(r) ==
    LET direct == Where(r.companies, LAMBDA c : c.direct)
    IN  FlattenSeq([f \in DOMAIN r.facts |->
            [n \in DOMAIN direct |-> [company |-> direct[n], direction |-> Direction(r.facts[f])]]])

\* DefaultImpactPolicy._evaluate_one, in its order; the strategy's scope is the company.
Exclusion(r, o) ==
    IF r.decision = "reject" THEN "event_rejected"
    ELSE IF r.decision = "review" /\ r.validation \notin {"verified", "partially_verified"}
    THEN "event_review_not_verified"
    ELSE IF o.company.status # "resolved" THEN "company_not_resolved"
    ELSE IF o.company.id = None THEN "company_identity_missing"
    ELSE IF o.direction = "unknown" THEN "unknown_direction" ELSE None

\* The eligible observations of resolved events, in order.
Impacts(resolved) ==
    FlattenSeq([n \in DOMAIN resolved |->
        Where(Observations(resolved[n]), LAMBDA o : Exclusion(resolved[n], o) = None)])

\* Slip: two names of a company are two groups.
Grouped_ByName(impacts) ==
    LET heads == Picked(impacts, {i \in DOMAIN impacts :
                     \A j \in 1 .. i - 1 : impacts[j].company.name # impacts[i].company.name})
    IN  [g \in DOMAIN heads |->
            [id |-> heads[g].company.id,
             impacts |-> Where(impacts, LAMBDA o : o.company.name = heads[g].company.name)]]

\* DefaultAggregationStrategy: one group per company id, in the order of their first impact.
Grouped(impacts) ==
    LET heads == Picked(impacts, {i \in DOMAIN impacts :
                     \A j \in 1 .. i - 1 : impacts[j].company.id # impacts[i].company.id})
    IN  [g \in DOMAIN heads |->
            [id |-> heads[g].company.id,
             impacts |-> Where(impacts, LAMBDA o : o.company.id = heads[g].company.id)]]

\* EvidenceAwareScoringStrategy.
Score(group) ==
    LET total[n \in 0 .. Len(group.impacts)] ==
            IF n = 0 THEN 0 ELSE total[n - 1] + Weight(group.impacts[n].direction)
    IN  total[Len(group.impacts)]

\* RecommendationDecision._expected_evaluation.
ActionOf(score) ==
    IF score >= 2 THEN "strong_buy"
    ELSE IF score >= 1 THEN "buy"
    ELSE IF score > -1 THEN "hold"
    ELSE IF score > -2 THEN "sell" ELSE "strong_sell"

\* DEFAULT_RECOMMENDATION_RANK_CATALOG.
Eligible(action) == action \in {"strong_buy", "buy"}
Priority(action) == IF action = "strong_buy" THEN 0 ELSE 1

\* Slip: everybody eligible is taken.
Selected_Unlimited(decisions) ==
    Ascending({i \in DOMAIN decisions : Eligible(decisions[i].action)})

\* RuleCandidateSelectionPolicy.select: the indexes of the candidates, by rank.
Selected(decisions) ==
    LET eligible == {i \in DOMAIN decisions : Eligible(decisions[i].action)}
        key(i) == <<Priority(decisions[i].action), -decisions[i].score, i>>
        first == Leading(Sorted({key(i) : i \in eligible}), MaxPicks)
    IN  [n \in DOMAIN first |-> first[n][3]]

CandidateStatus(decisions, i) ==
    IF ~Eligible(decisions[i].action) THEN "not_eligible"
    ELSE IF i \in ToSet(Selected(decisions)) THEN "selected" ELSE "outside_limit"
=============================================================================
