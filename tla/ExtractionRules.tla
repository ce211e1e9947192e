--------------------------- MODULE ExtractionRules ---------------------------
(***************************************************************************)
(* What goes into an extraction and what comes out of one answer: the      *)
(* preflight evaluation of an article (app/evaluators), the parser that    *)
(* accepts an answer as a whole and drops single events and facts          *)
(* (app/extractors/default_parser.py), and the contract events that are    *)
(* read from DART titles (dart_filing.py).  A text is a value, equal where *)
(* the code's normalization makes it equal, and None where it is blank;    *)
(* a paragraph is the set of quotes it contains.                           *)
(***************************************************************************)
EXTENDS Lists

CONSTANTS
    None,      \* no value
    Articles,  \* per article: [eligible, title, length, official, paragraphs, contract, company]
    MinBody,   \* length of the shortest and longest body that is analysed
    MaxBody

ASSUME ExtractionAssumption == MinBody \in Nat \ {0} /\ MaxBody \in Nat /\ MinBody <= MaxBody

\* The events of an item of an answer, and the facts of an event, are lists.
Listed(item) ==
    IsList(item.events) /\ \A n \in DOMAIN item.events : IsList(item.events[n].facts)

\* RuleArticleEvaluator: the first check that fails, None for an accepted article.
Rejection(a) ==
    LET article == Articles[a]
        failed == Where(
            << <<~article.eligible, "analysis_ineligible">>,
               <<article.title = None, "empty_title">>,
               <<article.length = 0, "empty_body">>,
               <<article.length < MinBody, "body_too_short">>,
               <<article.length > MaxBody, "body_too_long">>,
               <<article.official /\ article.paragraphs = <<>>, "missing_paragraphs">> >>,
            LAMBDA check : check[1])
    IN  IF failed = <<>> THEN None ELSE failed[1][2]

\* The facts an event of each type may have.
Compatible == [
    corporate_event |-> {"factory_expansion", "mass_layoff", "ceo_interview"},
    financial_event |-> {"bankruptcy", "major_supply_contract"},
    product_event   |-> {"product_release"},
    legal_event     |-> {},
    macro_event     |-> {}]

\* The elements of s whose key has not occurred before.
Firsts(s, Key(_)) == Picked(s, {n \in DOMAIN s : \A m \in 1 .. n - 1 : Key(s[m]) # Key(s[n])})

\* _map_evidence: every quote is one of the article it names; an article with
\* paragraphs needs one.
Grounded(evidence, a) ==
    LET paragraphs == Articles[a].paragraphs IN
    /\ Len(evidence) <= 2
    /\ paragraphs # <<>> => evidence # <<>>
    /\ \A n \in DOMAIN evidence :
          /\ evidence[n].article = a /\ evidence[n].paragraph \in DOMAIN paragraphs
          /\ evidence[n].quote \in paragraphs[evidence[n].paragraph]

\* _map_event raises for anything else: the event is dropped and an error names it.
ValidEvent(item, a) ==
    /\ \A n \in DOMAIN item.companies :
          item.companies[n].name # None /\ item.companies[n].relation \in {"direct", "indirect"}
    /\ item.type \in DOMAIN Compatible
    /\ item.title # None /\ item.summary # None
    /\ Grounded(item.evidence, a)

IsFact(item, fact) == fact \in Compatible[item.type]

MapEvent(item) ==
    [title |-> item.title, type |-> item.type,
     facts |-> Firsts(Where(item.facts, LAMBDA f : IsFact(item, f)), LAMBDA f : f),
     companies |-> Firsts(item.companies, LAMBDA c : c.name),
     evidence |-> item.evidence]

Error(kind, batch, type) == [kind |-> kind, articles |-> ToSet(batch), type |-> type]

\* _map_inference: the valid events in order, and one error per dropped event or fact.
Inference(a, item) ==
    LET valid == Where(item.events, LAMBDA e : ValidEvent(e, a))
    IN  [article |-> a, events |-> [n \in DOMAIN valid |-> MapEvent(valid[n])]]

ItemErrors(a, item) ==
    LET of(e) == IF ~ValidEvent(e, a) THEN <<Error("event_validation", <<a>>, None)>>
                 ELSE [k \in 1 .. HowMany(e.facts, LAMBDA f : ~IsFact(e, f)) |->
                          Error("fact_validation", <<a>>, None)]
    IN  FlattenSeq([n \in DOMAIN item.events |-> of(item.events[n])])

\* parse: an answer stands for a batch without duplicates only if it has one item for
\* each of its articles and no other, all with a summary and a reasoning; None otherwise.
Matches(items, batch) ==
    /\ IsInjective(batch)
    /\ IsInjective([n \in DOMAIN items |-> items[n].article])
    /\ {items[n].article : n \in DOMAIN items} = ToSet(batch)

Parse(items, batch) ==
    LET itemOf(a) == items[CHOOSE n \in DOMAIN items : items[n].article = a] IN
    IF ~Matches(items, batch) \/ \E n \in DOMAIN items : ~items[n].written THEN None
    ELSE [inferences |-> [n \in DOMAIN batch |-> Inference(batch[n], itemOf(batch[n]))],
          errors |-> FlattenSeq([n \in DOMAIN batch |-> ItemErrors(batch[n], itemOf(batch[n]))])]

\* DartFilingEventAugmenter: the contract a filing's title names, for the company
\* its content starts with.
FilingEvent(a) ==
    IF ~Articles[a].contract \/ Articles[a].company = None THEN None
    ELSE [title |-> "contract", type |-> "financial_event", facts |-> <<"major_supply_contract">>,
          companies |-> << [name |-> Articles[a].company, relation |-> "direct"] >>, evidence |-> <<>>]

NamesContract(events) == \E n \in DOMAIN events : "major_supply_contract" \in ToSet(events[n].facts)

\* It is added to the article's inference, or is one where the batch was lost.  An
\* article that was collected twice gets its last inference twice.
Augment(inferences, articles) ==
    LET of(a) == Where(inferences, LAMBDA i : i.article = a)
        augmented(a) ==
            IF of(a) = <<>> THEN [article |-> a, events |-> <<FilingEvent(a)>>]
            ELSE LET inference == Last(of(a)) IN
                 IF FilingEvent(a) = None \/ NamesContract(inference.events) THEN inference
                 ELSE [inference EXCEPT !.events = Append(@, FilingEvent(a))]
        kept == Where(articles, LAMBDA a : of(a) # <<>> \/ FilingEvent(a) # None)
    IN  [n \in DOMAIN kept |-> augmented(kept[n])]
=============================================================================
