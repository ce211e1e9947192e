--------------------------- MODULE MCEventDecisions ---------------------------
(***************************************************************************)
(* Three reports on four articles: one from a filing, two sharing a source *)
(* and one that shares its site with another; and one that calls a company *)
(* by two of its names.                                                    *)
(***************************************************************************)
EXTENDS EventDecisions

MCArticles == <<
    [domain |-> "d1", source |-> None, dart |-> FALSE, length |-> 2, at |-> 0, words |-> {"deal", "alpha"}],
    [domain |-> "d2", source |-> "s2", dart |-> TRUE,  length |-> 1, at |-> 1, words |-> {"deal"}],
    [domain |-> "d3", source |-> "s2", dart |-> FALSE, length |-> 2, at |-> 7, words |-> {"deal", "beta"}],
    [domain |-> "d3", source |-> "s4", dart |-> FALSE, length |-> 3, at |-> 8, words |-> {}]>>

Company(name, direct) == [name |-> name, direct |-> direct]
Report(article, companies, facts) ==
    [article |-> article, type |-> "business", title |-> <<"deal">>, keywords |-> {"chips"},
     companies |-> companies, facts |-> facts, evidence |-> 1]

First == Report(1, <<Company("alpha", TRUE), Company("delta", TRUE), Company("beta", FALSE)>>, <<"factory_expansion">>)
Second == Report(2, <<Company("beta", TRUE)>>, <<"factory_expansion", "other_fact">>)
Third == Report(3, <<Company("bt", TRUE)>>, <<"major_supply_contract">>)
Bad == Report(3, <<Company("bt", TRUE), Company("alpha", TRUE), Company("beta", TRUE)>>, <<"mass_layoff">>)

MCExtractions == {
    [articles |-> 1 .. 4, events |-> <<First, Second, Third>>],
    [articles |-> 1 .. 4, events |-> <<First, Bad>>],
    [articles |-> {1}, events |-> <<First>>],
    [articles |-> 1 .. 2, events |-> <<>>]}

Row(id, names) == [id |-> id, names |-> names]
Kospi == <<Row("A", {"alpha"}), Row("B", {"beta", "bt"}), Row("D", {"delta"}), None>>
MCDirectories == {
    << <<Kospi, <<Row("E", {"delta", "echo"})>> >> >>,
    << <<None, None>>, << <<None>>, None>>, <<Kospi, None>>, <<Kospi, Kospi>> >>,
    << <<Kospi, <<Row("A", {"bt"})>> >> >>,
    << <<None, <<>> >> >>}
MCFiles == {Kospi, SubSeq(Kospi, 1, 3), <<>>}

Same(k, confidence) == [index |-> k, relation |-> "same", confidence |-> confidence]
MCComparisons == {
    <<>>, <<Same(1, 80)>>, <<Same(2, 80), Same(3, 100)>>, <<Same(3, 80), Same(1, 79), Same(2, None)>>,
    <<Same(1, 80), Same(1, 90)>>, <<Same(3, 80), Same(2, 80)>>, <<Same(4, 90), Same(None, 90), Same(2, 90)>>,
    <<[index |-> 1, relation |-> "different", confidence |-> 100], Same(2, 80), Same(3, 80)>>}

Scores(n) == <<n, n, n>>
Item(k, scorecard, check, reasons) == [index |-> k, scorecard |-> scorecard, check |-> check, reasons |-> reasons]
Card(r, i, c) == [relevance |-> r, importance |-> i, credibility |-> c]
MCItems(k) == {
    Item(k, Card(Scores(70), <<70, 70, 69>>, Scores(100)), FALSE, TRUE),    \* accept: 69.7 is 70
    Item(k, Card(Scores(70), Scores(70), Scores(69)), FALSE, TRUE),        \* review
    Item(k, Card(Scores(40), <<40, 40, 38>>, Scores(70)), TRUE, TRUE),     \* review: 39.3 is 39, so reject
    Item(k, Card(Scores(40), Scores(40), Scores(0)), TRUE, TRUE),          \* review
    Item(k, None, FALSE, TRUE)}                                            \* invalid
MCAssessments ==
    {<<i, j>> : i \in MCItems(1), j \in MCItems(2)}
    \cup {None, <<>>}
    \cup {<<i, i>> : i \in MCItems(1)}

Says(k, relation) == [index |-> k, relation |-> relation, matched |-> relation = "supports",
                      conflicting |-> relation = "conflicts"]
MCVerdictItems(k) == {
    [index |-> k, confidence |-> 70, evidence |-> <<Says(1, "supports"), Says(2, "supports")>>],
    [index |-> k, confidence |-> 70, evidence |-> <<Says(2, "supports"), Says(3, "supports")>>],
    [index |-> k, confidence |-> 69, evidence |-> <<Says(1, "supports"), Says(2, "supports"), Says(3, "supports")>>],
    [index |-> k, confidence |-> 100, evidence |-> <<Says(1, "supports"), Says(3, "conflicts")>>],
    [index |-> k, confidence |-> 100, evidence |-> <<Says(1, "supports"), Says(1, "conflicts")>>]}
MCVerdicts ==
    {<<v>> : v \in MCVerdictItems(1)} \cup {<<v, w>> : v, w \in MCVerdictItems(1)}
    \cup {<<v, w>> : v \in MCVerdictItems(1), w \in MCVerdictItems(2)} \cup {None}
=============================================================================
