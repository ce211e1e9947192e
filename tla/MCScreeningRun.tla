---------------------------- MODULE MCScreeningRun ----------------------------
(***************************************************************************)
(* A full text with two paragraphs, a filing whose title names a contract, *)
(* a snippet, also twice, articles that are not analysed and one more.     *)
(***************************************************************************)
EXTENDS ScreeningRun

Snippet == [eligible |-> TRUE, title |-> "t", length |-> 2, official |-> FALSE, paragraphs |-> <<>>,
            contract |-> FALSE, company |-> None]
MCArticles == <<
    [Snippet EXCEPT !.official = TRUE, !.paragraphs = << {"q1"}, {"q1", "q2"} >>],
    [Snippet EXCEPT !.contract = TRUE, !.company = "alpha"],
    Snippet,
    [Snippet EXCEPT !.length = 1],
    [Snippet EXCEPT !.length = 3],
    [Snippet EXCEPT !.official = TRUE],
    [Snippet EXCEPT !.eligible = FALSE],
    [Snippet EXCEPT !.length = 4]>>

MCInputs == { <<1, 2, 3>>, <<3, 3>>, <<2, 3, 2>>, <<4, 5, 6, 7, 8>>, <<>>, <<2, 3, 1, 5>>, <<4, 6>> }

Quote(a, n, q) == [article |-> a, paragraph |-> n, quote |-> q]
Event(evidence) ==
    [title |-> "e", summary |-> "s", type |-> "financial_event", facts |-> <<"bankruptcy", "mass_layoff", "bankruptcy">>,
     companies |-> << [name |-> "beta", relation |-> "direct"], [name |-> "beta", relation |-> "indirect"] >>,
     evidence |-> evidence]
EventOf(a) == Event(IF a = 1 THEN <<Quote(1, 2, "q2")>> ELSE <<>>)
Item(a, events) == [article |-> a, written |-> TRUE, events |-> events]

\* One event each; an item not written, an item missing; about the full text also items
\* in another order, with an event without evidence, a blank one and one with a false quote.
MCAnswers(batch) ==
    LET all(Events(_)) == [n \in DOMAIN batch |-> Item(batch[n], Events(batch[n]))] IN
    {all(LAMBDA a : <<EventOf(a)>>),
     [all(LAMBDA a : <<>>) EXCEPT ![1].written = FALSE],
     Tail(all(LAMBDA a : <<>>))}
    \cup IF 1 \in ToSet(batch)
         THEN {Reverse(all(LAMBDA a : <<Event(<<>>), [EventOf(a) EXCEPT !.title = None],
                                         Event(<<Quote(1, 1, "q2")>>)>>))}
         ELSE {}
=============================================================================
