------------------------ MODULE MCScreeningExecutions -------------------------
(***************************************************************************)
(* A dashboard run and two executions of the command line that ask the     *)
(* same sources in different orders.                                       *)
(***************************************************************************)
EXTENDS ScreeningExecutions

CONSTANTS dashboard, cli1, cli2

MCAsked == (dashboard :> <<"dart", "ir_rss">>) @@ (cli1 :> <<"dart", "ir_rss">>)
           @@ (cli2 :> <<"ir_rss", "dart", "naver_news">>)

Item == [id |-> 1, url |-> "u", text |-> "t", parsed |-> TRUE, recent |-> TRUE, allowed |-> TRUE,
         document |-> "text", paragraphs |-> <<"p">>, themes |-> {"ai"}, topics |-> {}]
Filing == [Item EXCEPT !.url = "filing", !.text = "filing"]
Entry == [Item EXCEPT !.url = "entry", !.text = "entry"]

Page(kind, items, more) == [kind |-> kind, items |-> items, more |-> more]

\* A filing on both pages and one without its document; the entry, published again and
\* with other terms, between entries that are left out.
Filings == << Page("items", <<Filing, [Filing EXCEPT !.id = 2, !.document = "unavailable"],
                              [Filing EXCEPT !.id = 3, !.allowed = FALSE]>>, TRUE),
              Page("items", <<Filing>>, FALSE) >>
Entries == << <<[Entry EXCEPT !.parsed = FALSE], Entry>>,
              <<[Entry EXCEPT !.id = 2, !.recent = FALSE],
                [Entry EXCEPT !.id = 3, !.url = "again", !.themes = {}],
                [Entry EXCEPT !.id = 4, !.paragraphs = <<>>]>> >>

Found == [dart |-> Filings, ir_rss |-> Entries]
Short == [Found EXCEPT !.ir_rss = << <<Entry>> >>]
Partly == [dart |-> << Page("items", <<Filing>>, TRUE), Page("refused", <<>>, FALSE) >>,
           ir_rss |-> <<None, <<Entry>>>>, naver_news |-> <<[Item EXCEPT !.text = None]>>]
Nothing == [dart |-> << Page("error", <<>>, FALSE) >>, ir_rss |-> <<None>>, naver_news |-> None]
Broken == [dart |-> << Page("items", <<[Filing EXCEPT !.document = "breaks"]>>, FALSE) >>, ir_rss |-> <<<<>>>>]

MCAnswers(e) == IF e = dashboard THEN {Found} ELSE IF e = cli1 THEN {Short, Broken} ELSE {Partly, Nothing}

MCFilter == [themes |-> {"ai"}, topics |-> {}]
=============================================================================
