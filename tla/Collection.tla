----------------------------- MODULE Collection ------------------------------
(***************************************************************************)
(* What a screening gets to read: the answers of the sources               *)
(* (app/providers), the posts and articles they become (app/skills,        *)
(* app/market_data.py), and the filter of the dashboard (app/filters).     *)
(* An item is a record of what the rules tell apart:                       *)
(*   id, url, text   a text is equal where its normalized content is       *)
(*   parsed          its required fields can be read                       *)
(*   recent          it lies in the period asked for                       *)
(*   allowed         the title of a filing names an allowed event type     *)
(*   document        "text", "unavailable", or "breaks" for a filing whose *)
(*                   archive raises what its reader does not handle        *)
(*   paragraphs      of the full text                                      *)
(*   themes, topics  the terms it contains                                 *)
(***************************************************************************)
EXTENDS Lists

CONSTANTS
    None,      \* no value
    MaxPages   \* pages of the filing list that are read (5)

ASSUME CollectionAssumption == MaxPages \in Nat \ {0} /\ None \notin {"theme_mismatch", "topic_mismatch"}

Sources == {"dart", "ir_rss", "naver_news"}
Failed == [posts |-> <<>>, success |-> FALSE]
Collected(items) == [posts |-> items, success |-> TRUE]
FirstOf(s, n) == SubSeq(s, 1, IF n < Len(s) THEN n ELSE Len(s))

\* What the sources answer: the pages of the filing list, the feeds and the news, each
\* with a list of items.
Listed(answers) ==
    /\ "dart" \in DOMAIN answers =>
          IsList(answers["dart"]) /\ \A n \in DOMAIN answers["dart"] : IsList(answers["dart"][n].items)
    /\ "ir_rss" \in DOMAIN answers =>
          /\ IsList(answers["ir_rss"])
          /\ \A n \in DOMAIN answers["ir_rss"] : answers["ir_rss"][n] # None => IsList(answers["ir_rss"][n])
    /\ "naver_news" \in DOMAIN answers => answers["naver_news"] = None \/ IsList(answers["naver_news"])

\* DartDisclosureProvider.collect.  A page is "items", "refused" or "error"; the next one
\* is asked for while there is more.  An error of any page fails the provider, a refusal
\* only that of the first; the limit of the request is not looked at.
DartCollect(pages) ==
    LET wanted(n) == Where(pages[n].items, LAMBDA i : i.parsed /\ i.allowed)
        asked(n) ==
            /\ n <= MaxPages
            /\ \A k \in 1 .. n - 1 : pages[k].kind = "items" /\ pages[k].items # <<>> /\ pages[k].more
        breaks(n) ==
            \/ pages[n].kind = "error"
            \/ pages[n].kind = "refused" /\ n = 1
            \/ \E i \in ToSet(wanted(n)) : i.document = "breaks"
        read == {n \in DOMAIN pages : asked(n)}
    IN  IF \E n \in read : breaks(n) THEN Failed
        ELSE Collected(FlattenSeq([n \in 1 .. Cardinality(read) |-> wanted(n)]))

\* IrRssProvider.collect: a feed is None if it could not be read; only all of them
\* together fail the provider.
FeedCollect(feeds, limit) ==
    LET entries(feed) == FirstOf(Where(feed, LAMBDA i : i.parsed /\ i.recent), limit)
        read == Where(feeds, LAMBDA feed : feed # None)
    IN  IF feeds # <<>> /\ read = <<>> THEN Failed
        ELSE Collected(FirstOf(FlattenSeq([n \in DOMAIN read |-> entries(read[n])]), limit))

\* NaverNewsProvider.collect: one answer, None if it failed.
NaverCollect(items, limit) ==
    IF items = None THEN Failed
    ELSE Collected(Where(FirstOf(items, limit), LAMBDA i : i.parsed /\ i.recent))

\* A source that is not configured has no provider and fails as one that raises.
Provided(source, answers, limit) ==
    IF source \notin DOMAIN answers THEN Failed
    ELSE CASE source = "dart" -> DartCollect(answers[source])
           [] source = "ir_rss" -> FeedCollect(answers[source], limit)
           [] source = "naver_news" -> NaverCollect(answers[source], limit)

\* The normalizers: a filing without its document and a feed entry without a paragraph
\* are errors; the text of a filing starts with its metadata and is never blank.
Normalized(source, items) ==
    LET usable == Where(items, LAMBDA i : CASE source = "dart" -> i.document = "text"
                                                [] source = "ir_rss" -> i.paragraphs # <<>>
                                                [] OTHER -> TRUE)
    IN  [n \in DOMAIN usable |-> [source |-> source, item |-> usable[n]]]

\* CollectPostsSkill.execute: the posts in the order of the sources, None if every source failed.
CollectPosts(sources, answers, limit) ==
    LET of == [n \in DOMAIN sources |-> Provided(sources[n], answers, limit)]
        posts == FlattenSeq([n \in DOMAIN sources |-> Normalized(sources[n], of[n].posts)])
    IN  IF posts = <<>> /\ \A n \in DOMAIN of : ~of[n].success THEN None ELSE posts

\* posts_to_articles: a post without text is left out.
ToArticles(posts) ==
    LET written == Where(posts, LAMBDA p : p.source = "dart" \/ p.item.text # None)
    IN  [n \in DOMAIN written |->
            [source |-> written[n].source, id |-> <<written[n].source, written[n].item.id>>,
             url |-> written[n].item.url, text |-> written[n].item.text,
             themes |-> written[n].item.themes, topics |-> written[n].item.topics,
             eligible |-> written[n].source # "naver_news"]]

\* DefaultThemeCatalog.match: why an article is filtered out, None for one that is not.
FilterRejection(article, filter) ==
    IF filter.themes # {} /\ filter.themes \cap article.themes = {} THEN "theme_mismatch"
    ELSE IF filter.topics # {} /\ filter.topics \cap article.topics = {} THEN "topic_mismatch"
    ELSE None

Filtered(articles, filter) == Where(articles, LAMBDA a : FilterRejection(a, filter) = None)

\* _build_filter_snapshot, with the rejections of each reason.
Snapshot(articles, filter) ==
    LET because(reason) == HowMany(articles, LAMBDA a : FilterRejection(a, filter) = reason)
    IN  [collected |-> Len(articles), accepted |-> Len(Filtered(articles, filter)),
         excluded |-> Len(articles) - Len(Filtered(articles, filter)),
         theme |-> because("theme_mismatch"), topic |-> because("topic_mismatch")]

\* The public total of the dashboard is split among its sources.
PerSource(limit, sources) == (limit + Len(sources) - 1) \div Len(sources)
=============================================================================
