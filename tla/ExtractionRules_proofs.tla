------------------------- MODULE ExtractionRules_proofs -------------------------
(***************************************************************************)
(* What an answer about a batch and the events of filings make of the      *)
(* articles, for every answer that has the response format.                *)
(***************************************************************************)
EXTENDS ExtractionRules, Lists_proofs

\* An inference whose events quote its article.
Quoting(i, a) ==
    /\ i = [article |-> a, events |-> i.events] /\ IsList(i.events)
    /\ \A k \in DOMAIN i.events : Grounded(i.events[k].evidence, a)

LEMMA InferenceQuotes ==
    ASSUME NEW a, NEW item, Listed(item)
    PROVE  Quoting(Inference(a, item), a)
<1> DEFINE valid == Where(item.events, LAMBDA e : ValidEvent(e, a))
           events == [n \in DOMAIN valid |-> MapEvent(valid[n])]
           places == {p \in DOMAIN item.events : ValidEvent(item.events[p], a)}
<1>1. valid = Picked(item.events, places)
  BY DEF Where, Places
<1>2. IsList(item.events) /\ places \in SUBSET DOMAIN item.events
  BY DEF Listed
<1>3. PICK N \in Nat : DOMAIN item.events = 1 .. N
  BY <1>2, ListIsSeq
<1>4. places \in SUBSET (1 .. N)
  BY <1>2, <1>3
<1>5. PICK C \in Nat : C = Cardinality(places)
  BY <1>4, PlacesFinite
<1>6. /\ DOMAIN valid = 1 .. C
      /\ \A n \in 1 .. C : Nth(places, n) \in places /\ valid[n] = item.events[Nth(places, n)]
  <2> HIDE DEF places, valid
  <2>1. /\ DOMAIN Picked(item.events, places) = 1 .. Cardinality(places)
        /\ \A n \in 1 .. Cardinality(places) :
              Nth(places, n) \in places /\ Picked(item.events, places)[n] = item.events[Nth(places, n)]
    BY <1>4, PickedIsList
  <2> QED
    BY <1>1, <1>5, <2>1
<1> HIDE DEF valid
<1>7. \A n \in 1 .. C : ValidEvent(valid[n], a)
  BY <1>6
<1>8. \A n \in 1 .. C : events[n].evidence = valid[n].evidence
  BY <1>6 DEF MapEvent
<1>9. events = [n \in 1 .. C |-> events[n]] /\ DOMAIN events = 1 .. C
  BY <1>6
<1>10. Inference(a, item) = [article |-> a, events |-> events]
  BY DEF Inference, valid
<1> HIDE DEF events, places
<1>11. IsList(events)
  BY <1>5, <1>9, FunctionIsList
<1>12. \A n \in DOMAIN events : Grounded(events[n].evidence, a)
  BY <1>7, <1>8, <1>9 DEF ValidEvent
<1> QED
  BY <1>10, <1>11, <1>12 DEF Quoting

\* The errors of an item name no lost article.
Dropped(e) == e.kind \in {"event_validation", "fact_validation"}

LEMMA ItemErrorsDrop ==
    ASSUME NEW a, NEW item, Listed(item)
    PROVE  IsList(ItemErrors(a, item)) /\ \A e \in ToSet(ItemErrors(a, item)) : Dropped(e)
<1> DEFINE of(e) == IF ~ValidEvent(e, a) THEN <<Error("event_validation", <<a>>, None)>>
                    ELSE [k \in 1 .. HowMany(e.facts, LAMBDA f : ~IsFact(e, f)) |->
                             Error("fact_validation", <<a>>, None)]
           parts == [n \in DOMAIN item.events |-> of(item.events[n])]
<1>1. PICK N \in Nat : DOMAIN item.events = 1 .. N
  BY ListIsSeq DEF Listed
<1>2. ASSUME NEW n \in 1 .. N
      PROVE  IsList(parts[n]) /\ \A e \in ToSet(parts[n]) : Dropped(e)
  <2> DEFINE e == item.events[n]
             places == {p \in DOMAIN e.facts : ~IsFact(e, e.facts[p])}
             event == Error("event_validation", <<a>>, None)
             fact == Error("fact_validation", <<a>>, None)
  <2>1. Dropped(event) /\ Dropped(fact)
    BY DEF Dropped, Error
  <2>2. PICK F \in Nat : DOMAIN e.facts = 1 .. F
    <3>1. IsList(e.facts)
      BY <1>1 DEF Listed
    <3> QED
      BY <3>1, ListIsSeq
  <2>3. places \in SUBSET (1 .. F)
    BY <2>2
  <2>4. PICK C \in Nat : C = Cardinality(places)
    BY <2>3, PlacesFinite
  <2>5. HowMany(e.facts, LAMBDA f : ~IsFact(e, f)) = C
    BY <2>4 DEF HowMany, Places
  <2> HIDE DEF event, fact
  <2>6. parts[n] = IF ~ValidEvent(e, a) THEN <<event>> ELSE [k \in 1 .. C |-> fact]
    BY <1>1, <2>5 DEF event, fact
  <2> HIDE DEF parts
  <2>7. CASE parts[n] = <<event>>
    <3>1. <<event>> \in Seq({event})
      OBVIOUS
    <3>2. IsList(<<event>>) /\ ToSet(<<event>>) \subseteq {event}
      BY <3>1, SeqIsList
    <3> QED
      BY <2>1, <2>7, <3>2
  <2>8. CASE parts[n] = [k \in 1 .. C |-> fact]
    <3>1. parts[n] \in Seq({fact})
      BY <2>8
    <3>2. IsList(parts[n]) /\ ToSet(parts[n]) \subseteq {fact}
      BY <3>1, SeqIsList
    <3> QED
      BY <2>1, <3>2
  <2> QED
    BY <2>6, <2>7, <2>8
<1>3. parts = [n \in 1 .. N |-> parts[n]]
  BY <1>1
<1>4. ItemErrors(a, item) = FlattenSeq(parts)
  BY DEF ItemErrors
<1>5. DOMAIN parts = 1 .. N
  BY <1>1
<1> HIDE DEF parts
<1>6. IsList(parts)
  BY <1>3, FunctionIsList
<1>7. IsList(FlattenSeq(parts)) /\ ToSet(FlattenSeq(parts)) = UNION {ToSet(parts[n]) : n \in DOMAIN parts}
  BY <1>2, <1>5, <1>6, Flattened
<1> QED
  BY <1>2, <1>4, <1>5, <1>7

\* An answer that is accepted has one inference per article of the batch, and errors
\* only of what was dropped.
LEMMA ParsedStands ==
    ASSUME NEW batch, IsList(batch), NEW items, \A n \in DOMAIN items : Listed(items[n]),
           Parse(items, batch) # None
    PROVE  LET parsed == Parse(items, batch) IN
           /\ IsList(parsed.inferences) /\ DOMAIN parsed.inferences = DOMAIN batch
           /\ \A n \in DOMAIN batch : Quoting(parsed.inferences[n], batch[n])
           /\ IsList(parsed.errors) /\ \A e \in ToSet(parsed.errors) : Dropped(e)
<1> DEFINE itemOf(a) == items[CHOOSE n \in DOMAIN items : items[n].article = a]
           inferences == [n \in DOMAIN batch |-> Inference(batch[n], itemOf(batch[n]))]
           parts == [n \in DOMAIN batch |-> ItemErrors(batch[n], itemOf(batch[n]))]
<1>1. PICK N \in Nat : DOMAIN batch = 1 .. N
  BY ListIsSeq
<1>2. Matches(items, batch) /\ Parse(items, batch) = [inferences |-> inferences, errors |-> FlattenSeq(parts)]
  BY DEF Parse
<1>3. ASSUME NEW n \in 1 .. N PROVE Listed(itemOf(batch[n]))
  <2>1. batch[n] \in ToSet(batch)
    BY <1>1 DEF ToSet
  <2>2. \E k \in DOMAIN items : items[k].article = batch[n]
    BY <1>2, <2>1 DEF Matches
  <2> QED
    BY <2>2
<1>4. ASSUME NEW n \in 1 .. N
      PROVE  Quoting(inferences[n], batch[n]) /\ IsList(parts[n]) /\ \A e \in ToSet(parts[n]) : Dropped(e)
  <2>1. PICK item : item = itemOf(batch[n]) /\ Listed(item)
    BY <1>3
  <2>2. inferences[n] = Inference(batch[n], item) /\ parts[n] = ItemErrors(batch[n], item)
    BY <1>1, <2>1
  <2> QED
    BY <2>1, <2>2, InferenceQuotes, ItemErrorsDrop
<1>5. /\ inferences = [n \in 1 .. N |-> inferences[n]] /\ DOMAIN inferences = 1 .. N
      /\ parts = [n \in 1 .. N |-> parts[n]] /\ DOMAIN parts = 1 .. N
  BY <1>1
<1> HIDE DEF inferences, parts
<1>6. IsList(inferences) /\ IsList(parts)
  BY <1>5, FunctionIsList
<1>7. IsList(FlattenSeq(parts)) /\ ToSet(FlattenSeq(parts)) = UNION {ToSet(parts[n]) : n \in DOMAIN parts}
  BY <1>4, <1>5, <1>6, Flattened
<1>8. \A e \in ToSet(FlattenSeq(parts)) : Dropped(e)
  BY <1>4, <1>5, <1>7
<1>9. Parse(items, batch).inferences = inferences /\ Parse(items, batch).errors = FlattenSeq(parts)
  BY <1>2
<1> QED
  BY <1>1, <1>4, <1>5, <1>6, <1>7, <1>8, <1>9
----------------------------------------------------------------------------
(* The inferences with the events of filings.                              *)

Extracted(inferences, a) == \E n \in DOMAIN inferences : inferences[n].article = a
Kept(inferences, a) == Extracted(inferences, a) \/ FilingEvent(a) # None

\* An inference whose events quote its article or are read from its title.
Told(i, a) ==
    /\ i.article = a /\ IsList(i.events)
    /\ \A k \in DOMAIN i.events : i.events[k] = FilingEvent(a) \/ Grounded(i.events[k].evidence, a)

Of(inferences, a) == Where(inferences, LAMBDA i : i.article = a)
Augmented(inferences, a) ==
    IF Of(inferences, a) = <<>> THEN [article |-> a, events |-> <<FilingEvent(a)>>]
    ELSE LET inference == Last(Of(inferences, a)) IN
         IF FilingEvent(a) = None \/ NamesContract(inference.events) THEN inference
         ELSE [inference EXCEPT !.events = Append(@, FilingEvent(a))]

LEMMA LastOf ==
    ASSUME NEW inferences, IsList(inferences), NEW a
    PROVE  /\ Of(inferences, a) = <<>> <=> ~Extracted(inferences, a)
           /\ Extracted(inferences, a) =>
                 \E n \in DOMAIN inferences : inferences[n].article = a /\ Last(Of(inferences, a)) = inferences[n]
<1> DEFINE P == {n \in DOMAIN inferences : inferences[n].article = a}
           t == Picked(inferences, P)
<1>1. Of(inferences, a) = t
  BY DEF Of, Where, Places
<1>2. PICK N \in Nat : DOMAIN inferences = 1 .. N
  BY ListIsSeq
<1>3. P \in SUBSET (1 .. N)
  BY <1>2
<1>4. \A n : n \in P <=> n \in DOMAIN inferences /\ inferences[n].article = a
  OBVIOUS
<1> HIDE DEF P
<1>5. PICK C \in Nat : C = Cardinality(P) /\ IsFiniteSet(P)
  BY <1>3, PlacesFinite
<1>6. /\ IsList(t) /\ Len(t) = C
      /\ \A n \in 1 .. C : Nth(P, n) \in P /\ t[n] = inferences[Nth(P, n)]
  <2>1. /\ IsList(Picked(inferences, P)) /\ Len(Picked(inferences, P)) = Cardinality(P)
        /\ \A n \in 1 .. Cardinality(P) :
              Nth(P, n) \in P /\ Picked(inferences, P)[n] = inferences[Nth(P, n)]
    BY <1>3, PickedIsList
  <2> QED
    BY <1>5, <2>1
<1> HIDE DEF t
<1>7. C = 0 <=> P = {}
  BY <1>5, FS_EmptySet
<1>8. t = <<>> <=> C = 0
  <2>1. t \in Seq(ToSet(t))
    BY <1>6, ListIsSeq
  <2> QED
    BY <1>6, <2>1, EmptySeq
<1>9. C # 0 => Last(t) = inferences[Nth(P, C)] /\ Nth(P, C) \in P
  BY <1>6 DEF Last
<1> QED
  BY <1>1, <1>4, <1>7, <1>8, <1>9 DEF Extracted

LEMMA AugmentedTells ==
    ASSUME NEW inferences, IsList(inferences), NEW a, Kept(inferences, a),
           \A n \in DOMAIN inferences : Quoting(inferences[n], inferences[n].article)
    PROVE  Told(Augmented(inferences, a), a)
<1> DEFINE contract == FilingEvent(a)
<1>1. CASE ~Extracted(inferences, a)
  <2>1. Augmented(inferences, a) = [article |-> a, events |-> <<contract>>]
    BY <1>1, LastOf DEF Augmented
  <2>2. <<contract>> \in Seq({contract}) /\ DOMAIN <<contract>> = {1} /\ <<contract>>[1] = contract
    OBVIOUS
  <2>3. IsList(<<contract>>)
    BY <2>2, SeqIsList
  <2> QED
    BY <2>1, <2>2, <2>3 DEF Told
<1>2. CASE Extracted(inferences, a)
  <2>1. PICK i : i = Last(Of(inferences, a)) /\ Quoting(i, a)
    BY <1>2, LastOf
  <2>2. \/ Augmented(inferences, a) = i
        \/ Augmented(inferences, a) = [i EXCEPT !.events = Append(@, contract)]
    BY <1>2, <2>1, LastOf DEF Augmented
  <2>3. CASE Augmented(inferences, a) = i
    BY <2>1, <2>3 DEF Told, Quoting
  <2>4. CASE Augmented(inferences, a) = [i EXCEPT !.events = Append(@, contract)]
    <3>1. PICK events : events = i.events /\ i = [article |-> a, events |-> events] /\ IsList(events)
      BY <2>1 DEF Quoting
    <3>2. [i EXCEPT !.events = Append(@, contract)] = [article |-> a, events |-> Append(events, contract)]
      BY <3>1
    <3>3. PICK S : S = ToSet(events) \cup {contract}
      OBVIOUS
    <3>4. events \in Seq(S) /\ contract \in S
      <4>1. events \in Seq(ToSet(events))
        BY <3>1, ListIsSeq
      <4> QED
        BY <3>3, <4>1
    <3>5. /\ Append(events, contract) \in Seq(S)
          /\ \A k \in DOMAIN Append(events, contract) :
                \/ k \in DOMAIN events /\ Append(events, contract)[k] = events[k]
                \/ Append(events, contract)[k] = contract
      BY <3>4
    <3>6. IsList(Append(events, contract))
      BY <3>5, SeqIsList
    <3>7. \A k \in DOMAIN events : Grounded(events[k].evidence, a)
      BY <2>1, <3>1 DEF Quoting
    <3>8. PICK r : r = Augmented(inferences, a) /\ r.article = a /\ r.events = Append(events, contract)
      BY <2>4, <3>2
    <3> QED
      BY <3>5, <3>6, <3>7, <3>8 DEF Told
  <2> QED
    BY <2>2, <2>3, <2>4
<1> QED
  BY <1>1, <1>2

\* The articles that are kept have an inference each, in their order, and no other has one.
LEMMA AugmentKeeps ==
    ASSUME NEW inferences, IsList(inferences), NEW articles, IsList(articles),
           \A n \in DOMAIN inferences : Quoting(inferences[n], inferences[n].article),
           NEW S, S = {p \in DOMAIN articles : Kept(inferences, articles[p])}
    PROVE  /\ S \in SUBSET DOMAIN articles
           /\ IsList(Augment(inferences, articles))
           /\ DOMAIN Augment(inferences, articles) = DOMAIN Picked(articles, S)
           /\ \A n \in DOMAIN Picked(articles, S) :
                 Told(Augment(inferences, articles)[n], Picked(articles, S)[n])
<1> DEFINE kept == Where(articles, LAMBDA a : Of(inferences, a) # <<>> \/ FilingEvent(a) # None)
<1>1. Augment(inferences, articles) = [n \in DOMAIN kept |-> Augmented(inferences, kept[n])]
  BY DEF Augment, Augmented, Of
<1>2. kept = Picked(articles, S)
  <2>1. Places(articles, LAMBDA a : Of(inferences, a) # <<>> \/ FilingEvent(a) # None) = S
    <3>1. \A p \in DOMAIN articles :
             (Of(inferences, articles[p]) # <<>> \/ FilingEvent(articles[p]) # None) <=> Kept(inferences, articles[p])
      BY LastOf DEF Kept
    <3> QED
      BY <3>1 DEF Places
  <2> QED
    BY <2>1 DEF Where
<1> HIDE DEF kept
<1>3. S \in SUBSET DOMAIN articles
  OBVIOUS
<1>4. \A p \in S : Kept(inferences, articles[p])
  OBVIOUS
<1>5. PICK C \in Nat :
         /\ C = Cardinality(S) /\ DOMAIN Picked(articles, S) = 1 .. C
         /\ \A n \in 1 .. C : Nth(S, n) \in S /\ Picked(articles, S)[n] = articles[Nth(S, n)]
  BY <1>3, PickedPlaces
<1>6. DOMAIN kept = 1 .. C /\ \A n \in 1 .. C : Nth(S, n) \in S /\ kept[n] = articles[Nth(S, n)]
  BY <1>2, <1>5
<1>7. \A n \in 1 .. C : Kept(inferences, kept[n])
  BY <1>4, <1>6
<1>8. \A n \in 1 .. C : Told(Augmented(inferences, kept[n]), kept[n])
  BY <1>7, AugmentedTells
<1> DEFINE r == [n \in 1 .. C |-> Augmented(inferences, kept[n])]
<1>9. IsList(r) /\ DOMAIN r = 1 .. C /\ \A n \in 1 .. C : r[n] = Augmented(inferences, kept[n])
  BY <1>5, FunctionIsList
<1>10. Augment(inferences, articles) = r
  BY <1>1, <1>6
<1> HIDE DEF r
<1> QED
  BY <1>2, <1>3, <1>6, <1>8, <1>9, <1>10

----------------------------------------------------------------------------
(* Which articles the inferences and errors of an extraction account for.  *)

FoundOf(found, a) == Cardinality({n \in DOMAIN found : found[n].article = a})
LostTo(e, a) == e.kind \in {"api_call", "response_processing"} /\ a \in e.articles
LostOf(errors, a) == Cardinality({n \in DOMAIN errors : LostTo(errors[n], a)})

LEMMA FoundConcat ==
    ASSUME NEW f, NEW g, IsList(f), IsList(g), NEW a
    PROVE  /\ FoundOf(f \o g, a) = FoundOf(f, a) + FoundOf(g, a)
           /\ FoundOf(f, a) \in Nat /\ FoundOf(g, a) \in Nat
<1> DEFINE h == f \o g
           u == [n \in DOMAIN h |-> h[n].article]
           t == [n \in DOMAIN g |-> g[n].article]
<1>1. PICK c \in Nat : c = Len(f) /\ DOMAIN f = 1 .. c
  BY ListIsSeq
<1>2. PICK m \in Nat : m = Len(g) /\ DOMAIN g = 1 .. m
  BY ListIsSeq
<1>3. /\ DOMAIN h = 1 .. c + m
      /\ \A n \in 1 .. c : h[n] = f[n]
      /\ \A n \in 1 .. m : h[c + n] = g[n]
  BY <1>1, <1>2, Concatenated
<1> HIDE DEF h
<1>4. Piece(t, m, u, c)
  <2>1. t = [n \in 1 .. m |-> t[n]] /\ \A i \in 1 .. m : t[i] = u[c + i]
    BY <1>2, <1>3
  <2> HIDE DEF t, u
  <2>2. IsList(t) /\ Len(t) = m
    BY <2>1, FunctionIsList
  <2> QED
    BY <2>1, <2>2 DEF Piece
<1> DEFINE d == c + m
<1> HIDE DEF u, t, d
<1>d. d = c + m
  BY DEF d
<1>5. /\ Upto(u, d, a) = Upto(u, c, a) + Upto(t, m, a)
      /\ Upto(u, c, a) \in Nat /\ Upto(t, m, a) \in Nat
  BY <1>4, <1>d, UptoGrows
<1>6. {p \in 1 .. d : u[p] = a} = {n \in DOMAIN h : h[n].article = a}
  BY <1>3, <1>d DEF u
<1>7. {p \in 1 .. c : u[p] = a} = {n \in DOMAIN f : f[n].article = a}
  BY <1>1, <1>3 DEF u
<1>8. {p \in 1 .. m : t[p] = a} = {n \in DOMAIN g : g[n].article = a}
  BY <1>2 DEF t
<1> QED
  BY <1>5, <1>6, <1>7, <1>8 DEF Upto, FoundOf, h

LEMMA LostConcat ==
    ASSUME NEW f, NEW g, IsList(f), IsList(g), NEW a
    PROVE  /\ LostOf(f \o g, a) = LostOf(f, a) + LostOf(g, a)
           /\ LostOf(f, a) \in Nat /\ LostOf(g, a) \in Nat
<1> DEFINE h == f \o g
           u == [n \in DOMAIN h |-> IF LostTo(h[n], a) THEN 1 ELSE 0]
           t == [n \in DOMAIN g |-> IF LostTo(g[n], a) THEN 1 ELSE 0]
<1>1. PICK c \in Nat : c = Len(f) /\ DOMAIN f = 1 .. c
  BY ListIsSeq
<1>2. PICK m \in Nat : m = Len(g) /\ DOMAIN g = 1 .. m
  BY ListIsSeq
<1>3. /\ DOMAIN h = 1 .. c + m
      /\ \A n \in 1 .. c : h[n] = f[n]
      /\ \A n \in 1 .. m : h[c + n] = g[n]
  BY <1>1, <1>2, Concatenated
<1> HIDE DEF h
<1>4. Piece(t, m, u, c)
  <2>1. t = [n \in 1 .. m |-> t[n]] /\ \A i \in 1 .. m : t[i] = u[c + i]
    BY <1>2, <1>3
  <2> HIDE DEF t, u
  <2>2. IsList(t) /\ Len(t) = m
    BY <2>1, FunctionIsList
  <2> QED
    BY <2>1, <2>2 DEF Piece
<1> DEFINE d == c + m
<1> HIDE DEF u, t, d
<1>d. d = c + m
  BY DEF d
<1>5. /\ Upto(u, d, 1) = Upto(u, c, 1) + Upto(t, m, 1)
      /\ Upto(u, c, 1) \in Nat /\ Upto(t, m, 1) \in Nat
  BY <1>4, <1>d, UptoGrows
<1>6. {p \in 1 .. d : u[p] = 1} = {n \in DOMAIN h : LostTo(h[n], a)}
  BY <1>3, <1>d DEF u
<1>7. {p \in 1 .. c : u[p] = 1} = {n \in DOMAIN f : LostTo(f[n], a)}
  BY <1>1, <1>3 DEF u
<1>8. {p \in 1 .. m : t[p] = 1} = {n \in DOMAIN g : LostTo(g[n], a)}
  BY <1>2 DEF t
<1> QED
  BY <1>5, <1>6, <1>7, <1>8 DEF Upto, LostOf, h

\* Of an article there are no more inferences and lost batches than it occurs among the
\* first c of s, and some if it occurs there.
Accounts(found, errors, s, c) ==
    /\ IsList(found) /\ IsList(errors)
    /\ \A n \in DOMAIN found : Quoting(found[n], found[n].article)
    /\ \A a \in DOMAIN Articles :
          /\ FoundOf(found, a) + LostOf(errors, a) <= Upto(s, c, a)
          /\ Upto(s, c, a) # 0 => FoundOf(found, a) + LostOf(errors, a) # 0

\* What accounts for a piece of a list may be added to what accounts for the piece before.
LEMMA AccountsMore ==
    ASSUME NEW s, NEW c \in Nat, NEW found, NEW errors, Accounts(found, errors, s, c),
           NEW t, NEW m \in Nat, Piece(t, m, s, c),
           NEW more, NEW missed, Accounts(more, missed, t, m),
           NEW d, d = c + m
    PROVE  Accounts(found \o more, errors \o missed, s, d)
<1>1. IsList(found) /\ IsList(errors) /\ IsList(more) /\ IsList(missed)
  BY DEF Accounts
<1>2. IsList(found \o more) /\ IsList(errors \o missed)
  BY <1>1, Concatenated
<1>3. ASSUME NEW n \in DOMAIN (found \o more)
      PROVE  Quoting((found \o more)[n], (found \o more)[n].article)
  <2>1. (found \o more)[n] \in ToSet(found \o more)
    BY DEF ToSet
  <2>2. (found \o more)[n] \in ToSet(found) \cup ToSet(more)
    BY <1>1, <2>1, Concatenated
  <2> HIDE DEF Quoting
  <2> DEFINE i == (found \o more)[n]
  <2>3. i \in ToSet(found) => Quoting(i, i.article)
    BY DEF ToSet, Accounts
  <2>4. i \in ToSet(more) => Quoting(i, i.article)
    BY DEF ToSet, Accounts
  <2> QED
    BY <2>2, <2>3, <2>4
<1>4. ASSUME NEW a \in DOMAIN Articles
      PROVE  /\ FoundOf(found \o more, a) + LostOf(errors \o missed, a) <= Upto(s, d, a)
             /\ Upto(s, d, a) # 0 => FoundOf(found \o more, a) + LostOf(errors \o missed, a) # 0
  <2>1. /\ FoundOf(found \o more, a) = FoundOf(found, a) + FoundOf(more, a)
        /\ FoundOf(found, a) \in Nat /\ FoundOf(more, a) \in Nat
    BY <1>1, FoundConcat
  <2>2. /\ LostOf(errors \o missed, a) = LostOf(errors, a) + LostOf(missed, a)
        /\ LostOf(errors, a) \in Nat /\ LostOf(missed, a) \in Nat
    BY <1>1, LostConcat
  <2>3. /\ Upto(s, d, a) = Upto(s, c, a) + Upto(t, m, a)
        /\ Upto(s, c, a) \in Nat /\ Upto(t, m, a) \in Nat
    BY UptoGrows
  <2>4. /\ FoundOf(found, a) + LostOf(errors, a) <= Upto(s, c, a)
        /\ Upto(s, c, a) # 0 => FoundOf(found, a) + LostOf(errors, a) # 0
    BY DEF Accounts
  <2>5. /\ FoundOf(more, a) + LostOf(missed, a) <= Upto(t, m, a)
        /\ Upto(t, m, a) # 0 => FoundOf(more, a) + LostOf(missed, a) # 0
    BY DEF Accounts
  <2>6. PICK f \in Nat, g \in Nat : f = FoundOf(found, a) /\ g = FoundOf(more, a)
    BY <2>1
  <2>7. PICK k \in Nat, l \in Nat : k = LostOf(errors, a) /\ l = LostOf(missed, a)
    BY <2>2
  <2>8. PICK u \in Nat, v \in Nat : u = Upto(s, c, a) /\ v = Upto(t, m, a)
    BY <2>3
  <2>9. f + k <= u /\ g + l <= v /\ (u # 0 => f + k # 0) /\ (v # 0 => g + l # 0)
    BY <2>4, <2>5, <2>6, <2>7, <2>8
  <2>10. f + g + (k + l) <= u + v /\ (u + v # 0 => f + g + (k + l) # 0)
    BY <2>9
  <2>11. FoundOf(found \o more, a) = f + g /\ LostOf(errors \o missed, a) = k + l /\ Upto(s, d, a) = u + v
    BY <2>1, <2>2, <2>3, <2>6, <2>7, <2>8
  <2> QED
    BY <2>10, <2>11
<1> QED
  BY <1>2, <1>3, <1>4 DEF Accounts

LEMMA AccountsNone ==
    ASSUME NEW s
    PROVE  Accounts(<<>>, <<>>, s, 0)
<1>1. IsList(<<>>) /\ DOMAIN <<>> = {}
  BY EmptyIsList
<1>2. 1 .. 0 = {}
  OBVIOUS
<1>3. Cardinality({}) = 0
  BY FS_EmptySet
<1>4. ASSUME NEW a PROVE FoundOf(<<>>, a) = 0 /\ LostOf(<<>>, a) = 0 /\ Upto(s, 0, a) = 0
  BY <1>2, <1>3 DEF FoundOf, LostOf, Upto
<1> QED
  BY <1>1, <1>4 DEF Accounts

\* A batch whose call failed: one error names its articles.
LEMMA AccountsLost ==
    ASSUME NEW t, IsList(t), NEW m \in Nat, DOMAIN t = 1 .. m, NEW type,
           NEW kind \in {"api_call", "response_processing"}
    PROVE  Accounts(<<>>, <<Error(kind, t, type)>>, t, m)
<1> DEFINE e == Error(kind, t, type)
<1>1. IsList(<<>>) /\ DOMAIN <<>> = {}
  BY EmptyIsList
<1>2. IsList(<<e>>) /\ DOMAIN <<e>> = 1 .. 1 /\ <<e>>[1] = e
  <2>1. <<e>> \in Seq({e}) /\ Len(<<e>>) = 1 /\ <<e>>[1] = e
    OBVIOUS
  <2>2. IsList(<<e>>) /\ DOMAIN <<e>> = 1 .. Len(<<e>>)
    BY <2>1, SeqIsList
  <2> QED
    BY <2>1, <2>2
<1>3. ASSUME NEW a \in DOMAIN Articles
      PROVE  /\ FoundOf(<<>>, a) = 0 /\ LostOf(<<e>>, a) = IF a \in ToSet(t) THEN 1 ELSE 0
             /\ Upto(t, m, a) \in Nat /\ (Upto(t, m, a) # 0 <=> a \in ToSet(t))
  <2>1. LostTo(e, a) <=> a \in ToSet(t)
    BY DEF Error, LostTo
  <2>2. {n \in DOMAIN <<e>> : LostTo(<<e>>[n], a)} = IF a \in ToSet(t) THEN {1} ELSE {}
    BY <1>2, <2>1
  <2>3. Cardinality({1}) = 1 /\ Cardinality({}) = 0
    BY FS_Singleton, FS_EmptySet
  <2>4. LostOf(<<e>>, a) = IF a \in ToSet(t) THEN 1 ELSE 0
    BY <2>2, <2>3 DEF LostOf
  <2>5. FoundOf(<<>>, a) = 0
    BY <1>1, <2>3 DEF FoundOf
  <2> DEFINE P == {p \in 1 .. m : t[p] = a}
  <2>6. P \in SUBSET (1 .. m)
    OBVIOUS
  <2>7. IsFiniteSet(P) /\ Cardinality(P) \in Nat
    BY <2>6, PlacesFinite
  <2>8. Cardinality(P) = 0 <=> P = {}
    BY <2>7, FS_EmptySet
  <2>9. P # {} <=> a \in ToSet(t)
    BY DEF ToSet
  <2> QED
    BY <2>4, <2>5, <2>7, <2>8, <2>9 DEF Upto
<1> HIDE DEF e
<1>4. ASSUME NEW a \in DOMAIN Articles
      PROVE  /\ FoundOf(<<>>, a) + LostOf(<<e>>, a) <= Upto(t, m, a)
             /\ Upto(t, m, a) # 0 => FoundOf(<<>>, a) + LostOf(<<e>>, a) # 0
  BY <1>3
<1>5. Accounts(<<>>, <<e>>, t, m)
  BY <1>1, <1>2, <1>4 DEF Accounts
<1> QED
  BY <1>5 DEF e

\* A batch whose answer was accepted: every article has its inference.
LEMMA AccountsParsed ==
    ASSUME NEW t, IsList(t), NEW m \in Nat, DOMAIN t = 1 .. m,
           NEW items, \A n \in DOMAIN items : Listed(items[n]), Parse(items, t) # None
    PROVE  Accounts(Parse(items, t).inferences, Parse(items, t).errors, t, m)
<1> DEFINE found == Parse(items, t).inferences
           errors == Parse(items, t).errors
<1>1. /\ IsList(found) /\ DOMAIN found = 1 .. m
      /\ \A n \in 1 .. m : Quoting(found[n], t[n])
      /\ IsList(errors) /\ \A e \in ToSet(errors) : Dropped(e)
  BY ParsedStands
<1> HIDE DEF found, errors
<1>2. \A n \in 1 .. m : found[n].article = t[n]
  BY <1>1 DEF Quoting
<1>3. ASSUME NEW a \in DOMAIN Articles
      PROVE  FoundOf(found, a) = Upto(t, m, a) /\ LostOf(errors, a) = 0 /\ Upto(t, m, a) \in Nat
  <2>1. {n \in DOMAIN found : found[n].article = a} = {p \in 1 .. m : t[p] = a}
    BY <1>1, <1>2
  <2>2. \A n \in DOMAIN errors : ~LostTo(errors[n], a)
    BY <1>1 DEF ToSet, Dropped, LostTo
  <2>3. {n \in DOMAIN errors : LostTo(errors[n], a)} = {}
    BY <2>2
  <2>4. Cardinality({}) = 0
    BY FS_EmptySet
  <2>5. {p \in 1 .. m : t[p] = a} \in SUBSET (1 .. m)
    OBVIOUS
  <2>6. Upto(t, m, a) \in Nat
    BY <2>5, PlacesFinite DEF Upto
  <2> QED
    BY <2>1, <2>3, <2>4, <2>6 DEF FoundOf, LostOf, Upto
<1>4. ASSUME NEW a \in DOMAIN Articles
      PROVE  /\ FoundOf(found, a) + LostOf(errors, a) <= Upto(t, m, a)
             /\ Upto(t, m, a) # 0 => FoundOf(found, a) + LostOf(errors, a) # 0
  BY <1>3
<1>5. Accounts(found, errors, t, m)
  BY <1>1, <1>2, <1>4 DEF Accounts
<1> QED
  BY <1>5 DEF found, errors
LEMMA CountedPlaces ==
    ASSUME NEW s, IsList(s), NEW P \in SUBSET DOMAIN s
    PROVE  /\ IsFiniteSet(P) /\ Cardinality(P) \in Nat /\ Cardinality(P) <= Len(s)
           /\ Cardinality(P) = 0 <=> P = {}
<1>1. PICK N \in Nat : N = Len(s) /\ DOMAIN s = 1 .. N
  BY ListIsSeq
<1>2. P \in SUBSET (1 .. N)
  BY <1>1
<1> QED
  BY <1>1, <1>2, PlacesFinite, FS_EmptySet

\* What an extraction found and lost, told of the result with the events of filings.
LEMMA AugmentAccounts ==
    ASSUME NEW s, IsList(s), NEW found, NEW errors, Accounts(found, errors, s, Len(s)), NEW a \in DOMAIN Articles
    PROVE  /\ LostOf(errors, a) <= Count(s, {a})
           /\ IF FoundOf(Augment(found, s), a) = 0 THEN Count(s, {a}) # 0 => LostOf(errors, a) # 0
              ELSE FoundOf(Augment(found, s), a) = Count(s, {a})
           /\ FoundOf(Augment(found, s), a) # 0 /\ LostOf(errors, a) # 0 =>
                 FilingEvent(a) # None \/ Count(s, {a}) > 1
<1> DEFINE S == {p \in DOMAIN s : Kept(found, s[p])}
           t == Augment(found, s)
           kept == Picked(s, S)
           P == {p \in DOMAIN s : s[p] \in {a}}
           E == {n \in DOMAIN found : found[n].article = a}
           L == {n \in DOMAIN errors : LostTo(errors[n], a)}
<1>1. /\ IsList(found) /\ IsList(errors)
      /\ \A n \in DOMAIN found : Quoting(found[n], found[n].article)
  BY DEF Accounts
<1>2. /\ S \in SUBSET DOMAIN s /\ IsList(t) /\ DOMAIN t = DOMAIN kept
      /\ \A n \in DOMAIN kept : Told(t[n], kept[n])
  <2>1. PICK T : T = {p \in DOMAIN s : Kept(found, s[p])}
    OBVIOUS
  <2>3. T = S
    BY <2>1
  <2> HIDE DEF t, kept, S, P, E, L
  <2>2. IsList(found) /\ \A n \in DOMAIN found : Quoting(found[n], found[n].article)
    BY <1>1
  <2>4. T \in SUBSET DOMAIN s /\ DOMAIN Augment(found, s) = DOMAIN Picked(s, T)
    BY <2>1, <2>2, AugmentKeeps
  <2>5. IsList(Augment(found, s))
    BY <2>1, <2>2, AugmentKeeps
  <2>6. \A n \in DOMAIN Picked(s, T) : Told(Augment(found, s)[n], Picked(s, T)[n])
    BY <2>1, <2>2, AugmentKeeps
  <2> QED
    BY <2>3, <2>4, <2>5, <2>6 DEF t, kept
<1>3. FoundOf(t, a) = Count(kept, {a})
  <2>1. \A n \in DOMAIN kept : t[n].article = kept[n]
    BY <1>2 DEF Told
  <2> HIDE DEF t, kept
  <2>2. {n \in DOMAIN t : t[n].article = a} = {n \in DOMAIN kept : kept[n] \in {a}}
    BY <1>2, <2>1
  <2> QED
    BY <2>2 DEF FoundOf, Count
<1>4. Count(kept, {a}) = Cardinality({p \in S : s[p] \in {a}})
  <2> HIDE DEF S
  <2> QED
    BY <1>2, PickedCount
<1>5. Count(s, {a}) = Cardinality(P) /\ Cardinality(P) \in Nat
  <2>1. P \in SUBSET DOMAIN s
    OBVIOUS
  <2> HIDE DEF P
  <2>2. Cardinality(P) \in Nat
    BY <2>1, CountedPlaces
  <2> QED
    BY <2>2 DEF Count, P
<1>6. Upto(s, Len(s), a) = Cardinality(P)
  <2>1. DOMAIN s = 1 .. Len(s)
    BY ListIsSeq
  <2>2. {p \in 1 .. Len(s) : s[p] = a} = P
    BY <2>1
  <2> QED
    BY <2>2 DEF Upto
<1>7. /\ FoundOf(found, a) \in Nat /\ (FoundOf(found, a) = 0 <=> ~Extracted(found, a))
  <2>1. E \in SUBSET DOMAIN found /\ (E = {} <=> ~Extracted(found, a)) /\ FoundOf(found, a) = Cardinality(E)
    BY DEF Extracted, FoundOf
  <2> HIDE DEF E
  <2> QED
    BY <1>1, <2>1, CountedPlaces
<1>8. LostOf(errors, a) \in Nat
  <2>1. L \in SUBSET DOMAIN errors /\ LostOf(errors, a) = Cardinality(L)
    BY DEF LostOf
  <2> HIDE DEF L
  <2> QED
    BY <1>1, <2>1, CountedPlaces
<1>9. /\ FoundOf(found, a) + LostOf(errors, a) <= Cardinality(P)
      /\ Cardinality(P) # 0 => FoundOf(found, a) + LostOf(errors, a) # 0
  BY <1>6 DEF Accounts
<1>10. CASE Kept(found, a)
  <2>1. {p \in S : s[p] \in {a}} = P
    BY <1>10
  <2>2. FoundOf(t, a) = Cardinality(P)
    BY <1>3, <1>4, <2>1
  <2>3. Extracted(found, a) \/ FilingEvent(a) # None
    BY <1>10 DEF Kept
  <2> HIDE DEF t, P
  <2> QED
    BY <1>5, <1>7, <1>8, <1>9, <2>2, <2>3 DEF t
<1>11. CASE ~Kept(found, a)
  <2>1. {p \in S : s[p] \in {a}} = {}
    BY <1>11
  <2>2. FoundOf(t, a) = 0
    BY <1>3, <1>4, <2>1, FS_EmptySet
  <2>3. FoundOf(found, a) = 0
    BY <1>7, <1>11 DEF Kept
  <2> HIDE DEF t, P
  <2> QED
    BY <1>5, <1>7, <1>8, <1>9, <2>2, <2>3 DEF t
<1> QED
  BY <1>10, <1>11

\* Every event of it quotes its article or is the one of its title.
LEMMA AugmentQuotes ==
    ASSUME NEW s, IsList(s), NEW found, NEW errors, Accounts(found, errors, s, Len(s)),
           NEW n \in DOMAIN Augment(found, s)
    PROVE  LET i == Augment(found, s)[n] IN
           /\ IsList(i.events) /\ i.article \in ToSet(s)
           /\ \A k \in DOMAIN i.events :
                 i.events[k] = FilingEvent(i.article) \/ Grounded(i.events[k].evidence, i.article)
<1>1. PICK T : T = {p \in DOMAIN s : Kept(found, s[p])}
  OBVIOUS
<1>2. /\ IsList(found) /\ \A k \in DOMAIN found : Quoting(found[k], found[k].article)
  BY DEF Accounts
<1>3. /\ T \in SUBSET DOMAIN s /\ DOMAIN Augment(found, s) = DOMAIN Picked(s, T)
      /\ \A k \in DOMAIN Picked(s, T) : Told(Augment(found, s)[k], Picked(s, T)[k])
  BY <1>1, <1>2, AugmentKeeps
<1>4. Picked(s, T)[n] \in ToSet(s)
  <2>1. Picked(s, T)[n] \in ToSet(Picked(s, T))
    BY <1>3 DEF ToSet
  <2>2. \A x : x \in ToSet(Picked(s, T)) <=> \E p \in T : x = s[p]
    BY <1>3, PickedFromList
  <2> QED
    BY <1>3, <2>1, <2>2 DEF ToSet
<1>5. PICK i : i = Augment(found, s)[n]
  OBVIOUS
<1>6. Told(i, Picked(s, T)[n])
  BY <1>3, <1>5
<1> QED
  BY <1>4, <1>5, <1>6 DEF Told
=============================================================================
