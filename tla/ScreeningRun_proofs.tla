-------------------------- MODULE ScreeningRun_proofs --------------------------
(***************************************************************************)
(* Proofs about ScreeningRun, for every input, every answer and error of   *)
(* the provider, and every size of the budget, the batches and the         *)
(* recovery.                                                               *)
(***************************************************************************)
EXTENDS ScreeningRun, ExtractionRules_proofs

\* Of a split recovery there is room for the parts that are left.
SplitFits ==
    ext.phase = "split" =>
        /\ BatchLength > PartSize
        /\ ext.recovery + Parts(BatchLength, PartSize) - ext.part <= MaxRecovery

\* Whatever a stage has done in this attempt, it has claimed a request for it, and one
\* in each earlier attempt.
AttemptsPaid ==
    /\ used >= attempt - 1
    /\ ext.batch # 1 \/ asked.handled # 0 => used >= attempt

IInv ==
    /\ input \in Inputs /\ DOMAIN ext = DOMAIN NoWork
    /\ TypeOK /\ FailureIsExplained
    /\ node = "extract" => AcceptedCount # 0
    /\ SplitFits
    /\ outcome.status = "running" => AttemptsPaid

----------------------------------------------------------------------------
(* Sizes of batches and the order of the nodes.                            *)

LEMMA CountTyped ==
    ASSUME input \in Inputs
    PROVE  AcceptedCount \in Nat
<1>1. Len(input) \in Nat /\ DOMAIN input = 1 .. Len(input)
  BY ScreeningAssumption
<1>2. IsFiniteSet(DOMAIN input)
  BY <1>1, FS_Interval
<1>3. IsFiniteSet({n \in DOMAIN input : Rejection(input[n]) = None})
  BY <1>2, FS_Subset
<1> QED
  BY <1>3, FS_CardinalityType DEF AcceptedCount, HowMany, Places

\* Whoever has something to divide gets at least one part.
LEMMA PartsTyped ==
    ASSUME NEW n \in Nat, NEW size \in Nat \ {0}
    PROVE  Parts(n, size) \in Nat /\ (n # 0 => Parts(n, size) >= 1)
<1>1. n + size - 1 \in Nat
  OBVIOUS
<1>2. (n + size - 1) \div size \in Nat
  BY <1>1
<1>3. n # 0 => (n + size - 1) \div size >= 1
  BY <1>1
<1> QED
  BY <1>2, <1>3 DEF Parts

LEMMA SizeTyped ==
    ASSUME NEW count \in Nat, NEW n \in Nat, NEW size \in Nat
    PROVE  SizeOf(count, n, size) \in Int
BY DEF SizeOf, Smaller

LEMMA NodesOrdered ==
    ASSUME NEW n \in ToSet(Order)
    PROVE  /\ After(n) \in ToSet(Order) \cup {"end"}
           /\ After(n) = "extract" => AcceptedCount # 0
<1> DEFINE place == CHOOSE k \in DOMAIN Order : Order[k] = n
<1>1. place \in 1 .. 11 /\ Order[place] = n
  BY DEF ToSet, Order
<1> HIDE DEF place
<1>2. /\ DOMAIN Order = 1 .. 11
      /\ Order[1] = "evaluate" /\ Order[2] = "extract" /\ Order[3] = "deduplicate" /\ Order[4] = "screen"
      /\ Order[5] = "cross_validate" /\ Order[6] = "resolve" /\ Order[7] = "analyze"
      /\ Order[8] = "aggregate" /\ Order[9] = "score" /\ Order[10] = "recommend"
      /\ Order[11] = "select_candidates"
  BY DEF Order
<1>3. n # "select_candidates" => 1 + place \in 2 .. 11
  <2>1. n # "select_candidates" => place # 11
    BY <1>1, <1>2
  <2> QED
    BY <1>1, <2>1
<1>4. n # "evaluate" => 1 + place # 2
  BY <1>1, <1>2
<1>5. \A k \in 3 .. 11 : Order[k] # "extract"
  BY <1>2
<1>6. n # "select_candidates" => Order[1 + place] \in ToSet(Order)
  BY <1>2, <1>3 DEF ToSet
<1>7. n # "select_candidates" /\ n # "evaluate" => Order[1 + place] # "extract"
  <2>1. n # "select_candidates" /\ n # "evaluate" => 1 + place \in 3 .. 11
    BY <1>1, <1>3, <1>4
  <2> QED
    BY <2>1, <1>5
<1>8. "aggregate" \in ToSet(Order)
  BY <1>2 DEF ToSet
<1>9. After(n) = IF n = "evaluate" /\ AcceptedCount = 0 THEN "aggregate"
                 ELSE IF n = "select_candidates" THEN "end" ELSE Order[1 + place]
  BY DEF After, place
<1> QED
  BY <1>6, <1>7, <1>8, <1>9

Place(n) == CHOOSE k \in DOMAIN Order : Order[k] = n

\* A node is at one place of the order.
LEMMA PlaceOfNode ==
    ASSUME NEW k \in 1 .. 11
    PROVE  Place(Order[k]) = k /\ Order[k] \in ToSet(Order)
<1>1. /\ DOMAIN Order = 1 .. 11
      /\ Order[1] = "evaluate" /\ Order[2] = "extract" /\ Order[3] = "deduplicate" /\ Order[4] = "screen"
      /\ Order[5] = "cross_validate" /\ Order[6] = "resolve" /\ Order[7] = "analyze"
      /\ Order[8] = "aggregate" /\ Order[9] = "score" /\ Order[10] = "recommend"
      /\ Order[11] = "select_candidates"
  BY DEF Order
<1>2. \A j \in 1 .. 11 : Order[j] = Order[k] => j = k
  BY <1>1
<1>3. PICK n : n = Order[k]
  OBVIOUS
<1>4. Place(n) \in DOMAIN Order /\ Order[Place(n)] = n
  BY <1>1, <1>3 DEF Place
<1>5. n \in ToSet(Order)
  BY <1>1, <1>3 DEF ToSet
<1> QED
  BY <1>1, <1>2, <1>3, <1>4, <1>5

\* The edges of the graph, one by one.
LEMMA Edges ==
    /\ After("evaluate") = IF AcceptedCount = 0 THEN "aggregate" ELSE "extract"
    /\ After("extract") = "deduplicate" /\ After("deduplicate") = "screen"
    /\ After("screen") = "cross_validate" /\ After("cross_validate") = "resolve"
    /\ After("resolve") = "analyze" /\ After("analyze") = "aggregate" /\ After("aggregate") = "score"
    /\ After("score") = "recommend" /\ After("recommend") = "select_candidates"
    /\ After("select_candidates") = "end"
<1>1. /\ Order[1] = "evaluate" /\ Order[2] = "extract" /\ Order[3] = "deduplicate" /\ Order[4] = "screen"
      /\ Order[5] = "cross_validate" /\ Order[6] = "resolve" /\ Order[7] = "analyze"
      /\ Order[8] = "aggregate" /\ Order[9] = "score" /\ Order[10] = "recommend"
      /\ Order[11] = "select_candidates"
  BY DEF Order
<1>2. ASSUME NEW k \in 1 .. 10
      PROVE  After(Order[k]) = IF Order[k] = "evaluate" /\ AcceptedCount = 0 THEN "aggregate" ELSE Order[1 + k]
  <2>1. Order[k] # "select_candidates"
    BY <1>1
  <2>2. PICK n : n = Order[k]
    OBVIOUS
  <2>3. After(n) = IF n = "evaluate" /\ AcceptedCount = 0 THEN "aggregate"
                   ELSE IF n = "select_candidates" THEN "end" ELSE Order[1 + Place(n)]
    BY DEF After, Place
  <2> QED
    BY <2>1, <2>2, <2>3, PlaceOfNode
<1>3. After("select_candidates") = "end"
  BY DEF After
<1>4. After(Order[1]) = IF AcceptedCount = 0 THEN "aggregate" ELSE Order[2]
  BY <1>1, <1>2
<1>5. ASSUME NEW k \in 2 .. 10 PROVE After(Order[k]) = Order[1 + k]
  BY <1>1, <1>2
<1>6. /\ After(Order[2]) = Order[3] /\ After(Order[3]) = Order[4] /\ After(Order[4]) = Order[5]
  BY <1>5
<1>7. /\ After(Order[5]) = Order[6] /\ After(Order[6]) = Order[7] /\ After(Order[7]) = Order[8]
  BY <1>5
<1>8. After(Order[8]) = Order[9] /\ After(Order[9]) = Order[10] /\ After(Order[10]) = Order[11]
  BY <1>5
<1> QED
  BY <1>1, <1>3, <1>4, <1>6, <1>7, <1>8

\* What the progress event says of the next node (workflow.py) is the edge that the graph
\* takes (graph.py).
LEMMA NextIsAfter ==
    ASSUME NEW n \in ToSet(Order)
    PROVE  NextNode(n) = IF n = "select_candidates" THEN None ELSE After(n)
<1> DEFINE order == Tail(Order)
<1>1. /\ Order[1] = "evaluate" /\ Order[2] = "extract" /\ Order[3] = "deduplicate" /\ Order[4] = "screen"
      /\ Order[5] = "cross_validate" /\ Order[6] = "resolve" /\ Order[7] = "analyze"
      /\ Order[8] = "aggregate" /\ Order[9] = "score" /\ Order[10] = "recommend"
      /\ Order[11] = "select_candidates" /\ DOMAIN Order = 1 .. 11
  BY DEF Order
<1>2. /\ DOMAIN order = 1 .. 10 /\ Len(order) = 10 /\ \A j \in 1 .. 10 : order[j] = Order[j + 1]
  <2>1. Order = [j \in 1 .. 11 |-> Order[j]]
    BY DEF Order
  <2>2. PICK s \in Seq(ToSet(Order)) : s = Order /\ Len(s) = 11
    BY <2>1, FunctionIsList, ListIsSeq
  <2>3. Len(s) = 11 /\ s # <<>>
    <3>1. Len(Order) = 11
      BY <2>1, FunctionIsList
    <3>2. Len(s) = 11
      BY <2>2, <3>1
    <3>3. s # <<>>
      <4>1. Len(<<>>) = 0
        BY EmptyIsList
      <4> QED
        BY <3>2, <4>1
    <3> QED
      BY <3>2, <3>3
  <2>4. PICK t : t = Tail(s)
    OBVIOUS
  <2>5. t \in Seq(ToSet(Order)) /\ Len(t) = Len(s) - 1 /\ \A i \in 1 .. Len(t) : t[i] = s[i + 1]
    BY <2>2, <2>3, <2>4, HeadTailProperties
  <2>6. Len(t) = 10 /\ DOMAIN t = 1 .. 10
    BY <2>3, <2>5
  <2>7. \A j \in 1 .. 10 : t[j] = s[j + 1]
    BY <2>5, <2>6
  <2> QED
    BY <2>2, <2>4, <2>6, <2>7
<1> HIDE DEF order
<1>3. PICK k \in 1 .. 11 : n = Order[k]
  BY <1>1 DEF ToSet
<1>4. CASE n = "evaluate"
  BY <1>4, Edges DEF NextNode
<1>5. CASE n # "evaluate"
  <2>1. k - 1 \in 1 .. 10 /\ order[k - 1] = n
    BY <1>1, <1>2, <1>3, <1>5
  <2>2. \A j \in 1 .. 10 : order[j] = n => j = k - 1
    <3>1. \A j \in 1 .. 10 : order[j] = n => Order[j + 1] = Order[k] /\ j + 1 \in 1 .. 11
      BY <1>2, <1>3
    <3>2. \A j \in 1 .. 11 : Order[j] = Order[k] => j = k
      BY <1>1
    <3> QED
      BY <3>1, <3>2
  <2>3. (CHOOSE j \in DOMAIN order : order[j] = n) = k - 1
    BY <1>2, <2>1, <2>2
  <2>4. NextNode(n) = IF k - 1 < 10 THEN order[k] ELSE None
    <3> DEFINE place == CHOOSE k_1 \in DOMAIN order : order[k_1] = n
    <3>1. NextNode(n) = IF place < Len(order) THEN order[place + 1] ELSE None
      BY <1>5 DEF NextNode, order
    <3>2. place = k - 1
      BY <2>3
    <3> HIDE DEF place
    <3> QED
      BY <1>2, <2>1, <3>1, <3>2
  <2>5. k - 1 < 10 => order[k] = Order[k + 1]
    BY <1>2, <2>1
  <2>6. n = "select_candidates" <=> k = 11
    BY <1>1, <1>3
  <2>7. k # 11 => After(n) = Order[1 + k]
    <3>1. Place(n) = k
      BY <1>3, PlaceOfNode
    <3>2. After(n) = IF n = "evaluate" /\ AcceptedCount = 0 THEN "aggregate"
                     ELSE IF n = "select_candidates" THEN "end" ELSE Order[1 + Place(n)]
      BY DEF After, Place
    <3> QED
      BY <1>5, <2>6, <3>1, <3>2
  <2> QED
    BY <2>4, <2>5, <2>6, <2>7
<1> QED
  BY <1>4, <1>5

----------------------------------------------------------------------------
(* The locals of an extraction: what each call may leave.                  *)

Fields == {"batch", "phase", "tries", "part", "recovery", "ok", "found", "errors", "partFound", "partErrors"}

\* Locals that are typed and, in a split, have room for the rest of its batch.
Sound(x) ==
    /\ DOMAIN x = Fields
    /\ x.phase \in {"initial", "retry", "split"}
    /\ x.batch \in Nat /\ x.ok \in Nat /\ x.tries \in Nat /\ x.part \in Nat
    /\ x.recovery \in 0 .. MaxRecovery
    /\ x.phase = "split" =>
          /\ x.batch = ext.batch /\ BatchLength > PartSize
          /\ x.recovery + Parts(BatchLength, PartSize) - x.part <= MaxRecovery

LEMMA ExtSound ==
    ASSUME IInv
    PROVE  Sound(ext) /\ BatchLength \in Int
<1>1. DOMAIN ext = Fields
  BY DEF IInv, NoWork, Fields
<1>2. BatchLength \in Int
  BY CountTyped, SizeTyped, ScreeningAssumption DEF IInv, TypeOK, BatchLength
<1> QED
  BY <1>1, <1>2 DEF IInv, TypeOK, SplitFits, Sound

LEMMA NextBatchSound ==
    ASSUME IInv, NEW x, Sound(x), NEW found, NEW errors
    PROVE  Sound(NextBatch(x)) /\ Sound(Keep(x, found, errors)) /\ Sound(Lose(x, errors))
<1>1. /\ Sound(NextBatch(x)) /\ NextBatch(x).phase = "initial"
  BY DEF Sound, NextBatch, Fields
<1> HIDE DEF NextBatch
<1>2. Sound(Keep(x, found, errors))
  BY <1>1 DEF Sound, Keep, Fields
<1>3. Sound(Lose(x, errors))
  BY <1>1 DEF Sound, Lose, Fields
<1> QED
  BY <1>1, <1>2, <1>3

\* The parts of a batch that is longer than one of them.
LEMMA PartsOfBatch ==
    ASSUME IInv, BatchLength > PartSize
    PROVE  Parts(BatchLength, PartSize) \in Nat /\ Parts(BatchLength, PartSize) >= 1
<1>1. PartSize \in Nat \ {0} /\ BatchLength \in Nat /\ BatchLength # 0
  BY ExtSound, ScreeningAssumption
<1> QED
  BY <1>1, PartsTyped

LEMMA PartEndsSound ==
    ASSUME IInv, NEW x, Sound(x), x.phase = "split", NEW inferences, NEW errors
    PROVE  Sound(PartEnds(x, inferences, errors))
<1> DEFINE found == x.partFound \o inferences
           missed == x.partErrors \o errors
           next == [x EXCEPT !.part = @ + 1, !.recovery = @ + 1, !.partFound = found, !.partErrors = missed]
<1>1. Parts(BatchLength, PartSize) \in Nat
  BY PartsOfBatch DEF Sound
<1>2. ASSUME x.part < Parts(BatchLength, PartSize) PROVE Sound(next)
  <2> HIDE DEF found, missed
  <2>1. DOMAIN next = Fields
    BY DEF Sound
  <2>2. /\ next.part = x.part + 1 /\ next.recovery = x.recovery + 1 /\ next.batch = x.batch
        /\ next.phase = x.phase /\ next.ok = x.ok /\ next.tries = x.tries
    BY DEF Sound, Fields
  <2> HIDE DEF next
  <2>3. PICK q \in Nat, r \in Nat, m \in Nat, k \in Nat :
           /\ q = Parts(BatchLength, PartSize) /\ r = x.recovery /\ m = MaxRecovery /\ k = x.part
           /\ k < q /\ r + q - k <= m
    <3>1. x.recovery \in Nat /\ x.part \in Nat /\ MaxRecovery \in Nat
      BY ScreeningAssumption DEF Sound
    <3>2. x.recovery + Parts(BatchLength, PartSize) - x.part <= MaxRecovery
      BY DEF Sound
    <3> QED
      BY <1>1, <1>2, <3>1, <3>2
  <2>4. r + 1 \in 0 .. m /\ k + 1 \in Nat /\ r + 1 + q - (k + 1) <= m
    BY <2>3
  <2> QED
    BY <2>1, <2>2, <2>3, <2>4 DEF Sound
<1> HIDE DEF next, found, missed
<1>3. PartEnds(x, inferences, errors) =
          IF x.part < Parts(BatchLength, PartSize) THEN next
          ELSE IF found = <<>> THEN Lose(x, missed) ELSE Keep(x, found, missed)
  BY DEF PartEnds, next, found, missed
<1> QED
  BY <1>2, <1>3, NextBatchSound

LEMMA MissedSound ==
    ASSUME IInv, NEW error
    PROVE  Sound(Missed(ext, error))
<1> DEFINE retry == [ext EXCEPT !.phase = "retry", !.tries = @ + 1, !.recovery = @ + 1]
           split == [ext EXCEPT !.phase = "split", !.part = 1, !.recovery = @ + 1]
<1>1. Sound(ext) /\ BatchLength \in Int
  BY ExtSound
<1>2. ASSUME ext.recovery < MaxRecovery PROVE Sound(retry)
  <2>1. /\ DOMAIN retry = Fields
        /\ retry.phase = "retry" /\ retry.part = ext.part /\ retry.recovery = ext.recovery + 1
        /\ retry.batch = ext.batch /\ retry.ok = ext.ok /\ retry.tries = ext.tries + 1
    BY <1>1 DEF Sound, Fields
  <2>2. ext.recovery \in 0 .. MaxRecovery /\ ext.tries \in Nat /\ MaxRecovery \in Nat
    BY <1>1, ScreeningAssumption DEF Sound
  <2>3. ext.recovery + 1 \in 0 .. MaxRecovery /\ ext.tries + 1 \in Nat
    BY <1>2, <2>2
  <2> HIDE DEF retry
  <2> QED
    BY <1>1, <2>1, <2>3 DEF Sound
<1>3. ASSUME MaySplit(ext) PROVE Sound(split)
  <2>1. Parts(BatchLength, PartSize) \in Nat /\ Parts(BatchLength, PartSize) >= 1 /\ BatchLength > PartSize
    BY <1>3, PartsOfBatch DEF MaySplit
  <2>2. Parts(BatchLength, PartSize) <= MaxRecovery - ext.recovery
    BY <1>3 DEF MaySplit
  <2>3. /\ DOMAIN split = Fields
        /\ split.phase = "split" /\ split.part = 1 /\ split.recovery = ext.recovery + 1
        /\ split.batch = ext.batch /\ split.ok = ext.ok /\ split.tries = ext.tries
    BY <1>1 DEF Sound, Fields
  <2>4. PICK q \in Nat, r \in Nat, m \in Nat :
           q = Parts(BatchLength, PartSize) /\ r = ext.recovery /\ m = MaxRecovery /\ q >= 1 /\ q <= m - r
    <3>1. ext.recovery \in Nat /\ MaxRecovery \in Nat
      BY <1>1, ScreeningAssumption DEF Sound
    <3> QED
      BY <2>1, <2>2, <3>1
  <2>5. r + 1 \in 0 .. m /\ r + 1 + q - 1 <= m
    BY <2>4
  <2>6. ext.batch \in Nat /\ ext.ok \in Nat /\ ext.tries \in Nat
    BY <1>1 DEF Sound
  <2> HIDE DEF split
  <2> QED
    BY <2>1, <2>3, <2>4, <2>5, <2>6 DEF Sound
<1> QED
  BY <1>1, <1>2, <1>3, PartEndsSound, NextBatchSound DEF Missed

LEMMA AnsweredSound ==
    ASSUME IInv, NEW parsed
    PROVE  Sound(Answered(ext, parsed))
BY ExtSound, PartEndsSound, NextBatchSound DEF Answered

----------------------------------------------------------------------------
(* The batches of an extraction account for the accepted articles.         *)

LEMMA PartsReach ==
    ASSUME NEW n \in Nat, NEW size \in Nat \ {0}, NEW k \in Nat \ {0}
    PROVE  k <= Parts(n, size) <=> (k - 1) * size < n
<1> DEFINE m == n + size - 1
           q == m \div size
           r == m % size
<1>1. q \in Nat /\ r \in 0 .. size - 1 /\ m = size * q + r
  OBVIOUS
<1>2. Parts(n, size) = q
  BY DEF Parts
<1> HIDE DEF q, r
<1>3. ASSUME k <= q PROVE (k - 1) * size < n
  <2>1. (q - k) * size >= 0
    BY <1>1, <1>3
  <2>2. (k - 1) * size + (q - k) * size = size * q - size
    BY <1>1
  <2>3. (k - 1) * size \in Int /\ (q - k) * size \in Int
    BY <1>1
  <2>4. size * q \in Int /\ size * q <= n + size - 1
    BY <1>1
  <2> HIDE DEF m
  <2> QED
    BY <2>1, <2>2, <2>3, <2>4
<1>4. ASSUME k > q PROVE ~((k - 1) * size < n)
  <2>1. (k - 1 - q) * size >= 0
    BY <1>1, <1>4
  <2>2. (k - 1) * size = size * q + (k - 1 - q) * size
    BY <1>1
  <2>3. size * q \in Int /\ (k - 1 - q) * size \in Int /\ size * q >= n
    BY <1>1
  <2> QED
    BY <2>1, <2>2, <2>3
<1> QED
  BY <1>1, <1>2, <1>3, <1>4

LEMMA AcceptedIsList ==
    ASSUME input \in Inputs
    PROVE  /\ IsList(input) /\ IsList(Accepted) /\ Len(Accepted) = AcceptedCount
           /\ AcceptedCount \in Nat /\ AcceptedCount <= Len(input)
           /\ \A n \in DOMAIN Accepted : Accepted[n] \in DOMAIN Articles
<1> DEFINE S == {n \in DOMAIN input : Rejection(input[n]) = None}
<1>1. input \in Seq(DOMAIN Articles)
  BY ScreeningAssumption
<1>2. IsList(input) /\ ToSet(input) \subseteq DOMAIN Articles
  BY <1>1, SeqIsList
<1>3. S \in SUBSET DOMAIN input
  OBVIOUS
<1>4. Accepted = Picked(input, S) /\ AcceptedCount = Cardinality(S)
  BY DEF Accepted, AcceptedCount, Where, HowMany, Places
<1> HIDE DEF S
<1>5. /\ IsList(Picked(input, S)) /\ Len(Picked(input, S)) = Cardinality(S)
      /\ Cardinality(S) \in Nat /\ Cardinality(S) <= Len(input)
      /\ \A x : x \in ToSet(Picked(input, S)) <=> \E p \in S : x = input[p]
  BY <1>2, <1>3, PickedFromList
<1>6. \A n \in DOMAIN Accepted : Accepted[n] \in DOMAIN Articles
  <2> SUFFICES ASSUME NEW n \in DOMAIN Accepted PROVE Accepted[n] \in DOMAIN Articles
    OBVIOUS
  <2>1. Accepted[n] \in ToSet(Picked(input, S))
    BY <1>4 DEF ToSet
  <2>2. PICK p \in S : Accepted[n] = input[p]
    BY <1>5, <2>1
  <2> QED
    BY <1>2, <1>3, <2>2 DEF ToSet
<1> QED
  BY <1>2, <1>4, <1>5, <1>6

LEMMA CutIsPiece ==
    ASSUME NEW s, IsList(s), NEW c \in Nat, NEW m \in Nat, c + m <= Len(s), NEW t, t = SubSeq(s, c + 1, c + m)
    PROVE  Piece(t, m, s, c)
<1> DEFINE f == c + 1
           l == c + m
<1>1. f = c + 1 /\ l = c + m
  OBVIOUS
<1>2. t = SubSeq(s, f, l)
  OBVIOUS
<1> HIDE DEF f, l
<1> QED
  BY <1>1, <1>2, Cut

\* Where the first n batches end.
Through(n) == Smaller(n * BatchSize, AcceptedCount)

\* The locals x of an extraction account for all articles of the earlier batches, and in a
\* split recovery for those of the earlier parts.
Accounted(x) ==
    /\ x.batch >= 1
    /\ Accounts(x.found, x.errors, Accepted, Through(x.batch - 1))
    /\ x.phase = "split" =>
          /\ BatchesLeft /\ x.part \in 1 .. Parts(BatchLength, PartSize)
          /\ Accounts(x.partFound, x.partErrors, Batch, (x.part - 1) * PartSize)
    /\ x.phase # "split" => x.partFound = <<>> /\ x.partErrors = <<>>

LEMMA BatchStands ==
    ASSUME IInv, Accounted(ext), BatchesLeft
    PROVE  /\ BatchLength \in 1 .. BatchSize /\ Through(ext.batch - 1) \in Nat
           /\ Piece(Batch, BatchLength, Accepted, Through(ext.batch - 1))
           /\ Through(ext.batch) = Through(ext.batch - 1) + BatchLength
           /\ \A n \in 1 .. BatchLength : Batch[n] \in DOMAIN Articles
<1> DEFINE b == ext.batch
           c == (b - 1) * BatchSize
           e == b * BatchSize
<1>1. b \in Nat \ {0} /\ BatchSize \in Nat \ {0}
  BY ScreeningAssumption DEF IInv, TypeOK, Accounted
<1>2. /\ IsList(Accepted) /\ Len(Accepted) = AcceptedCount /\ AcceptedCount \in Nat
      /\ \A n \in DOMAIN Accepted : Accepted[n] \in DOMAIN Articles
  BY AcceptedIsList DEF IInv
<1>3. b <= Parts(AcceptedCount, BatchSize)
  BY DEF BatchesLeft
<1>4. /\ Batch = SubSeq(Accepted, c + 1, Smaller(e, AcceptedCount))
      /\ BatchLength = Smaller(e, AcceptedCount) - c
      /\ Through(b - 1) = Smaller(c, AcceptedCount) /\ Through(b) = Smaller(e, AcceptedCount)
  BY <1>2 DEF Batch, BatchOf, BatchLength, SizeOf, Through
<1> HIDE DEF b
<1>5. c < AcceptedCount
  BY <1>1, <1>2, <1>3, PartsReach
<1>6. c \in Nat /\ e = c + BatchSize
  BY <1>1
<1> HIDE DEF c, e
<1>7. PICK m \in 1 .. BatchSize : Piece(Batch, m, Accepted, c) /\ c + m = Smaller(e, AcceptedCount)
  <2>1. PICK k \in Nat : k = c
    BY <1>6
  <2>2. PICK end \in Nat : end = Smaller(e, AcceptedCount)
    BY <1>1, <1>2, <1>6 DEF Smaller
  <2>3. k <= end /\ end <= AcceptedCount /\ end - k \in 1 .. BatchSize
    BY <1>1, <1>2, <1>5, <1>6, <2>1, <2>2 DEF Smaller
  <2>4. PICK m \in Nat : m = end - k
    BY <2>3
  <2>7. PICK s, t : s = Accepted /\ t = Batch
    OBVIOUS
  <2>5. IsList(s) /\ k + m <= Len(s) /\ t = SubSeq(s, k + 1, k + m)
    <3>1. k + m = end
      BY <2>4
    <3>2. t = SubSeq(s, k + 1, end)
      BY <1>4, <2>1, <2>2, <2>7
    <3> QED
      BY <1>2, <2>3, <2>7, <3>1, <3>2
  <2>8. Piece(t, m, s, k)
    BY <2>5, CutIsPiece
  <2> QED
    BY <2>1, <2>2, <2>3, <2>4, <2>7, <2>8
<1>8. BatchLength = m
  BY <1>4, <1>6, <1>7
<1>9. Through(b - 1) = c
  BY <1>2, <1>4, <1>5, <1>6 DEF Smaller
<1>10. Through(b) = c + m
  BY <1>4, <1>7
<1>11. ASSUME NEW n \in 1 .. m PROVE Batch[n] \in DOMAIN Articles
  <2>1. Batch[n] = Accepted[c + n]
    BY <1>7 DEF Piece
  <2>2. Smaller(e, AcceptedCount) <= AcceptedCount
    BY <1>1, <1>2, <1>6 DEF Smaller
  <2>3. c + n \in 1 .. AcceptedCount
    BY <1>1, <1>2, <1>6, <1>7, <2>2
  <2>4. DOMAIN Accepted = 1 .. AcceptedCount
    BY <1>2, ListIsSeq
  <2> QED
    BY <1>2, <2>1, <2>3, <2>4
<1> QED
  BY <1>6, <1>7, <1>8, <1>9, <1>10, <1>11 DEF b

\* k has turned to the batch after that of x and added this to what x found and lost.
TurnsWith(k, x, found, errors) ==
    /\ k.batch = x.batch + 1 /\ k.phase = "initial" /\ k.partFound = <<>> /\ k.partErrors = <<>>
    /\ k.found = x.found \o found /\ k.errors = x.errors \o errors

LEMMA KeepFields ==
    ASSUME NEW x, DOMAIN x = Fields, NEW found, NEW errors, NEW k, k = Keep(x, found, errors)
    PROVE  TurnsWith(k, x, found, errors)
<1> DEFINE n == NextBatch(x)
<1>1. /\ DOMAIN n = Fields /\ n.batch = x.batch + 1 /\ n.phase = "initial"
      /\ n.partFound = <<>> /\ n.partErrors = <<>> /\ n.found = x.found /\ n.errors = x.errors
  BY DEF NextBatch, Fields
<1>2. k = [n EXCEPT !.found = @ \o found, !.errors = @ \o errors, !.ok = @ + 1]
  BY DEF Keep
<1> HIDE DEF n
<1>3. /\ k.batch = x.batch + 1 /\ k.phase = "initial" /\ k.partFound = <<>> /\ k.partErrors = <<>>
      /\ k.found = x.found \o found /\ k.errors = x.errors \o errors
  BY <1>1, <1>2 DEF Fields
<1> QED
  BY <1>3 DEF TurnsWith

LEMMA LoseFields ==
    ASSUME NEW x, DOMAIN x = Fields, NEW errors, NEW l, l = Lose(x, errors)
    PROVE  /\ l.batch = x.batch + 1 /\ l.phase = "initial" /\ l.partFound = <<>> /\ l.partErrors = <<>>
           /\ l.found = x.found /\ l.errors = x.errors \o errors
<1> DEFINE n == NextBatch(x)
<1>1. /\ DOMAIN n = Fields /\ n.batch = x.batch + 1 /\ n.phase = "initial"
      /\ n.partFound = <<>> /\ n.partErrors = <<>> /\ n.found = x.found /\ n.errors = x.errors
  BY DEF NextBatch, Fields
<1>2. l = [n EXCEPT !.errors = @ \o errors]
  BY DEF Lose
<1> HIDE DEF n
<1> QED
  BY <1>1, <1>2 DEF Fields

\* The batch ends with this to show for it.
LEMMA BatchAccounted ==
    ASSUME IInv, Accounted(ext), BatchesLeft, NEW found, NEW errors, Accounts(found, errors, Batch, BatchLength)
    PROVE  /\ Accounted(Keep(ext, found, errors))
           /\ found = <<>> => Accounted(Lose(ext, errors))
<1> DEFINE c == Through(ext.batch - 1)
           d == Through(ext.batch)
<1>1. BatchLength \in Nat /\ c \in Nat /\ Piece(Batch, BatchLength, Accepted, c) /\ d = c + BatchLength
  BY BatchStands, ScreeningAssumption
<1>2. Accounts(ext.found, ext.errors, Accepted, c)
  BY DEF Accounted
<1> HIDE DEF c
<1>3. Accounts(ext.found \o found, ext.errors \o errors, Accepted, d)
  <2>1. PICK k \in Nat : k = BatchLength
    BY <1>1
  <2>2. Piece(Batch, k, Accepted, c) /\ Accounts(found, errors, Batch, k) /\ d = c + k
    BY <1>1, <2>1
  <2> HIDE DEF d
  <2> QED
    BY <1>1, <1>2, <2>2, AccountsMore
<1>4. Sound(ext) /\ ext.batch \in Nat /\ ext.batch + 1 - 1 = ext.batch
  BY ExtSound DEF Sound
<1>5. DOMAIN ext = Fields
  BY <1>4 DEF Sound
<1>6. Accounted(Keep(ext, found, errors))
  <2>0. PICK x, k : x = ext /\ k = Keep(x, found, errors)
    OBVIOUS
  <2>5. TurnsWith(k, x, found, errors)
    <3>1. DOMAIN x = Fields
      BY <1>5, <2>0
    <3>2. k = Keep(x, found, errors)
      BY <2>0
    <3> QED
      BY <3>1, <3>2, KeepFields
  <2>1. /\ k.batch = ext.batch + 1 /\ k.phase = "initial" /\ k.partFound = <<>> /\ k.partErrors = <<>>
        /\ k.found = ext.found \o found /\ k.errors = ext.errors \o errors
    BY <2>0, <2>5 DEF TurnsWith
  <2>2. Accounted(k)
    BY <1>3, <1>4, <2>1 DEF Accounted
  <2> QED
    BY <2>0, <2>2
<1>7. ASSUME found = <<>> PROVE Accounted(Lose(ext, errors))
  <2>0. PICK k : k = Lose(ext, errors)
    OBVIOUS
  <2>1. /\ k.batch = ext.batch + 1 /\ k.phase = "initial" /\ k.partFound = <<>> /\ k.partErrors = <<>>
        /\ k.found = ext.found /\ k.errors = ext.errors \o errors
    BY <1>5, <2>0, LoseFields
  <2>2. ext.found \in Seq(ToSet(ext.found))
    BY <1>2, ListIsSeq DEF Accounts
  <2>3. ext.found \o found = ext.found
    BY <1>7, <2>2, ConcatEmptySeq
  <2>4. Accounted(k)
    BY <1>3, <1>4, <2>1, <2>3 DEF Accounted
  <2> QED
    BY <2>0, <2>4
<1> QED
  BY <1>6, <1>7

LEMMA PartStands ==
    ASSUME IInv, Accounted(ext), ext.phase = "split"
    PROVE  \E c \in Nat, m \in 1 .. BatchSize :
              /\ c = (ext.part - 1) * PartSize /\ Piece(Attempted, m, Batch, c)
              /\ IF ext.part < Parts(BatchLength, PartSize) THEN c + m = ext.part * PartSize ELSE c + m = BatchLength
              /\ \A n \in 1 .. m : Attempted[n] \in DOMAIN Articles
<1> DEFINE b == ext.part
           c == (b - 1) * PartSize
           e == b * PartSize
           parts == Parts(BatchLength, PartSize)
<1>1. /\ BatchesLeft /\ b \in 1 .. parts /\ PartSize \in Nat \ {0} /\ BatchSize \in Nat
  BY ScreeningAssumption DEF Accounted
<1>2. /\ BatchLength \in 1 .. BatchSize /\ Piece(Batch, BatchLength, Accepted, Through(ext.batch - 1))
      /\ \A n \in 1 .. BatchLength : Batch[n] \in DOMAIN Articles
  BY <1>1, BatchStands
<1>3. IsList(Batch) /\ Len(Batch) = BatchLength
  BY <1>2 DEF Piece
<1>4. PICK size \in Nat : size = BatchLength
  BY <1>1, <1>2
<1>5. parts \in Nat /\ (b <= parts <=> (b - 1) * PartSize < size)
  <2>1. Parts(size, PartSize) \in Nat
    BY <1>1, PartsTyped
  <2>2. b \in Nat \ {0}
    BY <1>1
  <2>3. b <= Parts(size, PartSize) <=> (b - 1) * PartSize < size
    BY <1>1, <2>2, PartsReach
  <2> QED
    BY <1>4, <2>1, <2>3
<1>6. b < parts <=> e < size
  <2>1. b \in Nat \ {0} /\ b + 1 \in Nat \ {0} /\ b + 1 - 1 = b
    BY <1>1
  <2>2. PICK k \in Nat \ {0} : k = b + 1
    BY <2>1
  <2>3. k <= Parts(size, PartSize) <=> (k - 1) * PartSize < size
    BY <1>1, PartsReach
  <2>4. k - 1 = b
    BY <2>1, <2>2
  <2> QED
    BY <1>1, <1>4, <1>5, <2>1, <2>2, <2>3, <2>4
<1>7. Attempted = SubSeq(Batch, c + 1, Smaller(e, size))
  BY <1>3, <1>4 DEF Attempted, BatchOf
<1>8. c \in Nat /\ e = c + PartSize /\ c < size
  <2>1. b \in Nat \ {0}
    BY <1>1
  <2> QED
    BY <1>1, <1>5, <2>1
<1> HIDE DEF b, c, e, parts
<1>9. PICK k \in Nat : k = c
  BY <1>8
<1>10. PICK end \in Nat : end = Smaller(e, size)
  BY <1>1, <1>4, <1>8 DEF Smaller
<1>11. k <= end /\ end <= size /\ end - k \in 1 .. PartSize /\ (IF e < size THEN end = e ELSE end = size)
  BY <1>1, <1>4, <1>8, <1>9, <1>10 DEF Smaller
<1>12. PICK m \in Nat : m = end - k
  BY <1>11
<1>13. PICK s, t : s = Batch /\ t = Attempted
  OBVIOUS
<1>14. IsList(s) /\ k + m <= Len(s) /\ t = SubSeq(s, k + 1, k + m)
  <2>1. k + m = end
    BY <1>12
  <2>2. t = SubSeq(s, k + 1, end)
    BY <1>7, <1>9, <1>10, <1>13
  <2>3. IsList(s) /\ Len(s) = size
    BY <1>3, <1>4, <1>13
  <2> QED
    BY <1>11, <2>1, <2>2, <2>3
<1>15. Piece(t, m, s, k)
  BY <1>14, CutIsPiece
<1>16. \A n \in 1 .. m : Attempted[n] \in DOMAIN Articles
  <2> SUFFICES ASSUME NEW n \in 1 .. m PROVE Attempted[n] \in DOMAIN Articles
    OBVIOUS
  <2>1. t[n] = s[k + n]
    BY <1>15 DEF Piece
  <2>2. k + n \in 1 .. size
    BY <1>4, <1>11, <1>12
  <2> QED
    BY <1>2, <1>4, <1>13, <2>1, <2>2
<1>17. IF b < parts THEN k + m = e ELSE k + m = size
  BY <1>6, <1>11, <1>12
<1>18. m \in 1 .. BatchSize
  BY <1>1, <1>2, <1>4, <1>11, <1>12
<1> QED
  BY <1>4, <1>9, <1>13, <1>15, <1>16, <1>17, <1>18 DEF b, c, e, parts

\* A part ends with this to show for it.
LEMMA PartAccounted ==
    ASSUME IInv, Accounted(ext), ext.phase = "split", NEW inferences, NEW errors,
           Accounts(inferences, errors, Attempted, Len(Attempted))
    PROVE  Accounted(PartEnds(ext, inferences, errors))
<1> DEFINE found == ext.partFound \o inferences
           missed == ext.partErrors \o errors
           parts == Parts(BatchLength, PartSize)
           next == [ext EXCEPT !.part = @ + 1, !.recovery = @ + 1, !.partFound = found, !.partErrors = missed]
<1>1. PICK c \in Nat, m \in 1 .. BatchSize :
         /\ c = (ext.part - 1) * PartSize /\ Piece(Attempted, m, Batch, c)
         /\ IF ext.part < parts THEN c + m = ext.part * PartSize ELSE c + m = BatchLength
  BY PartStands
<1>2. m \in Nat /\ Len(Attempted) = m
  BY <1>1, ScreeningAssumption DEF Piece
<1>3. /\ BatchesLeft /\ ext.part \in 1 .. parts /\ ext.phase = "split" /\ ext.batch >= 1
      /\ Accounts(ext.partFound, ext.partErrors, Batch, c)
      /\ Accounts(ext.found, ext.errors, Accepted, Through(ext.batch - 1))
  BY <1>1 DEF Accounted
<1>4. PICK d \in Nat : d = c + m
  BY <1>2
<1>5. Accounts(found, missed, Batch, d)
  <2>1. Accounts(inferences, errors, Attempted, m)
    BY <1>2
  <2> QED
    BY <1>1, <1>2, <1>3, <1>4, <2>1, AccountsMore
<1>6. Sound(ext)
  BY ExtSound
<1> HIDE DEF found, missed
<1>7. ASSUME ext.part < parts PROVE Accounted(next)
  <2>1. /\ next.part = ext.part + 1 /\ next.phase = "split" /\ next.batch = ext.batch
        /\ next.found = ext.found /\ next.errors = ext.errors
        /\ next.partFound = found /\ next.partErrors = missed
    BY <1>3, <1>6 DEF Sound, Fields
  <2> HIDE DEF next
  <2>2. parts \in Nat
    BY <1>6, PartsOfBatch DEF Sound
  <2>3. next.part \in 1 .. parts /\ next.part - 1 = ext.part
    BY <1>3, <1>7, <2>1, <2>2
  <2>4. Accounts(found, missed, Batch, (next.part - 1) * PartSize)
    BY <1>1, <1>4, <1>5, <1>7, <2>3
  <2> QED
    BY <1>3, <2>1, <2>3, <2>4 DEF Accounted
<1>8. ASSUME ~(ext.part < parts) PROVE Accounts(found, missed, Batch, BatchLength)
  BY <1>1, <1>4, <1>5, <1>8
<1> HIDE DEF next, parts
<1>9. PartEnds(ext, inferences, errors) =
          IF ext.part < parts THEN next ELSE IF found = <<>> THEN Lose(ext, missed) ELSE Keep(ext, found, missed)
  BY DEF PartEnds, next, found, missed, parts
<1>10. ASSUME ~(ext.part < parts)
       PROVE  Accounted(Keep(ext, found, missed)) /\ (found = <<>> => Accounted(Lose(ext, missed)))
  BY <1>3, <1>8, <1>10, BatchAccounted
<1> QED
  BY <1>7, <1>9, <1>10

----------------------------------------------------------------------------
(* The ways a step can end.                                                *)

\* A node completes: the next one starts afresh.
LEMMA CompleteKeeps ==
    ASSUME IInv, outcome.status = "running", node \in ToSet(Order), NEW f, Complete(f),
           used' \in 0 .. MaxRequests
    PROVE  IInv'
<1>1. input' = input /\ attempt' = 1 /\ ext' = NoWork /\ asked' = NotAsked /\ node' = After(node)
  BY DEF Complete
<1>2. AcceptedCount' = AcceptedCount
  BY <1>1 DEF AcceptedCount, HowMany, Places
<1>3. outcome'.status \in {"running", "done"}
  BY DEF Complete, Running
<1>4. node' \in ToSet(Order) \cup {"end"} /\ (node' = "extract" => AcceptedCount # 0)
  BY <1>1, NodesOrdered
<1>5. /\ DOMAIN ext' = DOMAIN NoWork /\ ext'.recovery = 0 /\ ext'.phase = "initial" /\ ext'.batch = 1
      /\ ext'.ok = 0 /\ ext'.tries = 0 /\ ext'.part = 0 /\ asked'.handled = 0
  BY <1>1 DEF NoWork, NotAsked
<1>6. TypeOK'
  BY <1>1, <1>3, <1>4, <1>5, ScreeningAssumption DEF TypeOK, Attempts
<1>7. FailureIsExplained' /\ SplitFits' /\ AttemptsPaid'
  BY <1>1, <1>3, <1>5 DEF FailureIsExplained, SplitFits, AttemptsPaid
<1> QED
  BY <1>1, <1>2, <1>4, <1>5, <1>6, <1>7 DEF IInv

\* The execution fails, and the failure is explained.
LEMMA FailKeeps ==
    ASSUME IInv, NEW status \in {"raised", "retries_exhausted", "over_budget"}, NEW error, NEW stage,
           Fail(status, error, stage), used' \in 0 .. MaxRequests,
           status = "raised" => error \notin Retryable /\ stage = None,
           status = "retries_exhausted" =>
               attempt = Attempts /\ stage = node /\ error \in Retryable /\ used' >= Attempts,
           status = "over_budget" => used' = MaxRequests /\ stage = None
    PROVE  IInv'
<1>1. UNCHANGED <<input, node, attempt, ext>>
  BY DEF Fail
<1>2. outcome'.status = status /\ outcome'.error = error /\ outcome'.stage = stage
  BY DEF Fail, Running
<1>3. AcceptedCount' = AcceptedCount /\ (SplitFits' <=> SplitFits)
  BY <1>1 DEF AcceptedCount, HowMany, Places, SplitFits, BatchLength, Parts
<1> QED
  BY <1>1, <1>2, <1>3 DEF IInv, TypeOK, FailureIsExplained

\* A stage raises in an attempt it has claimed a request for.
LEMMA RaiseKeeps ==
    ASSUME IInv, outcome.status = "running", NEW type, NEW stage, stage = node, Raise(type, stage),
           used' \in 0 .. MaxRequests, used' >= attempt
    PROVE  IInv'
<1>1. CASE type \notin Retryable
  BY <1>1, FailKeeps DEF Raise
<1>2. CASE type \in Retryable /\ attempt = Attempts
  BY <1>2, FailKeeps DEF Raise
<1>3. CASE type \in Retryable /\ attempt # Attempts
  <2>1. /\ attempt' = attempt + 1 /\ ext' = NoWork /\ asked' = NotAsked
        /\ UNCHANGED <<input, node, outcome>>
    BY <1>3 DEF Raise
  <2>2. /\ DOMAIN ext' = DOMAIN NoWork /\ ext'.recovery = 0 /\ ext'.phase = "initial" /\ ext'.batch = 1
        /\ ext'.ok = 0 /\ ext'.tries = 0 /\ ext'.part = 0 /\ asked'.handled = 0
    BY <2>1 DEF NoWork, NotAsked
  <2>3. AcceptedCount' = AcceptedCount
    BY <2>1 DEF AcceptedCount, HowMany, Places
  <2>4. TypeOK'
    BY <1>3, <2>1, <2>2, ScreeningAssumption DEF IInv, TypeOK, Attempts
  <2>5. FailureIsExplained' /\ SplitFits' /\ AttemptsPaid'
    BY <2>1, <2>2 DEF IInv, TypeOK, Attempts, FailureIsExplained, SplitFits, AttemptsPaid
  <2> QED
    BY <2>1, <2>2, <2>3, <2>4, <2>5 DEF IInv
<1> QED
  BY <1>1, <1>2, <1>3

\* A batch is handled with a request of its own.
LEMMA HandleKeeps ==
    ASSUME IInv, outcome.status = "running", Claim, NEW size, NEW tally, NEW type, Handle(size, tally, type)
    PROVE  IInv'
<1>1. used' = used + 1 /\ used' \in 0 .. MaxRequests
  <2>1. used \in 0 .. MaxRequests /\ MaxRequests \in Nat
    BY ScreeningAssumption DEF IInv, TypeOK
  <2> QED
    BY <2>1 DEF Claim
<1>2. UNCHANGED <<input, node, attempt, ext, outcome>>
  BY DEF Handle
<1>3. AcceptedCount' = AcceptedCount /\ (SplitFits' <=> SplitFits)
  BY <1>2 DEF AcceptedCount, HowMany, Places, SplitFits, BatchLength, Parts
<1>4. TypeOK' /\ FailureIsExplained'
  BY <1>1, <1>2 DEF IInv, TypeOK, FailureIsExplained
<1>5. AttemptsPaid'
  BY <1>1, <1>2 DEF IInv, TypeOK, AttemptsPaid
<1> QED
  BY <1>2, <1>3, <1>4, <1>5 DEF IInv

----------------------------------------------------------------------------
(* The actions.                                                            *)

LEMMA ExtractBatchKeeps ==
    ASSUME IInv, ExtractBatch
    PROVE  IInv'
<1>1. used' = used + 1 /\ used' \in 0 .. MaxRequests /\ outcome.status = "running"
  BY ScreeningAssumption DEF ExtractBatch, Claim, At, IInv, TypeOK
<1>2. UNCHANGED <<input, node, attempt, asked, outcome>>
  BY DEF ExtractBatch
<1>3. \/ \E error : ext' = Missed(ext, error)
      \/ \E parsed : ext' = Answered(ext, parsed)
  <2>1. PICK batch :
           \/ \E type \in ErrorTypes : ext' = Missed(ext, Error("api_call", batch, type))
           \/ ext' = Missed(ext, Error("response_processing", batch, None))
           \/ \E items \in Answers(batch) : \E parsed \in {Parse(items, batch)} :
                 ext' = IF parsed = None THEN Missed(ext, Error("response_processing", batch, None))
                        ELSE Answered(ext, parsed)
    BY DEF ExtractBatch
  <2>2. CASE \E type \in ErrorTypes : ext' = Missed(ext, Error("api_call", batch, type))
    BY <2>2
  <2>3. CASE ext' = Missed(ext, Error("response_processing", batch, None))
    BY <2>3
  <2>4. ASSUME NEW parsed,
               ext' = IF parsed = None THEN Missed(ext, Error("response_processing", batch, None))
                      ELSE Answered(ext, parsed)
        PROVE  (\E error : ext' = Missed(ext, error)) \/ \E other : ext' = Answered(ext, other)
    BY <2>4
  <2> QED
    BY <2>1, <2>2, <2>3, <2>4
<1>4. Sound(ext')
  BY <1>3, MissedSound, AnsweredSound
<1>5. AcceptedCount' = AcceptedCount
  BY <1>2 DEF AcceptedCount, HowMany, Places
<1>6. ext'.phase = "split" => BatchLength' = BatchLength
  BY <1>4, <1>5 DEF Sound, BatchLength
<1>7. DOMAIN ext' = DOMAIN NoWork
  BY <1>4 DEF Sound, NoWork, Fields
<1>8. TypeOK'
  BY <1>1, <1>2, <1>4 DEF IInv, TypeOK, Sound
<1>9. SplitFits'
  BY <1>4, <1>6 DEF SplitFits, Sound
<1>10. FailureIsExplained' /\ AttemptsPaid'
  BY <1>1, <1>2 DEF IInv, TypeOK, FailureIsExplained, AttemptsPaid
<1> QED
  BY <1>2, <1>5, <1>7, <1>8, <1>9, <1>10 DEF IInv

\* An extraction that fails has asked at least once in this attempt: it had a batch.
LEMMA ExtractFailsKeeps ==
    ASSUME IInv, ExtractFails
    PROVE  IInv'
<1>1. node = "extract" /\ outcome.status = "running" /\ used' = used
  BY DEF ExtractFails, At
<1>2. AcceptedCount \in Nat /\ AcceptedCount # 0 /\ BatchSize \in Nat \ {0}
  BY <1>1, CountTyped, ScreeningAssumption DEF IInv
<1>3. ext.batch \in Nat /\ ext.batch # 1
  BY <1>2, PartsTyped DEF ExtractFails, BatchesLeft, IInv, TypeOK
<1>4. used' \in 0 .. MaxRequests /\ used' >= attempt
  BY <1>1, <1>3 DEF IInv, TypeOK, AttemptsPaid
<1>5. PICK type : Raise(type, "extract")
  BY DEF ExtractFails
<1> QED
  BY <1>1, <1>4, <1>5, RaiseKeeps

\* The nodes that complete without a call.
LEMMA ComputingKeeps ==
    ASSUME IInv, NEW n \in ToSet(Order), At(n), NEW f, Complete(f), UNCHANGED used
    PROVE  IInv'
<1>1. used' \in 0 .. MaxRequests
  BY DEF IInv, TypeOK
<1> QED
  BY <1>1, CompleteKeeps DEF At

LEMMA NodesNamed ==
    {"evaluate", "extract", "deduplicate", "screen", "cross_validate", "resolve", "analyze", "aggregate",
     "score", "recommend", "select_candidates"} \subseteq ToSet(Order)
<1>1. ASSUME NEW k \in 1 .. 11 PROVE Order[k] \in ToSet(Order)
  BY DEF ToSet, Order
<1>2. /\ Order[1] = "evaluate" /\ Order[2] = "extract" /\ Order[3] = "deduplicate" /\ Order[4] = "screen"
      /\ Order[5] = "cross_validate" /\ Order[6] = "resolve" /\ Order[7] = "analyze"
      /\ Order[8] = "aggregate" /\ Order[9] = "score" /\ Order[10] = "recommend"
      /\ Order[11] = "select_candidates"
  BY DEF Order
<1> QED
  BY <1>1, <1>2

LEMMA DeduplicateKeeps ==
    ASSUME IInv, Deduplicate
    PROVE  IInv'
<1>1. node = "deduplicate" /\ outcome.status = "running" /\ used' = used + 1 /\ used' \in 0 .. MaxRequests
  <2>1. At("deduplicate") /\ Claim
    BY DEF Deduplicate
  <2> QED
    BY <2>1, ScreeningAssumption DEF At, Claim, IInv, TypeOK
<1>2. CASE \E type \in ErrorTypes : Raise(type, "deduplicate")
  <2>1. used' >= attempt
    BY <1>1 DEF IInv, TypeOK, AttemptsPaid
  <2> QED
    BY <1>1, <1>2, <2>1, RaiseKeeps
<1>3. CASE Fail("raised", "StructuredOutputResponseError", None)
  BY <1>1, <1>3, FailKeeps DEF Retryable
<1>4. CASE \E kept \in 1 .. Cardinality(EventIds(flow.inferences)) : Complete([flow EXCEPT !.events = kept])
  BY <1>1, <1>4, CompleteKeeps, NodesNamed
<1> QED
  BY <1>2, <1>3, <1>4 DEF Deduplicate

LEMMA ScreenKeeps ==
    ASSUME IInv, ScreenRefuses \/ ScreenEvents \/ ScreenFails \/ ScreenEnds
    PROVE  IInv'
<1>1. node = "screen" /\ outcome.status = "running" /\ used \in 0 .. MaxRequests
  BY DEF ScreenRefuses, ScreenEvents, ScreenFails, ScreenEnds, At, IInv, TypeOK
<1>2. CASE ScreenRefuses
  BY <1>1, <1>2, FailKeeps DEF ScreenRefuses, Retryable
<1>3. CASE ScreenEvents
  BY <1>1, <1>3, HandleKeeps DEF ScreenEvents
<1>4. CASE ScreenFails
  <2>1. asked.handled # 0 /\ used' = used
    BY <1>4 DEF ScreenFails
  <2>2. used' >= attempt
    BY <1>1, <2>1 DEF IInv, AttemptsPaid
  <2>3. PICK type : Raise(type, "screen")
    BY <1>4 DEF ScreenFails
  <2> QED
    BY <1>1, <2>1, <2>2, <2>3, RaiseKeeps
<1>5. CASE ScreenEnds
  <2>1. PICK f : Complete(f)
    BY <1>5 DEF ScreenEnds
  <2> QED
    BY <1>1, <1>5, <2>1, CompleteKeeps, NodesNamed DEF ScreenEnds
<1> QED
  BY <1>2, <1>3, <1>4, <1>5

LEMMA CrossValidateKeeps ==
    ASSUME IInv, CrossValidate \/ CrossValidationRefuses \/ CrossValidationFails \/ CrossValidationEnds
    PROVE  IInv'
<1>1. node = "cross_validate" /\ outcome.status = "running" /\ used \in 0 .. MaxRequests
  BY DEF CrossValidate, CrossValidationRefuses, CrossValidationFails, CrossValidationEnds, At, IInv, TypeOK
<1>2. CASE CrossValidate
  <2>1. used' = used + 1 /\ used' \in 0 .. MaxRequests
    BY <1>1, <1>2, ScreeningAssumption DEF CrossValidate, Claim
  <2>2. CASE \E type \in ErrorTypes \cap Retryable : Raise(type, "cross_validate")
    <3>1. used' >= attempt
      BY <1>1, <2>1 DEF IInv, TypeOK, AttemptsPaid
    <3> QED
      BY <1>1, <2>1, <2>2, <3>1, RaiseKeeps
  <2>3. CASE \E size, tally : Handle(size, tally, None)
    BY <1>1, <1>2, <2>3, HandleKeeps DEF CrossValidate
  <2> QED
    BY <1>2, <2>2, <2>3 DEF CrossValidate
<1>3. CASE CrossValidationFails
  BY <1>1, <1>3, FailKeeps DEF CrossValidationFails, Retryable
<1>4. CASE CrossValidationEnds
  BY <1>1, <1>4, CompleteKeeps, NodesNamed DEF CrossValidationEnds
<1>5. CASE CrossValidationRefuses
  BY <1>1, <1>5, FailKeeps DEF CrossValidationRefuses, Retryable
<1> QED
  BY <1>2, <1>3, <1>4, <1>5

LEMMA BudgetSpentKeeps ==
    ASSUME IInv, BudgetSpent
    PROVE  IInv'
<1>1. outcome.status = "running" /\ used' = used /\ used = MaxRequests
  BY ScreeningAssumption DEF BudgetSpent, WantsToAsk, At, IInv, TypeOK
<1> QED
  BY <1>1, FailKeeps DEF BudgetSpent, IInv, TypeOK

\* The invariant through every step.
LEMMA StepInv == IInv /\ [Next]_vars => IInv'
<1> SUFFICES ASSUME IInv, [Next]_vars PROVE IInv'
  OBVIOUS
<1>1. CASE UNCHANGED vars
  BY <1>1 DEF vars, IInv, TypeOK, FailureIsExplained, SplitFits, BatchLength, AttemptsPaid, AcceptedCount, HowMany, Places
<1>2. CASE ExtractEnds
  BY <1>2, ComputingKeeps, NodesNamed DEF ExtractEnds
<1>3. CASE NothingToCompare
  BY <1>3, ComputingKeeps, NodesNamed DEF NothingToCompare
<1>4. CASE Evaluate \/ Resolve \/ Analyze \/ Aggregate
  BY <1>4, ComputingKeeps, NodesNamed DEF Evaluate, Resolve, Analyze, Aggregate
<1>5. CASE Advise
  BY <1>5, ComputingKeeps, NodesNamed DEF Advise
<1> QED
  BY <1>1, <1>2, <1>3, <1>4, <1>5, ExtractBatchKeeps, ExtractFailsKeeps, DeduplicateKeeps, ScreenKeeps,
     CrossValidateKeeps, BudgetSpentKeeps DEF Next

LEMMA InitInv == Init => IInv
<1> SUFFICES ASSUME Init PROVE IInv
  OBVIOUS
<1>1. outcome.status = "running" /\ node = "evaluate" /\ attempt = 1 /\ used = 0 /\ input \in Inputs
  BY DEF Init, Running
<1>2. /\ DOMAIN ext = DOMAIN NoWork /\ ext.recovery = 0 /\ ext.phase = "initial" /\ ext.batch = 1
      /\ ext.ok = 0 /\ ext.tries = 0 /\ ext.part = 0 /\ asked.handled = 0
  BY DEF Init, NoWork, NotAsked
<1> QED
  BY <1>1, <1>2, NodesNamed, ScreeningAssumption
     DEF IInv, TypeOK, Attempts, FailureIsExplained, SplitFits, AttemptsPaid

----------------------------------------------------------------------------
(* The articles through an extraction.                                     *)

LEMMA AttemptStands ==
    ASSUME IInv, Accounted(ext), BatchesLeft
    PROVE  /\ IsList(Attempted) /\ Len(Attempted) \in 1 .. BatchSize /\ Len(Attempted) \in Nat
           /\ DOMAIN Attempted = 1 .. Len(Attempted)
           /\ \A n \in 1 .. Len(Attempted) : Attempted[n] \in DOMAIN Articles
           /\ ext.phase # "split" => Attempted = Batch /\ Len(Attempted) = BatchLength
<1>1. CASE ext.phase = "split"
  <2>1. PICK c \in Nat, m \in 1 .. BatchSize :
           Piece(Attempted, m, Batch, c) /\ \A n \in 1 .. m : Attempted[n] \in DOMAIN Articles
    BY <1>1, PartStands
  <2> QED
    BY <1>1, <2>1, ScreeningAssumption DEF Piece
<1>2. CASE ext.phase # "split"
  <2>1. Attempted = Batch
    BY <1>2 DEF Attempted
  <2>2. /\ BatchLength \in 1 .. BatchSize /\ Piece(Batch, BatchLength, Accepted, Through(ext.batch - 1))
        /\ \A n \in 1 .. BatchLength : Batch[n] \in DOMAIN Articles
    BY BatchStands
  <2> QED
    BY <2>1, <2>2, ScreeningAssumption DEF Piece
<1> QED
  BY <1>1, <1>2

LEMMA AnswersListed ==
    ASSUME IInv, Accounted(ext), BatchesLeft, NEW items \in Answers(Attempted)
    PROVE  \A n \in DOMAIN items : Listed(items[n])
<1>1. PICK m \in 1 .. BatchSize : m = Len(Attempted)
  BY AttemptStands
<1>2. Attempted \in [1 .. m -> DOMAIN Articles]
  <2>1. Attempted = [n \in 1 .. m |-> Attempted[n]] /\ \A n \in 1 .. m : Attempted[n] \in DOMAIN Articles
    BY <1>1, AttemptStands DEF IsList
  <2> QED
    BY <2>1
<1>3. \A batch \in [1 .. m -> DOMAIN Articles] :
         \A answer \in Answers(batch) : \A i \in DOMAIN answer : Listed(answer[i])
  BY AnswersAssumption
<1> QED
  BY <1>2, <1>3

\* A call that was in vain: the batch is tried again, split, or lost with an error.
LEMMA MissedAccounted ==
    ASSUME IInv, Accounted(ext), BatchesLeft, NEW type,
           NEW kind \in {"api_call", "response_processing"}
    PROVE  Accounted(Missed(ext, Error(kind, Attempted, type)))
<1> DEFINE e == Error(kind, Attempted, type)
           retry == [ext EXCEPT !.phase = "retry", !.tries = @ + 1, !.recovery = @ + 1]
           split == [ext EXCEPT !.phase = "split", !.part = 1, !.recovery = @ + 1]
<1>1. PICK m \in Nat : m = Len(Attempted) /\ DOMAIN Attempted = 1 .. m /\ IsList(Attempted)
  BY AttemptStands
<1>2. Accounts(<<>>, <<e>>, Attempted, m)
  <2>1. PICK t : t = Attempted
    OBVIOUS
  <2>2. Accounts(<<>>, <<Error(kind, t, type)>>, t, m)
    BY <1>1, <2>1, AccountsLost
  <2> QED
    BY <2>1, <2>2
<1> HIDE DEF e
<1>3. DOMAIN ext = Fields
  BY ExtSound DEF Sound
<1>4. CASE ext.phase = "split"
  BY <1>1, <1>2, <1>4, PartAccounted DEF Missed, e
<1>5. CASE ext.phase # "split"
  <2>1. /\ ext.batch >= 1 /\ ext.partFound = <<>> /\ ext.partErrors = <<>>
        /\ Accounts(ext.found, ext.errors, Accepted, Through(ext.batch - 1))
    BY <1>5 DEF Accounted
  <2>2. Accounted(retry)
    <3>1. /\ retry.phase = "retry" /\ retry.batch = ext.batch /\ retry.found = ext.found
          /\ retry.errors = ext.errors /\ retry.partFound = <<>> /\ retry.partErrors = <<>>
      BY <1>3, <2>1 DEF Fields
    <3> HIDE DEF retry
    <3> QED
      BY <2>1, <3>1 DEF Accounted
  <2>3. ASSUME MaySplit(ext) PROVE Accounted(split)
    <3>1. /\ split.phase = "split" /\ split.batch = ext.batch /\ split.part = 1
          /\ split.found = ext.found /\ split.errors = ext.errors
          /\ split.partFound = <<>> /\ split.partErrors = <<>>
      BY <1>3, <2>1 DEF Fields
    <3>2. 1 \in 1 .. Parts(BatchLength, PartSize)
      BY <2>3, PartsOfBatch DEF MaySplit
    <3>3. (1 - 1) * PartSize = 0
      BY ScreeningAssumption
    <3>4. Accounts(<<>>, <<>>, Batch, 0)
      BY AccountsNone
    <3> HIDE DEF split
    <3> QED
      BY <2>1, <3>1, <3>2, <3>3, <3>4 DEF Accounted
  <2>4. Accounted(Lose(ext, <<e>>))
    <3>1. Accounts(<<>>, <<e>>, Batch, BatchLength)
      BY <1>1, <1>2, <1>5, AttemptStands
    <3> QED
      BY <3>1, BatchAccounted
  <2> HIDE DEF retry, split
  <2>5. Missed(ext, e) = IF ext.tries < MaxRetries /\ ext.recovery < MaxRecovery THEN retry
                         ELSE IF MaySplit(ext) THEN split ELSE Lose(ext, <<e>>)
    BY <1>5 DEF Missed, retry, split
  <2> QED
    BY <2>2, <2>3, <2>4, <2>5 DEF e
<1> QED
  BY <1>4, <1>5

\* An answer that is accepted for the batch or for the part.
LEMMA AnsweredAccounted ==
    ASSUME IInv, Accounted(ext), BatchesLeft, NEW items \in Answers(Attempted),
           Parse(items, Attempted) # None
    PROVE  Accounted(Answered(ext, Parse(items, Attempted)))
<1> DEFINE p == Parse(items, Attempted)
<1>1. PICK m \in Nat : m = Len(Attempted) /\ DOMAIN Attempted = 1 .. m /\ IsList(Attempted)
  BY AttemptStands
<1>2. Accounts(p.inferences, p.errors, Attempted, m)
  <2>1. PICK t : t = Attempted
    OBVIOUS
  <2>2. \A n \in DOMAIN items : Listed(items[n])
    BY AnswersListed
  <2>3. Accounts(Parse(items, t).inferences, Parse(items, t).errors, t, m)
    BY <1>1, <2>1, <2>2, AccountsParsed
  <2> QED
    BY <2>1, <2>3
<1> HIDE DEF p
<1>3. CASE ext.phase = "split"
  <2>1. Accounted(PartEnds(ext, p.inferences, p.errors))
    BY <1>1, <1>2, <1>3, PartAccounted
  <2> QED
    BY <1>3, <2>1 DEF Answered, p
<1>4. CASE ext.phase # "split"
  <2>1. Accounts(p.inferences, p.errors, Batch, BatchLength)
    BY <1>1, <1>2, <1>4, AttemptStands
  <2>2. Accounted(Keep(ext, p.inferences, p.errors))
    BY <2>1, BatchAccounted
  <2> QED
    BY <1>4, <2>2 DEF Answered, p
<1> QED
  BY <1>3, <1>4

\* Nothing is extracted, and nothing is to be.
LEMMA FreshAccounts ==
    ASSUME input \in Inputs
    PROVE  Accounted(NoWork)
<1>1. /\ NoWork.batch = 1 /\ NoWork.phase = "initial" /\ NoWork.found = <<>> /\ NoWork.errors = <<>>
      /\ NoWork.partFound = <<>> /\ NoWork.partErrors = <<>>
  BY DEF NoWork
<1>2. Through(1 - 1) = 0
  <2>1. AcceptedCount \in Nat /\ (1 - 1) * BatchSize = 0
    BY CountTyped, ScreeningAssumption
  <2> QED
    BY <2>1 DEF Through, Smaller
<1>3. Accounts(<<>>, <<>>, Accepted, 0)
  BY AccountsNone
<1> QED
  BY <1>1, <1>2, <1>3 DEF Accounted

\* What x accounts for does not depend on the locals that it replaces.
LEMMA AccountedNext ==
    ASSUME UNCHANGED input, Accounted(ext'), ext'.phase = "split" => ext'.batch = ext.batch
    PROVE  Accounted(ext)'
<1>1. Accepted' = Accepted /\ AcceptedCount' = AcceptedCount
  BY DEF Accepted, AcceptedCount, Where, HowMany, Places
<1>2. Through(ext.batch - 1)' = Through(ext'.batch - 1)
  BY <1>1 DEF Through
<1>3. /\ ext'.batch >= 1 /\ Accounts(ext'.found, ext'.errors, Accepted, Through(ext'.batch - 1))
      /\ ext'.phase # "split" => ext'.partFound = <<>> /\ ext'.partErrors = <<>>
  BY DEF Accounted
<1>4. ASSUME ext'.phase = "split"
      PROVE  /\ BatchesLeft' /\ ext'.part \in 1 .. Parts(BatchLength, PartSize)'
             /\ Accounts(ext'.partFound, ext'.partErrors, Batch', (ext'.part - 1) * PartSize)
  <2>1. /\ BatchesLeft' <=> BatchesLeft
        /\ BatchLength' = BatchLength /\ Batch' = Batch
    BY <1>1, <1>4 DEF BatchesLeft, BatchLength, Batch
  <2>2. Parts(BatchLength, PartSize)' = Parts(BatchLength, PartSize)
    BY <2>1 DEF Parts
  <2> QED
    BY <1>4, <2>1, <2>2 DEF Accounted
<1>5. Accounts(ext'.found, ext'.errors, Accepted', Through(ext.batch - 1)')
  BY <1>1, <1>2, <1>3
<1> QED
  BY <1>3, <1>4, <1>5 DEF Accounted

LEMMA ExtractBatchAccounts ==
    ASSUME IInv, Accounted(ext), ExtractBatch
    PROVE  Accounted(ext)'
<1>1. BatchesLeft /\ UNCHANGED input
  BY DEF ExtractBatch
<1>2. \/ \E type \in ErrorTypes : ext' = Missed(ext, Error("api_call", Attempted, type))
      \/ ext' = Missed(ext, Error("response_processing", Attempted, None))
      \/ \E items \in Answers(Attempted) : \E parsed \in {Parse(items, Attempted)} :
            ext' = IF parsed = None THEN Missed(ext, Error("response_processing", Attempted, None))
                   ELSE Answered(ext, parsed)
  BY DEF ExtractBatch
<1>3. CASE \E type \in ErrorTypes : ext' = Missed(ext, Error("api_call", Attempted, type))
  <2>1. PICK type : ext' = Missed(ext, Error("api_call", Attempted, type))
    BY <1>3
  <2>2. Accounted(Missed(ext, Error("api_call", Attempted, type)))
    BY <1>1, MissedAccounted
  <2>3. Sound(ext')
    BY <2>1, MissedSound
  <2> QED
    BY <1>1, <2>1, <2>2, <2>3, AccountedNext DEF Sound
<1>4. CASE ext' = Missed(ext, Error("response_processing", Attempted, None))
  <2>2. Accounted(Missed(ext, Error("response_processing", Attempted, None)))
    BY <1>1, MissedAccounted
  <2>3. Sound(ext')
    BY <1>4, MissedSound
  <2> QED
    BY <1>1, <1>4, <2>2, <2>3, AccountedNext DEF Sound
<1>5. ASSUME NEW items \in Answers(Attempted), Parse(items, Attempted) # None,
             ext' = Answered(ext, Parse(items, Attempted))
      PROVE  Accounted(ext)'
  <2>1. Accounted(Answered(ext, Parse(items, Attempted)))
    BY <1>1, <1>5, AnsweredAccounted
  <2>2. Sound(ext')
    BY <1>5, AnsweredSound
  <2> QED
    BY <1>1, <1>5, <2>1, <2>2, AccountedNext DEF Sound
<1> QED
  BY <1>2, <1>3, <1>4, <1>5

LEMMA ExtractionAccounts ==
    ASSUME IInv, Accounted(ext), ~BatchesLeft
    PROVE  Accounts(ext.found, ext.errors, Accepted, Len(Accepted))
<1>1. Len(Accepted) = AcceptedCount /\ AcceptedCount \in Nat
  BY AcceptedIsList DEF IInv
<1>2. PICK k \in Nat \ {0} : k = ext.batch
  BY DEF IInv, TypeOK, Accounted
<1>3. ~(k <= Parts(AcceptedCount, BatchSize)) /\ BatchSize \in Nat \ {0}
  BY <1>2, ScreeningAssumption DEF BatchesLeft
<1>4. ~((k - 1) * BatchSize < AcceptedCount)
  BY <1>1, <1>3, PartsReach
<1>5. (k - 1) * BatchSize \in Int
  BY <1>3
<1>6. Through(k - 1) = AcceptedCount
  BY <1>1, <1>4, <1>5 DEF Through, Smaller
<1> QED
  BY <1>1, <1>2, <1>6 DEF Accounted

\* What ArticlesAccounted says of the inferences and errors of an extraction.
RunAccounts(s, inferences, errors) ==
    /\ \A a \in {b \in ToSet(s) : Rejection(b) = None} :
          LET occurrences == {n \in DOMAIN s : s[n] = a}
              found == {n \in DOMAIN inferences : inferences[n].article = a}
              lost == {n \in DOMAIN errors : /\ errors[n].kind \in {"api_call", "response_processing"}
                                             /\ a \in errors[n].articles}
          IN  /\ Cardinality(lost) <= Cardinality(occurrences)
              /\ IF found = {} THEN lost # {} ELSE Cardinality(found) = Cardinality(occurrences)
              /\ found # {} /\ lost # {} => FilingEvent(a) # None \/ Cardinality(occurrences) > 1
    /\ \A n \in DOMAIN inferences :
          LET inference == inferences[n] IN
          \A k \in DOMAIN inference.events :
              \/ inference.events[k] = FilingEvent(inference.article)
              \/ Grounded(inference.events[k].evidence, inference.article)

LEMMA AccountsOfRun ==
    /\ ArticlesAccounted <=>
          (node \notin {"evaluate", "extract"} => RunAccounts(input, flow.inferences, flow.errors))
    /\ ArticlesAccounted' <=>
          (node' \notin {"evaluate", "extract"} => RunAccounts(input', flow'.inferences, flow'.errors))
BY DEF ArticlesAccounted, RunAccounts

\* The occurrences of an article that is accepted are those among the accepted articles.
LEMMA OccurrencesAccepted ==
    ASSUME input \in Inputs, NEW a, Rejection(a) = None
    PROVE  Cardinality({n \in DOMAIN input : input[n] = a}) = Count(Accepted, {a})
<1> DEFINE S == {n \in DOMAIN input : Rejection(input[n]) = None}
<1>1. IsList(input) /\ S \in SUBSET DOMAIN input
  BY AcceptedIsList
<1>2. Accepted = Picked(input, S)
  BY DEF Accepted, Where, Places
<1>3. {p \in S : input[p] \in {a}} = {n \in DOMAIN input : input[n] = a}
  OBVIOUS
<1> HIDE DEF S
<1>4. Count(Picked(input, S), {a}) = Cardinality({p \in S : input[p] \in {a}})
  BY <1>1, PickedCount
<1> QED
  BY <1>2, <1>3, <1>4

\* The end of an extraction.
LEMMA ResultAccounts ==
    ASSUME IInv, Accounted(ext), ~BatchesLeft
    PROVE  RunAccounts(input, Augment(ext.found, Accepted), ext.errors)
<1>1. PICK s, f, e : s = Accepted /\ f = ext.found /\ e = ext.errors
  OBVIOUS
<1>2. PICK t : t = Augment(f, s)
  OBVIOUS
<1>3. IsList(s) /\ Accounts(f, e, s, Len(s))
  BY <1>1, AcceptedIsList, ExtractionAccounts DEF IInv
<1>4. input \in Seq(DOMAIN Articles) /\ IsList(input)
  BY ScreeningAssumption, AcceptedIsList DEF IInv
<1>5. IsList(t) /\ IsList(e)
  <2>1. IsList(f) /\ \A n \in DOMAIN f : Quoting(f[n], f[n].article)
    BY <1>3 DEF Accounts
  <2>2. PICK T : T = {p \in DOMAIN s : Kept(f, s[p])}
    OBVIOUS
  <2>3. IsList(Augment(f, s))
    BY <1>3, <2>1, <2>2, AugmentKeeps
  <2> QED
    BY <1>2, <1>3, <2>3 DEF Accounts
<1>6. ASSUME NEW a \in {b \in ToSet(input) : Rejection(b) = None}
      PROVE  LET occurrences == {n \in DOMAIN input : input[n] = a}
                 found == {n \in DOMAIN t : t[n].article = a}
                 lost == {n \in DOMAIN e : e[n].kind \in {"api_call", "response_processing"} /\ a \in e[n].articles}
             IN  /\ Cardinality(lost) <= Cardinality(occurrences)
                 /\ IF found = {} THEN lost # {} ELSE Cardinality(found) = Cardinality(occurrences)
                 /\ found # {} /\ lost # {} => FilingEvent(a) # None \/ Cardinality(occurrences) > 1
  <2> DEFINE occurrences == {n \in DOMAIN input : input[n] = a}
             found == {n \in DOMAIN t : t[n].article = a}
             lost == {n \in DOMAIN e : e[n].kind \in {"api_call", "response_processing"} /\ a \in e[n].articles}
  <2>1. a \in DOMAIN Articles /\ Rejection(a) = None
    BY <1>4, SeqIsList
  <2>2. Cardinality(occurrences) = Count(s, {a})
    BY <1>1, <2>1, OccurrencesAccepted DEF IInv
  <2>3. found \in SUBSET DOMAIN t /\ lost \in SUBSET DOMAIN e /\ occurrences \in SUBSET DOMAIN input
    OBVIOUS
  <2>4. Cardinality(found) = FoundOf(t, a) /\ Cardinality(lost) = LostOf(e, a)
    BY DEF FoundOf, LostOf, LostTo
  <2>5. occurrences # {}
    BY DEF ToSet
  <2> HIDE DEF occurrences, found, lost
  <2>6. found = {} <=> FoundOf(t, a) = 0
    BY <1>5, <2>3, <2>4, CountedPlaces
  <2>7. lost = {} <=> LostOf(e, a) = 0
    BY <1>5, <2>3, <2>4, CountedPlaces
  <2>8. Count(s, {a}) # 0
    BY <1>4, <2>2, <2>3, <2>5, CountedPlaces
  <2>9. /\ LostOf(e, a) <= Count(s, {a})
        /\ IF FoundOf(t, a) = 0 THEN Count(s, {a}) # 0 => LostOf(e, a) # 0
           ELSE FoundOf(t, a) = Count(s, {a})
        /\ FoundOf(t, a) # 0 /\ LostOf(e, a) # 0 => FilingEvent(a) # None \/ Count(s, {a}) > 1
    <3>1. /\ LostOf(e, a) <= Count(s, {a})
          /\ IF FoundOf(Augment(f, s), a) = 0 THEN Count(s, {a}) # 0 => LostOf(e, a) # 0
             ELSE FoundOf(Augment(f, s), a) = Count(s, {a})
          /\ FoundOf(Augment(f, s), a) # 0 /\ LostOf(e, a) # 0 => FilingEvent(a) # None \/ Count(s, {a}) > 1
      BY <1>3, <2>1, AugmentAccounts
    <3> QED
      BY <1>2, <3>1
  <2>10. /\ Cardinality(lost) <= Cardinality(occurrences)
         /\ IF found = {} THEN lost # {} ELSE Cardinality(found) = Cardinality(occurrences)
         /\ found # {} /\ lost # {} => FilingEvent(a) # None \/ Cardinality(occurrences) > 1
    BY <2>2, <2>4, <2>6, <2>7, <2>8, <2>9
  <2> QED
    BY <2>10 DEF occurrences, found, lost
<1>7. ASSUME NEW n \in DOMAIN t
      PROVE  \A k \in DOMAIN t[n].events :
                t[n].events[k] = FilingEvent(t[n].article) \/ Grounded(t[n].events[k].evidence, t[n].article)
  BY <1>2, <1>3, AugmentQuotes
<1>8. RunAccounts(input, t, e)
  BY <1>6, <1>7 DEF RunAccounts
<1> QED
  BY <1>1, <1>2, <1>8

\* Until the extraction ends, its locals account for the batches behind it; then the state
\* of the graph does for all articles.
AInv ==
    /\ Accounted(ext) /\ DOMAIN flow = DOMAIN NoFlow
    /\ node \in {"evaluate", "extract"} => flow = NoFlow
    /\ ArticlesAccounted

LEMMA StandsAccounted ==
    ASSUME IInv, AInv, UNCHANGED <<input, node, ext, flow>>
    PROVE  AInv'
<1>1. Accounted(ext)'
  BY AccountedNext DEF AInv
<1>2. ArticlesAccounted'
  BY AccountsOfRun DEF AInv
<1> QED
  BY <1>1, <1>2 DEF AInv

LEMMA RaiseAccounted ==
    ASSUME IInv, AInv, NEW type, NEW stage, Raise(type, stage)
    PROVE  AInv'
<1>1. UNCHANGED <<input, node, flow>> /\ (ext' = ext \/ ext' = NoWork)
  BY DEF Raise, Fail
<1>2. Accounted(ext)'
  <2>1. Accounted(ext') /\ (ext'.phase = "split" => ext'.batch = ext.batch)
    BY <1>1, FreshAccounts DEF AInv, IInv, NoWork
  <2> QED
    BY <1>1, <2>1, AccountedNext
<1>3. ArticlesAccounted'
  BY <1>1, AccountsOfRun DEF AInv
<1> QED
  BY <1>1, <1>2, <1>3 DEF AInv

LEMMA FreshAfter ==
    ASSUME IInv, NEW f, Complete(f)
    PROVE  Accounted(ext)'
<1>1. UNCHANGED input /\ ext' = NoWork
  BY DEF Complete
<1>2. Accounted(ext') /\ ext'.phase # "split"
  BY <1>1, FreshAccounts DEF IInv, NoWork
<1> QED
  BY <1>1, <1>2, AccountedNext

\* The nodes after the extraction leave what it found as it is.
LEMMA CompletesAccounted ==
    ASSUME IInv, AInv, NEW n \in ToSet(Order) \ {"evaluate", "extract"}, node = n, NEW f, Complete(f),
           DOMAIN f = DOMAIN NoFlow, f.inferences = flow.inferences, f.errors = flow.errors
    PROVE  AInv'
<1>1. UNCHANGED input /\ flow' = f /\ node' = After(n)
  BY DEF Complete
<1>2. node' \notin {"evaluate", "extract"}
  <2>1. n \in {"deduplicate", "screen", "cross_validate", "resolve", "analyze", "aggregate", "score",
               "recommend", "select_candidates"}
    BY DEF ToSet, Order
  <2> QED
    BY <1>1, <2>1, Edges
<1>3. ArticlesAccounted'
  BY <1>1, AccountsOfRun DEF AInv
<1> QED
  BY <1>1, <1>2, <1>3, FreshAfter DEF AInv

LEMMA EvaluateAccounted ==
    ASSUME IInv, AInv, Evaluate
    PROVE  AInv'
<1>1. node = "evaluate" /\ flow = NoFlow /\ Complete(flow)
  BY DEF Evaluate, At, AInv
<1>2. UNCHANGED <<input, flow>> /\ node' = IF AcceptedCount = 0 THEN "aggregate" ELSE "extract"
  BY <1>1, Edges DEF Complete
<1>3. ASSUME AcceptedCount = 0 PROVE RunAccounts(input, flow.inferences, flow.errors)
  <2>1. flow.inferences = <<>> /\ DOMAIN <<>> = {}
    BY <1>1, EmptyIsList DEF NoFlow
  <2>2. {b \in ToSet(input) : Rejection(b) = None} = {}
    <3> DEFINE S == {n \in DOMAIN input : Rejection(input[n]) = None}
    <3>1. IsList(input) /\ S \in SUBSET DOMAIN input /\ Cardinality(S) = 0
      BY <1>3, AcceptedIsList DEF IInv, AcceptedCount, HowMany, Places
    <3>2. \A n \in DOMAIN input : Rejection(input[n]) = None => n \in S
      OBVIOUS
    <3> HIDE DEF S
    <3>3. S = {}
      BY <3>1, CountedPlaces
    <3> QED
      BY <3>2, <3>3 DEF ToSet
  <2> QED
    BY <2>1, <2>2 DEF RunAccounts
<1>4. ArticlesAccounted'
  BY <1>2, <1>3, AccountsOfRun
<1> QED
  BY <1>1, <1>2, <1>4, FreshAfter DEF AInv

LEMMA ExtractEndsAccounted ==
    ASSUME IInv, AInv, ExtractEnds
    PROVE  AInv'
<1>1. node = "extract" /\ flow = NoFlow /\ ~BatchesLeft /\ Accounted(ext)
  BY DEF ExtractEnds, At, AInv
<1>2. PICK inferences : inferences = Augment(ext.found, Accepted)
  OBVIOUS
<1>3. PICK f : /\ Complete(f)
               /\ f = [flow EXCEPT !.inferences = inferences, !.errors = ext.errors, !.ok = ext.ok,
                                   !.events = EventsOf(inferences)]
  BY <1>2 DEF ExtractEnds
<1>4. f.inferences = inferences /\ f.errors = ext.errors /\ DOMAIN f = DOMAIN NoFlow
  BY <1>1, <1>3 DEF NoFlow
<1>5. UNCHANGED input /\ flow' = f /\ node' = "deduplicate"
  BY <1>1, <1>3, Edges DEF Complete
<1>6. RunAccounts(input, f.inferences, f.errors)
  BY <1>1, <1>2, <1>4, ResultAccounts
<1>7. ArticlesAccounted'
  BY <1>5, <1>6, AccountsOfRun
<1>8. Accounted(ext)'
  BY <1>3, FreshAfter
<1> QED
  BY <1>4, <1>5, <1>7, <1>8 DEF AInv

\* The later nodes write only what is theirs.
Later(f) ==
    \/ \E v : f = [flow EXCEPT !.events = v]
    \/ \E v, w, x, y : f = [flow EXCEPT !.passed = v, !.review = w, !.rejected = x, !.related = y]
    \/ \E v, w : f = [flow EXCEPT !.verified = v, !.unverified = w]
    \/ \E v, w : f = [flow EXCEPT !.resolved = v, !.refused = w]
    \/ \E v, w : f = [flow EXCEPT !.impacts = v, !.eligible = w]
    \/ \E v : f = [flow EXCEPT !.companies = v]
    \/ f = flow

LEMMA LaterAccounted ==
    ASSUME IInv, AInv, NEW n \in ToSet(Order) \ {"evaluate", "extract"}, node = n,
           NEW f, Complete(f), Later(f)
    PROVE  AInv'
<1>1. DOMAIN flow = DOMAIN NoFlow
  BY DEF AInv
<1>2. DOMAIN f = DOMAIN NoFlow /\ f.inferences = flow.inferences /\ f.errors = flow.errors
  BY <1>1 DEF Later, NoFlow
<1> QED
  BY <1>2, CompletesAccounted

LEMMA ArticlesStep == IInv /\ AInv /\ [Next]_vars => AInv'
<1> SUFFICES ASSUME IInv, AInv, [Next]_vars PROVE AInv'
  OBVIOUS
<1>1. CASE UNCHANGED vars
  BY <1>1, StandsAccounted DEF vars
<1>2. CASE ExtractBatch
  <2>1. Accounted(ext)' /\ UNCHANGED <<input, node, flow>>
    BY <1>2, ExtractBatchAccounts DEF ExtractBatch, AInv
  <2>2. ArticlesAccounted'
    BY <2>1, AccountsOfRun DEF AInv
  <2> QED
    BY <2>1, <2>2 DEF AInv
<1>3. ASSUME NEW status, NEW error, NEW stage, Fail(status, error, stage) PROVE AInv'
  BY <1>3, StandsAccounted DEF Fail
<1>4. ASSUME NEW size, NEW tally, NEW type, Handle(size, tally, type) PROVE AInv'
  BY <1>4, StandsAccounted DEF Handle
<1>5. CASE ExtractFails
  <2>1. PICK type : Raise(type, "extract")
    BY <1>5 DEF ExtractFails
  <2> QED
    BY <2>1, RaiseAccounted
<1>6. CASE Deduplicate
  <2>1. ASSUME NEW kept, Complete([flow EXCEPT !.events = kept]) PROVE AInv'
    <3>1. Later([flow EXCEPT !.events = kept]) /\ node = "deduplicate"
      BY <1>6 DEF Later, Deduplicate, At
    <3> QED
      BY <2>1, <3>1, LaterAccounted, NodesNamed
  <2> QED
    BY <1>3, <1>6, <2>1, RaiseAccounted DEF Deduplicate
<1>7. CASE NothingToCompare
  <2>1. PICK kept : Complete([flow EXCEPT !.events = kept])
    BY <1>7 DEF NothingToCompare
  <2>2. Later([flow EXCEPT !.events = kept]) /\ node = "deduplicate"
    BY <1>7 DEF Later, NothingToCompare, At
  <2> QED
    BY <2>1, <2>2, LaterAccounted, NodesNamed
<1>8. CASE ScreenRefuses \/ CrossValidationRefuses \/ CrossValidationFails \/ BudgetSpent
  BY <1>3, <1>8 DEF ScreenRefuses, CrossValidationRefuses, CrossValidationFails, BudgetSpent
<1>9. CASE ScreenEvents
  BY <1>4, <1>9 DEF ScreenEvents
<1>10. CASE ScreenFails
  <2>1. PICK type : Raise(type, "screen")
    BY <1>10 DEF ScreenFails
  <2> QED
    BY <2>1, RaiseAccounted
<1>11. CASE ScreenEnds
  <2>1. PICK f : /\ Complete(f)
                 /\ \E v, w, x, y : f = [flow EXCEPT !.passed = v, !.review = w, !.rejected = x, !.related = y]
    <3>1. PICK y : Complete([flow EXCEPT !.passed = asked.tally.good, !.review = asked.tally.middle,
                                         !.rejected = asked.tally.bad, !.related = y])
      BY <1>11 DEF ScreenEnds
    <3>2. PICK f : f = [flow EXCEPT !.passed = asked.tally.good, !.review = asked.tally.middle,
                                    !.rejected = asked.tally.bad, !.related = y]
      OBVIOUS
    <3>3. Complete(f)
      BY <3>1, <3>2
    <3> QED
      BY <3>2, <3>3
  <2>2. Later(f) /\ node = "screen"
    BY <1>11, <2>1 DEF Later, ScreenEnds, At
  <2> QED
    BY <2>1, <2>2, LaterAccounted, NodesNamed
<1>12. CASE CrossValidate
  <2>1. \/ \E type : Raise(type, "cross_validate")
        \/ \E size, tally : Handle(size, tally, None)
    BY <1>12 DEF CrossValidate
  <2> QED
    BY <1>4, <2>1, RaiseAccounted
<1>13. CASE CrossValidationEnds
  <2>1. PICK f : Complete(f) /\ \E v, w : f = [flow EXCEPT !.verified = v, !.unverified = w]
    BY <1>13 DEF CrossValidationEnds
  <2>2. Later(f) /\ node = "cross_validate"
    BY <1>13, <2>1 DEF Later, CrossValidationEnds, At
  <2> QED
    BY <2>1, <2>2, LaterAccounted, NodesNamed
<1>14. CASE Resolve
  <2>1. PICK f : Complete(f) /\ \E v, w : f = [flow EXCEPT !.resolved = v, !.refused = w]
    BY <1>14 DEF Resolve
  <2>2. Later(f) /\ node = "resolve"
    BY <1>14, <2>1 DEF Later, Resolve, At
  <2> QED
    BY <2>1, <2>2, LaterAccounted, NodesNamed
<1>15. CASE Analyze
  <2>1. PICK f : Complete(f) /\ \E v, w : f = [flow EXCEPT !.impacts = v, !.eligible = w]
    BY <1>15 DEF Analyze
  <2>2. Later(f) /\ node = "analyze"
    BY <1>15, <2>1 DEF Later, Analyze, At
  <2> QED
    BY <2>1, <2>2, LaterAccounted, NodesNamed
<1>16. CASE Aggregate
  <2>1. PICK f : Complete(f) /\ \E v : f = [flow EXCEPT !.companies = v]
    BY <1>16 DEF Aggregate
  <2>2. Later(f) /\ node = "aggregate"
    BY <1>16, <2>1 DEF Later, Aggregate, At
  <2> QED
    BY <2>1, <2>2, LaterAccounted, NodesNamed
<1>17. CASE Advise
  <2>1. PICK n \in {"score", "recommend", "select_candidates"} : At(n) /\ Complete(flow)
    BY <1>17 DEF Advise
  <2> QED
    BY <2>1, CompletesAccounted, NodesNamed DEF At, AInv
<1> QED
  BY <1>1, <1>2, <1>5, <1>6, <1>7, <1>8, <1>9, <1>10, <1>11, <1>12, <1>13, <1>14, <1>15, <1>16, <1>17,
     EvaluateAccounted, ExtractEndsAccounted DEF Next

LEMMA InitAccounted == Init => AInv
<1> SUFFICES ASSUME Init PROVE AInv
  OBVIOUS
<1>1. input \in Inputs /\ node = "evaluate" /\ ext = NoWork /\ flow = NoFlow
  BY DEF Init
<1> QED
  BY <1>1, FreshAccounts DEF AInv, ArticlesAccounted

----------------------------------------------------------------------------
(* What the progress events say.                                           *)

Pos(n) == IF n = "end" THEN 12 ELSE Place(n)

LEMMA Positions ==
    /\ Pos("evaluate") = 1 /\ Pos("extract") = 2 /\ Pos("deduplicate") = 3 /\ Pos("screen") = 4
    /\ Pos("cross_validate") = 5 /\ Pos("resolve") = 6 /\ Pos("analyze") = 7 /\ Pos("aggregate") = 8
    /\ Pos("score") = 9 /\ Pos("recommend") = 10 /\ Pos("select_candidates") = 11 /\ Pos("end") = 12
<1>1. /\ Order[1] = "evaluate" /\ Order[2] = "extract" /\ Order[3] = "deduplicate" /\ Order[4] = "screen"
      /\ Order[5] = "cross_validate" /\ Order[6] = "resolve" /\ Order[7] = "analyze"
      /\ Order[8] = "aggregate" /\ Order[9] = "score" /\ Order[10] = "recommend"
      /\ Order[11] = "select_candidates"
  BY DEF Order
<1>2. ASSUME NEW k \in 1 .. 11 PROVE Pos(Order[k]) = k
  <2>1. Order[k] # "end"
    BY <1>1
  <2> QED
    BY <2>1, PlaceOfNode DEF Pos
<1>3. Pos(Order[1]) = 1 /\ Pos(Order[2]) = 2 /\ Pos(Order[3]) = 3 /\ Pos(Order[4]) = 4
  BY <1>2
<1>4. Pos(Order[5]) = 5 /\ Pos(Order[6]) = 6 /\ Pos(Order[7]) = 7 /\ Pos(Order[8]) = 8
  BY <1>2
<1>5. Pos(Order[9]) = 9 /\ Pos(Order[10]) = 10 /\ Pos(Order[11]) = 11 /\ Pos("end") = 12
  BY <1>2 DEF Pos
<1> QED
  BY <1>1, <1>3, <1>4, <1>5

LEMMA OrderListed ==
    /\ \A n : n \in ToSet(Order) <=>
          n \in {"evaluate", "extract", "deduplicate", "screen", "cross_validate", "resolve", "analyze",
                 "aggregate", "score", "recommend", "select_candidates"}
    /\ \A n \in ToSet(Order) : Pos(n) \in 1 .. 11
<1>1. ASSUME NEW n \in ToSet(Order)
      PROVE  n \in {"evaluate", "extract", "deduplicate", "screen", "cross_validate", "resolve", "analyze",
                    "aggregate", "score", "recommend", "select_candidates"}
  BY DEF ToSet, Order
<1>2. \A n \in ToSet(Order) : Pos(n) \in 1 .. 11
  BY <1>1, Positions
<1> QED
  BY <1>1, <1>2, NodesNamed

\* A node is followed by the next one of the order, unless the middle is skipped.
LEMMA EdgesAdvance ==
    ASSUME NEW n \in ToSet(Order)
    PROVE  /\ Pos(After(n)) = IF n = "evaluate" /\ AcceptedCount = 0 THEN 8 ELSE Pos(n) + 1
           /\ After(n) = "end" <=> n = "select_candidates"
<1>1. n \in {"evaluate", "extract", "deduplicate", "screen", "cross_validate", "resolve", "analyze",
             "aggregate", "score", "recommend", "select_candidates"}
  BY OrderListed
<1>2. CASE n = "evaluate"
  BY <1>2, Edges, Positions
<1>3. CASE n # "evaluate"
  BY <1>1, <1>3, Edges, Positions
<1> QED
  BY <1>2, <1>3

\* Different events of the same article and place have one id.
LEMMA IdsOfEvents ==
    ASSUME NEW s, IsList(s), \A n \in DOMAIN s : IsList(s[n].events)
    PROVE  /\ EventsOf(s) \in Nat /\ Cardinality(EventIds(s)) \in Nat
           /\ Cardinality(EventIds(s)) <= EventsOf(s)
<1> DEFINE A == UNION {{n} \X DOMAIN s[n].events : n \in DOMAIN s}
           B == UNION {{i.article} \X DOMAIN i.events : i \in ToSet(s)}
           f == [x \in A |-> <<s[x[1]].article, x[2]>>]
           P == [n \in DOMAIN s |-> DOMAIN s[n].events]
<1>1. IsFiniteSet(A)
  <2>1. PICK N \in Nat : DOMAIN s = 1 .. N
    BY ListIsSeq
  <2>2. IsFiniteSet(DOMAIN s)
    BY <2>1, FS_Interval
  <2>3. \A n \in DOMAIN s : IsFiniteSet(P[n])
    <3> SUFFICES ASSUME NEW n \in DOMAIN s PROVE IsFiniteSet(P[n])
      OBVIOUS
    <3>1. PICK M \in Nat : DOMAIN s[n].events = 1 .. M
      BY ListIsSeq
    <3> QED
      BY <3>1, FS_Interval
  <2>4. A = UNION {{n} \X P[n] : n \in DOMAIN s}
    OBVIOUS
  <2> HIDE DEF P, A
  <2>5. IsFiniteSet(UNION {{n} \X P[n] : n \in DOMAIN s})
    BY <2>2, <2>3, PairsFinite
  <2> QED
    BY <2>4, <2>5
<1>2. \A x : x \in A <=> \E n \in DOMAIN s : \E k \in DOMAIN s[n].events : x = <<n, k>>
  OBVIOUS
<1>3. \A y : y \in B <=> \E n \in DOMAIN s : \E k \in DOMAIN s[n].events : y = <<s[n].article, k>>
  BY DEF ToSet
<1>4. f \in Surjection(A, B)
  <2>1. \A x \in A : f[x] \in B
    <3> SUFFICES ASSUME NEW x \in A PROVE f[x] \in B
      OBVIOUS
    <3>1. PICK n \in DOMAIN s, k \in UNION {DOMAIN s[m].events : m \in DOMAIN s} :
             k \in DOMAIN s[n].events /\ x = <<n, k>>
      BY <1>2
    <3> HIDE DEF A, B
    <3>2. f[x] = <<s[n].article, k>>
      BY <3>1
    <3> QED
      BY <1>3, <3>1, <3>2
  <2>2. \A y \in B : \E x \in A : f[x] = y
    <3> SUFFICES ASSUME NEW y \in B PROVE \E x \in A : f[x] = y
      OBVIOUS
    <3>1. PICK n \in DOMAIN s, k \in UNION {DOMAIN s[m].events : m \in DOMAIN s} :
             k \in DOMAIN s[n].events /\ y = <<s[n].article, k>>
      BY <1>3
    <3> HIDE DEF A, B
    <3> DEFINE x == <<n, k>>
    <3>2. x = <<n, k>> /\ x[1] = n /\ x[2] = k
      OBVIOUS
    <3> HIDE DEF x
    <3>3. x \in A
      BY <1>2, <3>1, <3>2
    <3>4. f[x] = <<s[n].article, k>>
      BY <3>2, <3>3
    <3> QED
      BY <3>1, <3>3, <3>4
  <2>3. f = [x \in A |-> f[x]]
    OBVIOUS
  <2> HIDE DEF A, B, f
  <2> QED
    BY <2>1, <2>2, <2>3 DEF Surjection
<1> HIDE DEF A, B, f
<1>5. Cardinality(A) \in Nat /\ IsFiniteSet(B) /\ Cardinality(B) <= Cardinality(A) /\ Cardinality(B) \in Nat
  BY <1>1, <1>4, FS_Surjection, FS_CardinalityType
<1> QED
  BY <1>5 DEF EventsOf, EventIds, A, B

\* What the extraction leaves: how many inferences, and of which articles.
LEMMA ResultStands ==
    ASSUME IInv, Accounted(ext), ~BatchesLeft, NEW t, t = Augment(ext.found, Accepted)
    PROVE  /\ IsList(t) /\ \A n \in DOMAIN t : IsList(t[n].events)
           /\ Len(t) <= AcceptedCount
           /\ {t[n].article : n \in DOMAIN t} \subseteq ToSet(Accepted)
           /\ Len(t) = Count(Accepted, {t[n].article : n \in DOMAIN t})
<1>1. PICK s, found, errors : s = Accepted /\ found = ext.found /\ errors = ext.errors
  OBVIOUS
<1>2. IsList(s) /\ Accounts(found, errors, s, Len(s)) /\ Len(s) = AcceptedCount
  BY <1>1, AcceptedIsList, ExtractionAccounts DEF IInv
<1>3. PICK T : T = {p \in DOMAIN s : Kept(found, s[p])}
  OBVIOUS
<1>4. IsList(found) /\ \A n \in DOMAIN found : Quoting(found[n], found[n].article)
  BY <1>2 DEF Accounts
<1>5. T \in SUBSET DOMAIN s /\ DOMAIN Augment(found, s) = DOMAIN Picked(s, T)
  BY <1>2, <1>3, <1>4, AugmentKeeps
<1>6. IsList(Augment(found, s))
  BY <1>2, <1>3, <1>4, AugmentKeeps
<1>7. \A n \in DOMAIN Picked(s, T) : Told(Augment(found, s)[n], Picked(s, T)[n])
  BY <1>2, <1>3, <1>4, AugmentKeeps
<1>8. t = Augment(found, s)
  BY <1>1
<1>9. /\ IsList(Picked(s, T)) /\ Len(Picked(s, T)) = Cardinality(T)
      /\ Cardinality(T) \in Nat /\ Cardinality(T) <= Len(s)
      /\ \A x : x \in ToSet(Picked(s, T)) <=> \E p \in T : x = s[p]
  BY <1>2, <1>5, PickedFromList
<1>10. Len(t) = Cardinality(T)
  <2>1. PICK n \in Nat : n = Len(t) /\ DOMAIN t = 1 .. n
    BY <1>6, <1>8, ListIsSeq
  <2>2. PICK m \in Nat : m = Cardinality(T) /\ DOMAIN Picked(s, T) = 1 .. m
    BY <1>9, ListIsSeq
  <2>3. 1 .. n = 1 .. m
    BY <1>5, <1>8, <2>1, <2>2
  <2>4. Cardinality(1 .. n) = n /\ Cardinality(1 .. m) = m
    BY UpTo
  <2> QED
    BY <2>1, <2>2, <2>3, <2>4
<1>11. \A n \in DOMAIN t : t[n].article = Picked(s, T)[n] /\ IsList(t[n].events)
  BY <1>5, <1>7, <1>8 DEF Told
<1>12. PICK X : X = {t[n].article : n \in DOMAIN t}
  OBVIOUS
<1>13. \A x : x \in X <=> \E p \in T : x = s[p]
  <2>1. \A x : x \in X <=> x \in ToSet(Picked(s, T))
    BY <1>5, <1>8, <1>11, <1>12 DEF ToSet
  <2> QED
    BY <1>9, <2>1
<1>14. T = {p \in DOMAIN s : s[p] \in X}
  BY <1>3, <1>13
<1>15. Cardinality(T) = Count(s, X)
  BY <1>14 DEF Count
<1>16. X \subseteq ToSet(s)
  BY <1>5, <1>13 DEF ToSet
<1> QED
  BY <1>1, <1>2, <1>6, <1>8, <1>9, <1>10, <1>11, <1>12, <1>15, <1>16

\* The event of extract accounts for every article once.
LEMMA AnalysesComplete ==
    ASSUME IInv, Accounted(ext), ~BatchesLeft, NEW f, f.inferences = Augment(ext.found, Accepted)
    PROVE  /\ Len(Analyses("extract", f)) = Len(input)
           /\ ToSet(Analyses("extract", f)) = ToSet(input)
<1> DEFINE found == [k \in DOMAIN f.inferences |-> f.inferences[k].article]
           S == {n \in DOMAIN input : Rejection(input[n]) = None}
<1>1. PICK t : t = f.inferences
  OBVIOUS
<1>2. PICK X : X = {t[n].article : n \in DOMAIN t}
  OBVIOUS
<1>3. IsList(t) /\ X \subseteq ToSet(Accepted) /\ Len(t) = Count(Accepted, X)
  BY <1>1, <1>2, ResultStands
<1>4. IsList(input) /\ S \in SUBSET DOMAIN input /\ Accepted = Picked(input, S)
  BY AcceptedIsList DEF IInv, Accepted, Where, Places
<1>5. X \subseteq ToSet(input) /\ \A a \in X : Rejection(a) = None
  <2>1. \A x : x \in ToSet(Picked(input, S)) <=> \E p \in S : x = input[p]
    <3> HIDE DEF S
    <3> QED
      BY <1>4, PickedFromList
  <2>2. \A a \in X : \E p \in S : a = input[p]
    BY <1>3, <1>4, <2>1
  <2>3. \A p \in S : p \in DOMAIN input /\ Rejection(input[p]) = None
    OBVIOUS
  <2>4. \A p \in DOMAIN input : input[p] \in ToSet(input)
    BY DEF ToSet
  <2> HIDE DEF S
  <2> QED
    BY <2>2, <2>3, <2>4
<1>6. IsList(found) /\ Len(found) = Len(t) /\ ToSet(found) = X
  <2>1. PICK N \in Nat : N = Len(t) /\ DOMAIN t = 1 .. N
    BY <1>3, ListIsSeq
  <2>2. PICK u : u = found
    OBVIOUS
  <2>3. u = [k \in 1 .. N |-> u[k]] /\ DOMAIN u = DOMAIN t /\ \A k \in DOMAIN t : u[k] = t[k].article
    BY <1>1, <2>1, <2>2
  <2>4. IsList(u) /\ Len(u) = N
    BY <2>3, FunctionIsList
  <2>5. ToSet(u) = X
    BY <1>2, <2>3 DEF ToSet
  <2> HIDE DEF found
  <2> QED
    BY <2>1, <2>2, <2>4, <2>5
<1>7. Count(Accepted, X) = Count(input, X)
  <2>1. {p \in S : input[p] \in X} = {p \in DOMAIN input : input[p] \in X}
    BY <1>5
  <2> HIDE DEF S
  <2>2. Count(Picked(input, S), X) = Cardinality({p \in S : input[p] \in X})
    BY <1>4, PickedCount
  <2> QED
    BY <1>4, <2>1, <2>2 DEF Count
<1> DEFINE A == {n \in DOMAIN input : input[n] \in X}
           B == {n \in DOMAIN input : input[n] \notin X}
<1>8. PICK N \in Nat : N = Len(input) /\ DOMAIN input = 1 .. N
  BY <1>4, ListIsSeq
<1>9. Cardinality(A) + Cardinality(B) = N
  <2>1. A \in SUBSET (1 .. N) /\ B \in SUBSET (1 .. N) /\ \A n \in 1 .. N : n \in A <=> n \notin B
    BY <1>8
  <2> HIDE DEF A, B
  <2> QED
    BY <2>1, PartAndRest
<1>10. Len(t) = Cardinality(A)
  BY <1>3, <1>7 DEF Count
<1>11. Analyses("extract", f) = found \o Picked(input, B)
  <2>1. Places(input, LAMBDA a : a \notin ToSet(found)) = B
    BY <1>6 DEF Places
  <2> QED
    BY <2>1 DEF Analyses, Where
<1>12. /\ IsList(Picked(input, B)) /\ Len(Picked(input, B)) = Cardinality(B) /\ Cardinality(B) \in Nat
       /\ \A x : x \in ToSet(Picked(input, B)) <=> \E p \in B : x = input[p]
  <2>1. B \in SUBSET DOMAIN input
    OBVIOUS
  <2> HIDE DEF B
  <2> QED
    BY <1>4, <2>1, PickedFromList
<1>13. PICK u, v : u = found /\ v = Picked(input, B)
  OBVIOUS
<1>14. Len(u \o v) = Len(u) + Len(v) /\ ToSet(u \o v) = ToSet(u) \cup ToSet(v)
  BY <1>6, <1>12, <1>13, Concatenated
<1>15. ToSet(v) = {input[p] : p \in B}
  BY <1>12, <1>13
<1>16. X \cup {input[p] : p \in B} = ToSet(input)
  BY <1>5 DEF ToSet
<1> HIDE DEF found, A, B
<1>17. Len(u \o v) = N
  BY <1>6, <1>9, <1>10, <1>12, <1>13, <1>14
<1> QED
  BY <1>6, <1>8, <1>11, <1>13, <1>14, <1>15, <1>16, <1>17

----------------------------------------------------------------------------
(* The invariant behind the progress events.                               *)

\* The state of the graph: counts that fit each other, and inferences with lists of events.
Typed(f) ==
    /\ DOMAIN f = DOMAIN NoFlow
    /\ {f.events, f.passed, f.review, f.rejected, f.related, f.verified, f.unverified, f.resolved, f.refused,
        f.impacts, f.eligible, f.companies} \subseteq Nat
    /\ f.related <= f.review /\ f.eligible <= f.impacts
    /\ IsList(f.inferences) /\ \A n \in DOMAIN f.inferences : IsList(f.inferences[n].events)

\* An answer tells of at most the events that were asked about.
AskedTyped ==
    /\ asked.handled \in Nat /\ {asked.tally.good, asked.tally.middle, asked.tally.bad} \subseteq Nat
    /\ Decisions(asked.tally) <= asked.handled

\* What the event p of a node said is what the node left in the state f.
Linked(p, f) ==
    /\ p.node = "evaluate" => p.counts.input = Len(input) /\ p.counts.accepted = AcceptedCount
    /\ p.node = "deduplicate" => p.counts.accepted = f.events
    /\ p.node = "screen" => p.counts.input = f.passed + f.review + f.rejected
    /\ p.node = "cross_validate" => p.counts.accepted + p.counts.rejected = f.verified + f.unverified
    /\ p.node = "resolve" => p.counts.input = f.resolved + f.refused
    /\ p.node = "aggregate" => p.counts.accepted = f.eligible
    /\ p.node = "recommend" => p.counts.input = f.companies

\* What an event says is consistent in itself and with the input.
Consistent(p) ==
    /\ p.counts.accepted >= 0 /\ p.counts.rejected >= 0
    /\ p.counts.accepted + p.counts.rejected <= p.counts.input
    /\ p.node = "extract" => Len(p.articles) = Len(input) /\ ToSet(p.articles) = ToSet(input)

\* There is one event for each node behind the current one, in their order, and each told
\* the next of them; without accepted articles the nodes from extract to analyze are left out.
Chained ==
    /\ IsList(progress)
    /\ \A k \in DOMAIN progress : progress[k].node \in ToSet(Order) /\ Pos(progress[k].node) < Pos(node)
    /\ \A k, l \in DOMAIN progress : k < l => Pos(progress[k].node) < Pos(progress[l].node)
    /\ \A k \in DOMAIN progress :
          progress[k].next = IF k < Len(progress) THEN progress[k + 1].node
                             ELSE IF node = "end" THEN None ELSE node
    /\ \A n \in ToSet(Order) :
          Pos(n) < Pos(node) => \/ AcceptedCount = 0 /\ Pos(n) \in 2 .. 7
                                \/ \E k \in DOMAIN progress : progress[k].node = n

\* What the nodes that are left out would have counted stays zero.
Skips ==
    AcceptedCount = 0 =>
        /\ Pos(node) \notin 2 .. 7
        /\ flow.events = 0 /\ flow.passed + flow.review + flow.rejected = 0
        /\ flow.verified + flow.unverified = 0 /\ flow.resolved + flow.refused = 0

PInv ==
    /\ Typed(flow) /\ AskedTyped /\ Chained /\ Skips
    /\ \A k \in DOMAIN progress : Consistent(progress[k]) /\ Linked(progress[k], flow)
    /\ node = "end" <=> outcome.status = "done"
    /\ outcome.status = "done" => outcome.statistics = Statistics

LEMMA PInvStands ==
    ASSUME PInv, UNCHANGED <<input, node, flow, progress>>, AskedTyped',
           outcome' = outcome \/ (outcome'.status # "done" /\ node # "end")
    PROVE  PInv'
<1>1. AcceptedCount' = AcceptedCount
  BY DEF AcceptedCount, HowMany, Places
<1>2. Typed(flow)'
  BY DEF PInv, Typed
<1>3. Chained'
  BY <1>1 DEF PInv, Chained, Pos
<1>4. Skips'
  BY <1>1 DEF PInv, Skips, Pos
<1>5. ASSUME NEW k \in DOMAIN progress'
      PROVE  Consistent(progress[k])' /\ Linked(progress[k], flow)'
  <2>1. Consistent(progress[k]) /\ Linked(progress[k], flow)
    BY <1>5 DEF PInv
  <2>2. Consistent(progress[k])'
    BY <2>1 DEF Consistent
  <2>3. Linked(progress[k], flow)'
    BY <1>1, <2>1 DEF Linked
  <2> QED
    BY <2>2, <2>3
<1>6. /\ node' = "end" <=> outcome'.status = "done"
      /\ outcome'.status = "done" => outcome'.statistics = Statistics'
  <2>1. Statistics' = Statistics
    BY <1>1 DEF Statistics, HowMany, Places
  <2> QED
    BY <2>1 DEF PInv
<1> QED
  BY <1>2, <1>3, <1>4, <1>5, <1>6 DEF PInv

\* The event that is sent when the node n ends with f as the state.
EventOf(n, f) == [node |-> n, next |-> NextNode(n), articles |-> Analyses(n, f), counts |-> StageCounts(n, f)]

LEMMA ChainGrows ==
    ASSUME PInv, NEW n \in ToSet(Order), node = n, NEW f, Complete(f)
    PROVE  Chained'
<1>1. PICK p, s : p = EventOf(n, f) /\ s = progress
  OBVIOUS
<1>2. PICK t : t = Append(s, p)
  OBVIOUS
<1>3. UNCHANGED input /\ node' = After(n) /\ progress' = t
  BY <1>1, <1>2 DEF Complete, EventOf
<1>4. AcceptedCount' = AcceptedCount
  BY <1>3 DEF AcceptedCount, HowMany, Places
<1>5. p.node = n /\ p.next = IF n = "select_candidates" THEN None ELSE After(n)
  BY <1>1, NextIsAfter DEF EventOf
<1>6. PICK N \in Nat : N = Len(s) /\ IsList(s) /\ DOMAIN s = 1 .. N
  BY <1>1, ListIsSeq DEF PInv, Chained
<1>7. /\ IsList(t) /\ Len(t) = N + 1 /\ DOMAIN t = 1 .. N + 1
      /\ \A k \in 1 .. N : t[k] = s[k]
      /\ t[N + 1] = p
  BY <1>2, <1>6, Appended
<1>8. /\ Pos(After(n)) = IF n = "evaluate" /\ AcceptedCount = 0 THEN 8 ELSE Pos(n) + 1
      /\ After(n) = "end" <=> n = "select_candidates"
      /\ n # "end"
  BY EdgesAdvance, OrderListed
<1>9. Pos(n) \in 1 .. 11 /\ (Pos(n) = 1 <=> n = "evaluate")
  BY OrderListed, Positions
<1>10. Pos(n) < Pos(After(n))
  BY <1>8, <1>9
<1>11. ASSUME NEW k \in 1 .. N
       PROVE  /\ s[k].node \in ToSet(Order) /\ Pos(s[k].node) \in 1 .. 11 /\ Pos(s[k].node) < Pos(n)
              /\ s[k].next = IF k < N THEN s[k + 1].node ELSE n
  BY <1>1, <1>6, <1>8, OrderListed DEF PInv, Chained
<1>12. \A k, l \in 1 .. N : k < l => Pos(s[k].node) < Pos(s[l].node)
  BY <1>1, <1>6 DEF PInv, Chained
<1>13. \A m \in ToSet(Order) :
          Pos(m) < Pos(n) => (AcceptedCount = 0 /\ Pos(m) \in 2 .. 7) \/ \E k \in 1 .. N : s[k].node = m
  BY <1>1, <1>6 DEF PInv, Chained
<1>14. \A k \in 1 .. N + 1 : k \in 1 .. N \/ k = N + 1
  OBVIOUS
<1>15. ASSUME NEW k \in DOMAIN t
       PROVE  t[k].node \in ToSet(Order) /\ Pos(t[k].node) < Pos(After(n))
  <2>1. CASE k \in 1 .. N
    <3>1. t[k] = s[k] /\ Pos(s[k].node) \in Int /\ Pos(s[k].node) < Pos(n) /\ s[k].node \in ToSet(Order)
      BY <1>7, <1>11, <2>1
    <3> QED
      BY <1>8, <1>9, <3>1
  <2>2. CASE k = N + 1
    BY <1>5, <1>7, <1>10, <2>2
  <2> QED
    BY <1>7, <1>14, <2>1, <2>2
<1>16. ASSUME NEW k \in DOMAIN t, NEW l \in DOMAIN t, k < l
       PROVE  Pos(t[k].node) < Pos(t[l].node)
  <2>1. k \in 1 .. N /\ (l \in 1 .. N \/ l = N + 1)
    BY <1>7, <1>16
  <2>2. CASE l \in 1 .. N
    BY <1>7, <1>12, <1>16, <2>1, <2>2
  <2>3. CASE l = N + 1
    BY <1>5, <1>7, <1>11, <2>1, <2>3
  <2> QED
    BY <2>1, <2>2, <2>3
<1>17. ASSUME NEW k \in DOMAIN t
       PROVE  t[k].next = IF k < Len(t) THEN t[k + 1].node ELSE IF After(n) = "end" THEN None ELSE After(n)
  <2>1. CASE k \in 1 .. N
    <3>1. k < N => k + 1 \in 1 .. N
      BY <2>1
    <3>2. t[k + 1] = IF k < N THEN s[k + 1] ELSE p
      BY <1>7, <2>1, <3>1
    <3> QED
      BY <1>5, <1>7, <1>11, <2>1, <3>2
  <2>2. CASE k = N + 1
    BY <1>5, <1>7, <1>8, <2>2
  <2> QED
    BY <1>7, <1>14, <2>1, <2>2
<1>18. ASSUME NEW m \in ToSet(Order), Pos(m) < Pos(After(n))
       PROVE  (AcceptedCount = 0 /\ Pos(m) \in 2 .. 7) \/ \E k \in DOMAIN t : t[k].node = m
  <2>1. Pos(m) \in 1 .. 11 /\ (Pos(m) = Pos(n) => m = n)
    BY OrderListed, Positions
  <2>2. CASE Pos(m) < Pos(n)
    BY <1>7, <1>13, <2>2
  <2>3. CASE m = n
    BY <1>5, <1>7, <2>3
  <2>4. CASE ~(Pos(m) < Pos(n)) /\ m # n
    BY <1>8, <1>9, <1>18, <2>1, <2>4
  <2> QED
    BY <2>2, <2>3, <2>4
<1>19. \A k \in DOMAIN progress' : progress'[k].node \in ToSet(Order) /\ Pos(progress'[k].node) < Pos(node')
  BY <1>3, <1>15
<1>20. \A k, l \in DOMAIN progress' : k < l => Pos(progress'[k].node) < Pos(progress'[l].node)
  BY <1>3, <1>16
<1>21. \A k \in DOMAIN progress' :
          progress'[k].next = IF k < Len(progress') THEN progress'[k + 1].node
                              ELSE IF node' = "end" THEN None ELSE node'
  BY <1>3, <1>17
<1>22. \A m \in ToSet(Order) :
          Pos(m) < Pos(node') => \/ AcceptedCount' = 0 /\ Pos(m) \in 2 .. 7
                                 \/ \E k \in DOMAIN progress' : progress'[k].node = m
  BY <1>3, <1>4, <1>18
<1> QED
  BY <1>3, <1>7, <1>19, <1>20, <1>21, <1>22 DEF Chained, Pos

LEMMA CompletesTruly ==
    ASSUME IInv, PInv, NEW n \in ToSet(Order), At(n), NEW f, Complete(f), Typed(f),
           n = "select_candidates" => f = flow,
           \A p : p = EventOf(n, f) => Consistent(p) /\ Linked(p, f),
           \A k \in DOMAIN progress : Linked(progress[k], f),
           AcceptedCount = 0 => /\ f.events = 0 /\ f.passed + f.review + f.rejected = 0
                                /\ f.verified + f.unverified = 0 /\ f.resolved + f.refused = 0
    PROVE  PInv'
<1>1. node = n /\ outcome.status = "running"
  BY DEF At
<1>2. PICK p : p = EventOf(n, f)
  OBVIOUS
<1>3. /\ UNCHANGED input /\ flow' = f /\ node' = After(n) /\ asked' = NotAsked
      /\ progress' = Append(progress, p)
      /\ outcome' = IF node' = "end" THEN [Running EXCEPT !.status = "done", !.statistics = Statistics]
                    ELSE outcome
  BY <1>1, <1>2 DEF Complete, EventOf
<1>4. AcceptedCount' = AcceptedCount
  BY <1>3 DEF AcceptedCount, HowMany, Places
<1>5. Chained'
  BY <1>1, ChainGrows
<1>6. AskedTyped'
  BY <1>3 DEF AskedTyped, NotAsked, NoAnswer, Decisions
<1>7. Typed(flow)'
  BY <1>3 DEF Typed
<1>8. Skips'
  <2>1. /\ Pos(After(n)) = IF n = "evaluate" /\ AcceptedCount = 0 THEN 8 ELSE Pos(n) + 1
        /\ Pos(n) \in 1 .. 11 /\ (Pos(n) = 1 <=> n = "evaluate")
    BY EdgesAdvance, OrderListed, Positions
  <2>2. AcceptedCount = 0 => Pos(n) \notin 2 .. 7
    BY <1>1 DEF PInv, Skips
  <2>3. AcceptedCount = 0 => Pos(After(n)) \notin 2 .. 7
    BY <2>1, <2>2
  <2>4. Pos(node)' = Pos(After(n))
    BY <1>3 DEF Pos
  <2> QED
    BY <1>3, <1>4, <2>3, <2>4 DEF Skips
<1>9. ASSUME NEW k \in DOMAIN progress'
      PROVE  Consistent(progress[k])' /\ Linked(progress[k], flow)'
  <2>1. PICK N \in Nat : N = Len(progress) /\ IsList(progress) /\ DOMAIN progress = 1 .. N
    BY ListIsSeq DEF PInv, Chained
  <2>2. PICK s : s = progress
    OBVIOUS
  <2>3. PICK t : t = Append(s, p)
    OBVIOUS
  <2>4. DOMAIN t = 1 .. N + 1 /\ (\A j \in 1 .. N : t[j] = s[j]) /\ t[N + 1] = p
    BY <2>1, <2>2, <2>3, Appended
  <2>5. progress' = t
    BY <1>3, <2>2, <2>3
  <2>6. PICK q : q = t[k]
    OBVIOUS
  <2>7. q = p \/ (k \in DOMAIN progress /\ q = progress[k])
    <3>1. k \in 1 .. N \/ k = N + 1
      BY <2>4, <2>5
    <3> QED
      BY <2>1, <2>2, <2>4, <2>6, <3>1
  <2>8. Consistent(q) /\ Linked(q, f)
    BY <1>2, <2>7 DEF PInv
  <2>9. progress'[k] = q
    BY <2>5, <2>6
  <2>10. Consistent(progress[k])'
    BY <1>3, <2>8, <2>9 DEF Consistent
  <2>11. Linked(progress[k], flow)'
    BY <1>3, <1>4, <2>8, <2>9 DEF Linked
  <2> QED
    BY <2>10, <2>11
<1>10. After(n) = "end" <=> n = "select_candidates"
  BY EdgesAdvance
<1>11. node' = "end" <=> outcome'.status = "done"
  BY <1>1, <1>3 DEF Running
<1>12. outcome'.status = "done" => outcome'.statistics = Statistics'
  <2>1. node' = "end" => Statistics' = Statistics
    <3>1. node' = "end" => flow' = flow
      BY <1>3, <1>10
    <3> QED
      BY <1>3, <1>4, <3>1 DEF Statistics, HowMany, Places
  <2>2. node' = "end" => outcome'.statistics = Statistics
    BY <1>3 DEF Running
  <2> QED
    BY <1>11, <2>1, <2>2
<1> QED
  BY <1>5, <1>6, <1>7, <1>8, <1>9, <1>11, <1>12 DEF PInv

LEMMA CountsConsistent ==
    ASSUME NEW p, NEW in \in Nat, NEW accepted \in 0 .. in, NEW rejected \in 0 .. in, accepted + rejected <= in,
           p.node # "extract", p.counts = [input |-> in, accepted |-> accepted, rejected |-> rejected]
    PROVE  Consistent(p)
BY DEF Consistent

\* Before a node ends, there is an event of no later node.
LEMMA NotYetTold ==
    ASSUME PInv, NEW k \in DOMAIN progress
    PROVE  /\ Linked(progress[k], flow) /\ progress[k].node # node
           /\ node = "extract" => progress[k].node # "deduplicate"
<1>1. progress[k].node \in ToSet(Order) /\ Pos(progress[k].node) < Pos(node)
  BY DEF PInv, Chained
<1>2. Pos(progress[k].node) \in 1 .. 11
  BY <1>1, OrderListed
<1> QED
  BY <1>1, <1>2, Positions DEF PInv

LEMMA NodeSkipped ==
    ASSUME PInv, node \in {"extract", "deduplicate", "screen", "cross_validate", "resolve", "analyze"}
    PROVE  AcceptedCount # 0
BY Positions DEF PInv, Skips

LEMMA EvaluateTells ==
    ASSUME IInv, PInv, Evaluate
    PROVE  PInv'
<1>1. At("evaluate") /\ Complete(flow) /\ "evaluate" \in ToSet(Order)
  BY NodesNamed DEF Evaluate
<1>2. /\ AcceptedCount \in Nat /\ Len(input) \in Nat /\ AcceptedCount <= Len(input)
  BY AcceptedIsList DEF IInv, IsList
<1>3. ASSUME NEW p, p = EventOf("evaluate", flow) PROVE Consistent(p) /\ Linked(p, flow)
  <2>1. /\ p.node = "evaluate"
        /\ p.counts = [input |-> Len(input), accepted |-> AcceptedCount, rejected |-> Len(input) - AcceptedCount]
    BY <1>3 DEF EventOf, StageCounts
  <2>2. Consistent(p)
    BY <1>2, <2>1, CountsConsistent
  <2> QED
    BY <2>1, <2>2 DEF Linked
<1>4. \A k \in DOMAIN progress : Linked(progress[k], flow)
  BY DEF PInv
<1> QED
  BY <1>1, <1>3, <1>4, CompletesTruly DEF PInv, Skips

LEMMA ExtractEndsTells ==
    ASSUME IInv, AInv, PInv, ExtractEnds
    PROVE  PInv'
<1>1. At("extract") /\ ~BatchesLeft /\ "extract" \in ToSet(Order) /\ node = "extract" /\ Accounted(ext)
  BY NodesNamed DEF ExtractEnds, At, AInv
<1>2. PICK t : t = Augment(ext.found, Accepted)
  OBVIOUS
<1>3. PICK f : Complete(f) /\ f = [flow EXCEPT !.inferences = t, !.errors = ext.errors, !.ok = ext.ok,
                                               !.events = EventsOf(t)]
  BY <1>2 DEF ExtractEnds
<1>4. IsList(t) /\ (\A n \in DOMAIN t : IsList(t[n].events)) /\ Len(t) <= AcceptedCount
  BY <1>1, <1>2, ResultStands
<1>5. EventsOf(t) \in Nat
  BY <1>4, IdsOfEvents
<1>6. /\ DOMAIN f = DOMAIN NoFlow /\ f.inferences = t /\ f.events = EventsOf(t)
      /\ f.passed = flow.passed /\ f.review = flow.review /\ f.rejected = flow.rejected
      /\ f.related = flow.related /\ f.verified = flow.verified /\ f.unverified = flow.unverified
      /\ f.resolved = flow.resolved /\ f.refused = flow.refused /\ f.impacts = flow.impacts
      /\ f.eligible = flow.eligible /\ f.companies = flow.companies
  BY <1>3 DEF PInv, Typed, NoFlow
<1>7. Typed(f)
  BY <1>4, <1>5, <1>6 DEF PInv, Typed
<1>8. ASSUME NEW p, p = EventOf("extract", f) PROVE Consistent(p) /\ Linked(p, f)
  <2> DEFINE E == {n \in DOMAIN t : t[n].events # <<>>}
  <2>1. /\ p.node = "extract" /\ p.articles = Analyses("extract", f)
        /\ p.counts = [input |-> AcceptedCount, accepted |-> Cardinality(E),
                       rejected |-> AcceptedCount - Cardinality(E)]
    BY <1>6, <1>8 DEF EventOf, StageCounts, HowMany, Places
  <2>2. Cardinality(E) \in Nat /\ Cardinality(E) <= Len(t)
    <3>1. E \in SUBSET DOMAIN t
      OBVIOUS
    <3> HIDE DEF E
    <3> QED
      BY <1>4, <3>1, CountedPlaces
  <2> HIDE DEF E
  <2>3. AcceptedCount \in Nat /\ Len(t) \in Nat
    BY <1>4, AcceptedIsList DEF IInv, IsList
  <2>4. Len(Analyses("extract", f)) = Len(input) /\ ToSet(Analyses("extract", f)) = ToSet(input)
    BY <1>1, <1>2, <1>6, AnalysesComplete
  <2>5. Consistent(p)
    BY <1>4, <2>1, <2>2, <2>3, <2>4 DEF Consistent
  <2> QED
    BY <2>1, <2>5 DEF Linked
<1>9. \A k \in DOMAIN progress : Linked(progress[k], f)
  BY <1>1, <1>6, NotYetTold DEF Linked
<1>10. AcceptedCount # 0
  BY <1>1, NodeSkipped
<1> QED
  BY <1>1, <1>3, <1>7, <1>8, <1>9, <1>10, CompletesTruly

LEMMA DeduplicateTells ==
    ASSUME IInv, PInv, At("deduplicate"), NEW kept \in 0 .. Cardinality(EventIds(flow.inferences)),
           NEW f, f = [flow EXCEPT !.events = kept], Complete(f)
    PROVE  PInv'
<1>1. "deduplicate" \in ToSet(Order) /\ node = "deduplicate"
  BY NodesNamed DEF At
<1>2. PICK s : s = flow.inferences
  OBVIOUS
<1>3. PICK in \in Nat : in = EventsOf(s) /\ kept \in 0 .. in
  <2>1. IsList(s) /\ \A n \in DOMAIN s : IsList(s[n].events)
    BY <1>2 DEF PInv, Typed
  <2>2. /\ EventsOf(s) \in Nat /\ Cardinality(EventIds(s)) \in Nat
        /\ Cardinality(EventIds(s)) <= EventsOf(s)
    BY <2>1, IdsOfEvents
  <2> QED
    BY <1>2, <2>2
<1>4. /\ DOMAIN f = DOMAIN NoFlow /\ f.inferences = flow.inferences /\ f.events = kept
      /\ f.passed = flow.passed /\ f.review = flow.review /\ f.rejected = flow.rejected
      /\ f.related = flow.related /\ f.verified = flow.verified /\ f.unverified = flow.unverified
      /\ f.resolved = flow.resolved /\ f.refused = flow.refused /\ f.impacts = flow.impacts
      /\ f.eligible = flow.eligible /\ f.companies = flow.companies
  BY DEF PInv, Typed, NoFlow
<1>5. Typed(f)
  BY <1>3, <1>4 DEF PInv, Typed
<1>6. ASSUME NEW p, p = EventOf("deduplicate", f) PROVE Consistent(p) /\ Linked(p, f)
  <2>1. p.node = "deduplicate" /\ p.counts = [input |-> in, accepted |-> kept, rejected |-> in - kept]
    BY <1>2, <1>3, <1>4, <1>6 DEF EventOf, StageCounts
  <2>2. Consistent(p)
    BY <1>3, <2>1, CountsConsistent
  <2> QED
    BY <1>4, <2>1, <2>2 DEF Linked
<1>7. \A k \in DOMAIN progress : Linked(progress[k], f)
  BY <1>1, <1>4, NotYetTold DEF Linked
<1>8. AcceptedCount # 0
  BY <1>1, NodeSkipped
<1> QED
  BY <1>1, <1>5, <1>6, <1>7, <1>8, CompletesTruly

LEMMA ScreenEndsTells ==
    ASSUME IInv, PInv, ScreenEnds
    PROVE  PInv'
<1>1. At("screen") /\ "screen" \in ToSet(Order) /\ node = "screen"
  BY NodesNamed DEF ScreenEnds, At
<1>2. PICK good \in Nat, middle \in Nat, bad \in Nat :
         good = asked.tally.good /\ middle = asked.tally.middle /\ bad = asked.tally.bad
  BY DEF PInv, AskedTyped
<1>3. PICK related \in 0 .. middle :
         Complete([flow EXCEPT !.passed = good, !.review = middle, !.rejected = bad, !.related = related])
  BY <1>2 DEF ScreenEnds
<1>4. PICK f : /\ f = [flow EXCEPT !.passed = good, !.review = middle, !.rejected = bad, !.related = related]
               /\ Complete(f) /\ related \in Nat /\ related <= middle
  BY <1>2, <1>3
<1>5. /\ DOMAIN f = DOMAIN NoFlow /\ f.inferences = flow.inferences /\ f.events = flow.events
      /\ f.passed = good /\ f.review = middle /\ f.rejected = bad
      /\ f.related = related /\ f.verified = flow.verified /\ f.unverified = flow.unverified
      /\ f.resolved = flow.resolved /\ f.refused = flow.refused /\ f.impacts = flow.impacts
      /\ f.eligible = flow.eligible /\ f.companies = flow.companies
  BY <1>4 DEF PInv, Typed, NoFlow
<1>6. Typed(f)
  BY <1>2, <1>4, <1>5 DEF PInv, Typed
<1>7. ASSUME NEW p, p = EventOf("screen", f) PROVE Consistent(p) /\ Linked(p, f)
  <2>1. PICK in \in Nat, accepted \in Nat :
           in = f.passed + f.review + f.rejected /\ accepted = f.passed + f.review /\ accepted <= in
    BY <1>2, <1>5
  <2>2. p.node = "screen" /\ p.counts = [input |-> in, accepted |-> accepted, rejected |-> in - accepted]
    BY <1>7, <2>1 DEF EventOf, StageCounts
  <2>3. Consistent(p)
    BY <2>1, <2>2 DEF Consistent
  <2> QED
    BY <2>1, <2>2, <2>3 DEF Linked
<1>8. \A k \in DOMAIN progress : Linked(progress[k], f)
  BY <1>1, <1>5, NotYetTold DEF Linked
<1>9. AcceptedCount # 0
  BY <1>1, NodeSkipped
<1> QED
  BY <1>1, <1>4, <1>6, <1>7, <1>8, <1>9, CompletesTruly

LEMMA CrossValidationEndsTells ==
    ASSUME IInv, PInv, CrossValidationEnds
    PROVE  PInv'
<1>1. At("cross_validate") /\ "cross_validate" \in ToSet(Order) /\ node = "cross_validate"
  BY NodesNamed DEF CrossValidationEnds, At
<1>2. PICK good \in Nat, bad \in Nat : good = asked.tally.good /\ bad = asked.tally.bad
  BY DEF PInv, AskedTyped
<1>3. PICK review \in Nat, related \in Nat : review = flow.review /\ related = flow.related /\ related <= review
  BY DEF PInv, Typed
<1>4. good + bad <= related
  <2>1. asked.handled = related /\ asked.tally.middle \in Nat /\ good + asked.tally.middle + bad <= asked.handled
    BY <1>2, <1>3 DEF CrossValidationEnds, PInv, AskedTyped, Decisions
  <2> QED
    BY <1>2, <2>1
<1>5. PICK unverified \in Nat : unverified = bad + review - related /\ good + unverified <= review
  BY <1>3, <1>4
<1>6. PICK f : f = [flow EXCEPT !.verified = good, !.unverified = unverified] /\ Complete(f)
  BY <1>2, <1>3, <1>5 DEF CrossValidationEnds
<1>7. /\ DOMAIN f = DOMAIN NoFlow /\ f.inferences = flow.inferences /\ f.events = flow.events
      /\ f.passed = flow.passed /\ f.review = review /\ f.rejected = flow.rejected
      /\ f.related = flow.related /\ f.verified = good /\ f.unverified = unverified
      /\ f.resolved = flow.resolved /\ f.refused = flow.refused /\ f.impacts = flow.impacts
      /\ f.eligible = flow.eligible /\ f.companies = flow.companies
  BY <1>3, <1>6 DEF PInv, Typed, NoFlow
<1>8. Typed(f)
  BY <1>3, <1>7 DEF PInv, Typed
<1>9. ASSUME NEW p, p = EventOf("cross_validate", f) PROVE Consistent(p) /\ Linked(p, f)
  <2>1. /\ p.node = "cross_validate"
        /\ p.counts = [input |-> review, accepted |-> good, rejected |-> unverified]
    BY <1>3, <1>7, <1>9 DEF EventOf, StageCounts
  <2>2. Consistent(p)
    BY <1>5, <2>1 DEF Consistent
  <2> QED
    BY <1>7, <2>1, <2>2 DEF Linked
<1>10. \A k \in DOMAIN progress : Linked(progress[k], f)
  <2>1. f.review = flow.review
    BY <1>3, <1>7
  <2> QED
    BY <1>1, <1>7, <2>1, NotYetTold DEF Linked
<1>11. AcceptedCount # 0
  BY <1>1, NodeSkipped
<1> QED
  BY <1>1, <1>6, <1>8, <1>9, <1>10, <1>11, CompletesTruly

LEMMA ResolveTells ==
    ASSUME IInv, PInv, Resolve
    PROVE  PInv'
<1>1. At("resolve") /\ "resolve" \in ToSet(Order) /\ node = "resolve"
  BY NodesNamed DEF Resolve, At
<1>2. PICK decided \in Nat : decided = flow.passed + flow.review + flow.rejected
  BY DEF PInv, Typed
<1>3. PICK n \in 0 .. decided : Complete([flow EXCEPT !.resolved = n, !.refused = decided - n])
  BY <1>2 DEF Resolve
<1>4. PICK m \in 0 .. decided : m = decided - n
  BY <1>2
<1>5. PICK f : f = [flow EXCEPT !.resolved = n, !.refused = m] /\ Complete(f)
  BY <1>3, <1>4
<1>6. /\ DOMAIN f = DOMAIN NoFlow /\ f.inferences = flow.inferences /\ f.events = flow.events
      /\ f.passed = flow.passed /\ f.review = flow.review /\ f.rejected = flow.rejected
      /\ f.related = flow.related /\ f.verified = flow.verified /\ f.unverified = flow.unverified
      /\ f.resolved = n /\ f.refused = m /\ f.impacts = flow.impacts
      /\ f.eligible = flow.eligible /\ f.companies = flow.companies
  BY <1>5 DEF PInv, Typed, NoFlow
<1>7. n \in Nat /\ m \in Nat /\ n + m = decided
  BY <1>4
<1>8. Typed(f)
  BY <1>6, <1>7 DEF PInv, Typed
<1>9. ASSUME NEW p, p = EventOf("resolve", f) PROVE Consistent(p) /\ Linked(p, f)
  <2>1. /\ p.node = "resolve"
        /\ p.counts = [input |-> f.passed + f.review + f.rejected, accepted |-> n, rejected |-> m]
    BY <1>6, <1>9 DEF EventOf, StageCounts
  <2>2. f.passed + f.review + f.rejected = decided
    BY <1>2, <1>6
  <2>3. Consistent(p)
    BY <1>7, <2>1, <2>2 DEF Consistent
  <2> QED
    BY <1>6, <1>7, <2>1, <2>2, <2>3 DEF Linked
<1>10. \A k \in DOMAIN progress : Linked(progress[k], f)
  BY <1>1, <1>6, NotYetTold DEF Linked
<1>11. AcceptedCount # 0
  BY <1>1, NodeSkipped
<1> QED
  BY <1>1, <1>5, <1>8, <1>9, <1>10, <1>11, CompletesTruly

LEMMA AnalyzeTells ==
    ASSUME IInv, PInv, Analyze
    PROVE  PInv'
<1>1. At("analyze") /\ "analyze" \in ToSet(Order) /\ node = "analyze"
  BY NodesNamed DEF Analyze, At
<1>2. PICK m \in Nat : m = IF flow.resolved + flow.refused = 0 THEN 0 ELSE MaxImpacts
  BY ScreeningAssumption
<1>3. PICK n \in 0 .. m : \E e \in 0 .. n : Complete([flow EXCEPT !.impacts = n, !.eligible = e])
  BY <1>2 DEF Analyze
<1>4. PICK eligible \in 0 .. n : Complete([flow EXCEPT !.impacts = n, !.eligible = eligible])
  BY <1>3
<1>5. PICK f : f = [flow EXCEPT !.impacts = n, !.eligible = eligible] /\ Complete(f)
  BY <1>4
<1>6. /\ DOMAIN f = DOMAIN NoFlow /\ f.inferences = flow.inferences /\ f.events = flow.events
      /\ f.passed = flow.passed /\ f.review = flow.review /\ f.rejected = flow.rejected
      /\ f.related = flow.related /\ f.verified = flow.verified /\ f.unverified = flow.unverified
      /\ f.resolved = flow.resolved /\ f.refused = flow.refused /\ f.impacts = n
      /\ f.eligible = eligible /\ f.companies = flow.companies
  BY <1>5 DEF PInv, Typed, NoFlow
<1>7. Typed(f)
  BY <1>3, <1>4, <1>6 DEF PInv, Typed
<1>8. ASSUME NEW p, p = EventOf("analyze", f) PROVE Consistent(p) /\ Linked(p, f)
  <2>1. PICK in \in Nat : in = f.resolved + f.refused
    BY <1>6 DEF PInv, Typed
  <2>2. p.node = "analyze" /\ p.counts = [input |-> in, accepted |-> in, rejected |-> in - in]
    BY <1>8, <2>1 DEF EventOf, StageCounts
  <2>3. Consistent(p)
    BY <2>1, <2>2 DEF Consistent
  <2> QED
    BY <2>2, <2>3 DEF Linked
<1>9. \A k \in DOMAIN progress : Linked(progress[k], f)
  <2>1. \A k \in DOMAIN progress : progress[k].node # "aggregate"
    <3>1. \A k \in DOMAIN progress : Pos(progress[k].node) < Pos("analyze")
      BY <1>1 DEF PInv, Chained
    <3> QED
      BY <3>1, Positions
  <2> QED
    BY <1>1, <1>6, <2>1, NotYetTold DEF Linked
<1>10. AcceptedCount # 0
  BY <1>1, NodeSkipped
<1> QED
  BY <1>1, <1>5, <1>7, <1>8, <1>9, <1>10, CompletesTruly

LEMMA AggregateTells ==
    ASSUME IInv, PInv, Aggregate
    PROVE  PInv'
<1>1. At("aggregate") /\ "aggregate" \in ToSet(Order) /\ node = "aggregate"
  BY NodesNamed DEF Aggregate, At
<1>2. PICK companies \in 0 .. flow.eligible : Complete([flow EXCEPT !.companies = companies])
  BY DEF Aggregate
<1>3. PICK f : f = [flow EXCEPT !.companies = companies] /\ Complete(f)
  BY <1>2
<1>4. /\ DOMAIN f = DOMAIN NoFlow /\ f.inferences = flow.inferences /\ f.events = flow.events
      /\ f.passed = flow.passed /\ f.review = flow.review /\ f.rejected = flow.rejected
      /\ f.related = flow.related /\ f.verified = flow.verified /\ f.unverified = flow.unverified
      /\ f.resolved = flow.resolved /\ f.refused = flow.refused /\ f.impacts = flow.impacts
      /\ f.eligible = flow.eligible /\ f.companies = companies
  BY <1>3 DEF PInv, Typed, NoFlow
<1>5. Typed(f)
  BY <1>2, <1>4 DEF PInv, Typed
<1>6. ASSUME NEW p, p = EventOf("aggregate", f) PROVE Consistent(p) /\ Linked(p, f)
  <2>1. PICK in \in Nat, accepted \in Nat : in = f.impacts /\ accepted = f.eligible /\ accepted <= in
    BY <1>5 DEF Typed
  <2>2. p.node = "aggregate" /\ p.counts = [input |-> in, accepted |-> accepted, rejected |-> in - accepted]
    BY <1>6, <2>1 DEF EventOf, StageCounts
  <2>3. Consistent(p)
    BY <2>1, <2>2 DEF Consistent
  <2> QED
    BY <2>1, <2>2, <2>3 DEF Linked
<1>7. \A k \in DOMAIN progress : Linked(progress[k], f)
  <2>1. \A k \in DOMAIN progress : progress[k].node # "recommend"
    <3>1. \A k \in DOMAIN progress : Pos(progress[k].node) < Pos("aggregate")
      BY <1>1 DEF PInv, Chained
    <3> QED
      BY <3>1, Positions
  <2> QED
    BY <1>1, <1>4, <2>1, NotYetTold DEF Linked
<1>8. AcceptedCount = 0 => /\ f.events = 0 /\ f.passed + f.review + f.rejected = 0
                           /\ f.verified + f.unverified = 0 /\ f.resolved + f.refused = 0
  BY <1>4 DEF PInv, Skips
<1> QED
  BY <1>1, <1>3, <1>5, <1>6, <1>7, <1>8, CompletesTruly

LEMMA AdviseTells ==
    ASSUME IInv, PInv, Advise
    PROVE  PInv'
<1>1. PICK n \in {"score", "recommend", "select_candidates"} : At(n) /\ Complete(flow) /\ n \in ToSet(Order)
  BY NodesNamed DEF Advise
<1>2. PICK c \in Nat : c = flow.companies
  BY DEF PInv, Typed
<1>3. ASSUME NEW p, p = EventOf(n, flow) PROVE Consistent(p) /\ Linked(p, flow)
  <2>1. PICK accepted \in 0 .. c : accepted = IF n = "select_candidates" THEN Smaller(c, MaxPicks) ELSE c
    BY ScreeningAssumption DEF Smaller
  <2>2. p.node = n /\ p.counts = [input |-> c, accepted |-> accepted, rejected |-> c - accepted]
    <3>1. CASE n = "select_candidates"
      BY <1>2, <1>3, <2>1, <3>1 DEF EventOf, StageCounts
    <3>2. CASE n \in {"score", "recommend"}
      BY <1>2, <1>3, <2>1, <3>2 DEF EventOf, StageCounts
    <3> QED
      BY <3>1, <3>2
  <2>3. Consistent(p)
    BY <1>1, <2>1, <2>2 DEF Consistent
  <2> QED
    BY <1>1, <1>2, <2>2, <2>3 DEF Linked
<1>4. \A k \in DOMAIN progress : Linked(progress[k], flow)
  BY DEF PInv
<1> QED
  BY <1>1, <1>3, <1>4, CompletesTruly DEF PInv, Skips

\* A failure sends no event, and neither does the answer to a call.
LEMMA FailTells ==
    ASSUME IInv, PInv, NEW status \in {"raised", "retries_exhausted", "over_budget"}, NEW error, NEW stage,
           Fail(status, error, stage), outcome.status = "running"
    PROVE  PInv'
<1>1. UNCHANGED <<input, node, flow, progress, asked>> /\ outcome'.status = status /\ node # "end"
  BY DEF Fail, Running, PInv
<1>2. AskedTyped'
  BY <1>1 DEF PInv, AskedTyped, Decisions
<1> QED
  BY <1>1, <1>2, PInvStands

LEMMA RaiseTells ==
    ASSUME IInv, PInv, NEW type, NEW stage, Raise(type, stage), outcome.status = "running"
    PROVE  PInv'
<1>1. CASE \E status \in {"raised", "retries_exhausted"} : Fail(status, type, IF status = "raised" THEN None ELSE stage)
  BY <1>1, FailTells
<1>2. CASE asked' = NotAsked /\ UNCHANGED <<input, node, flow, progress, outcome>>
  <2>1. AskedTyped'
    BY <1>2 DEF AskedTyped, NotAsked, NoAnswer, Decisions
  <2> QED
    BY <1>2, <2>1, PInvStands
<1> QED
  BY <1>1, <1>2 DEF Raise

LEMMA HandleTells ==
    ASSUME IInv, PInv, NEW size \in Nat, NEW tally, NEW type, Handle(size, tally, type),
           {tally.good, tally.middle, tally.bad} \subseteq Nat, Decisions(tally) <= size
    PROVE  PInv'
<1>1. PICK t, a : t = asked.tally /\ a = asked
  OBVIOUS
<1>2. /\ UNCHANGED <<input, node, flow, progress, outcome>>
      /\ asked'.handled = a.handled + size
      /\ asked'.tally.good = t.good + tally.good /\ asked'.tally.middle = t.middle + tally.middle
      /\ asked'.tally.bad = t.bad + tally.bad
  BY <1>1 DEF Handle, Plus
<1>3. a.handled \in Nat /\ {t.good, t.middle, t.bad} \subseteq Nat /\ t.good + t.middle + t.bad <= a.handled
  BY <1>1 DEF PInv, AskedTyped, Decisions
<1>4. tally.good + tally.middle + tally.bad <= size
  BY DEF Decisions
<1>5. AskedTyped'
  <2>1. PICK g \in Nat, m \in Nat, b \in Nat : g = t.good /\ m = t.middle /\ b = t.bad
    BY <1>3
  <2>2. PICK h \in Nat, j \in Nat, k \in Nat : h = tally.good /\ j = tally.middle /\ k = tally.bad
    OBVIOUS
  <2>3. PICK d \in Nat : d = a.handled
    BY <1>3
  <2>4. g + m + b <= d /\ h + j + k <= size
    BY <1>3, <1>4, <2>1, <2>2, <2>3
  <2>5. g + h + (m + j) + (b + k) <= d + size
    BY <2>4
  <2> QED
    BY <1>2, <2>1, <2>2, <2>3, <2>5 DEF AskedTyped, Decisions
<1> QED
  BY <1>2, <1>5, PInvStands

LEMMA ScreenEventsTells ==
    ASSUME IInv, PInv, ScreenEvents
    PROVE  PInv'
<1>1. PICK size \in Nat : size = Smaller(ScreenBatch, flow.events - asked.handled)
  <2>1. flow.events \in Nat /\ asked.handled \in Nat /\ asked.handled < flow.events
    BY DEF ScreenEvents, PInv, Typed, AskedTyped
  <2> QED
    BY <2>1, ScreeningAssumption DEF Smaller
<1>2. \/ \E type \in ErrorTypes \cup {None} : Handle(size, NoAnswer, type)
      \/ \E tally \in Tallies(size) : Handle(size, tally, None)
  BY <1>1 DEF ScreenEvents
<1>3. {NoAnswer.good, NoAnswer.middle, NoAnswer.bad} \subseteq Nat /\ Decisions(NoAnswer) <= size
  BY DEF NoAnswer, Decisions
<1>4. \A tally \in Tallies(size) :
         {tally.good, tally.middle, tally.bad} \subseteq Nat /\ Decisions(tally) <= size
  BY DEF Tallies
<1> QED
  BY <1>2, <1>3, <1>4, HandleTells

LEMMA CrossValidateTells ==
    ASSUME IInv, PInv, CrossValidate
    PROVE  PInv'
<1>1. PICK size \in Nat : size = Smaller(ReviewBatch, flow.related - asked.handled)
  <2>1. flow.related \in Nat /\ asked.handled \in Nat /\ asked.handled < flow.related
    BY DEF CrossValidate, PInv, Typed, AskedTyped
  <2> QED
    BY <2>1, ScreeningAssumption DEF Smaller
<1>2. \/ \E type : Raise(type, "cross_validate")
      \/ Handle(size, [NoAnswer EXCEPT !.bad = size], None)
      \/ \E tally \in Tallies(size) : Handle(size, tally, None)
  BY <1>1 DEF CrossValidate
<1>3. PICK t : t = [NoAnswer EXCEPT !.bad = size]
  OBVIOUS
<1>4. {t.good, t.middle, t.bad} \subseteq Nat /\ Decisions(t) <= size
  BY <1>3 DEF NoAnswer, Decisions
<1>5. \A tally \in Tallies(size) :
         {tally.good, tally.middle, tally.bad} \subseteq Nat /\ Decisions(tally) <= size
  BY DEF Tallies
<1>6. outcome.status = "running"
  BY DEF CrossValidate, At
<1> QED
  BY <1>2, <1>3, <1>4, <1>5, <1>6, HandleTells, RaiseTells

LEMMA ProgressStep == IInv /\ AInv /\ PInv /\ [Next]_vars => PInv'
<1> SUFFICES ASSUME IInv, AInv, PInv, [Next]_vars PROVE PInv'
  OBVIOUS
<1>1. CASE UNCHANGED vars
  <2>1. AskedTyped'
    BY <1>1 DEF vars, PInv, AskedTyped, Decisions
  <2> QED
    BY <1>1, <2>1, PInvStands DEF vars
<1>2. CASE ExtractBatch
  <2>1. UNCHANGED <<input, node, asked, flow, progress, outcome>>
    BY <1>2 DEF ExtractBatch
  <2>2. AskedTyped'
    BY <2>1 DEF PInv, AskedTyped, Decisions
  <2> QED
    BY <2>1, <2>2, PInvStands
<1>3. CASE ExtractFails \/ ScreenFails
  <2>1. outcome.status = "running" /\ \E type, stage : Raise(type, stage)
    BY <1>3 DEF ExtractFails, ScreenFails, At
  <2> QED
    BY <2>1, RaiseTells
<1>4. CASE ScreenRefuses \/ CrossValidationRefuses \/ CrossValidationFails \/ BudgetSpent
  <2>1. /\ outcome.status = "running"
        /\ \E status \in {"raised", "over_budget"} : \E error : Fail(status, error, None)
    BY <1>4 DEF ScreenRefuses, CrossValidationRefuses, CrossValidationFails, BudgetSpent, WantsToAsk, At
  <2> QED
    BY <2>1, FailTells
<1>5. CASE Deduplicate \/ NothingToCompare
  <2>1. At("deduplicate") /\ outcome.status = "running"
    BY <1>5 DEF Deduplicate, NothingToCompare, At
  <2>2. CASE \E type : Raise(type, "deduplicate")
    BY <2>1, <2>2, RaiseTells
  <2>3. CASE Fail("raised", "StructuredOutputResponseError", None)
    BY <2>1, <2>3, FailTells
  <2>4. Cardinality(EventIds(flow.inferences)) \in Nat
    BY IdsOfEvents DEF PInv, Typed
  <2>5. ASSUME NEW kept \in 0 .. Cardinality(EventIds(flow.inferences)),
               Complete([flow EXCEPT !.events = kept])
        PROVE  PInv'
    BY <2>1, <2>5, DeduplicateTells
  <2>6. PICK c \in Nat : c = Cardinality(EventIds(flow.inferences))
    BY <2>4
  <2>7. \/ \E type : Raise(type, "deduplicate")
        \/ Fail("raised", "StructuredOutputResponseError", None)
        \/ \E kept \in 0 .. c : Complete([flow EXCEPT !.events = kept])
    <3>1. CASE Deduplicate
      BY <2>6, <3>1 DEF Deduplicate
    <3>2. CASE NothingToCompare
      BY <2>6, <3>2 DEF NothingToCompare
    <3> QED
      BY <1>5, <3>1, <3>2
  <2> QED
    BY <2>2, <2>3, <2>5, <2>6, <2>7
<1> QED
  BY <1>1, <1>2, <1>3, <1>4, <1>5, EvaluateTells, ExtractEndsTells, ScreenEventsTells, ScreenEndsTells,
     CrossValidateTells, CrossValidationEndsTells, ResolveTells, AnalyzeTells, AggregateTells, AdviseTells
     DEF Next

LEMMA InitTells == Init => PInv
<1> SUFFICES ASSUME Init PROVE PInv
  OBVIOUS
<1>1. /\ node = "evaluate" /\ asked = NotAsked /\ flow = NoFlow /\ progress = <<>>
      /\ outcome.status = "running"
  BY DEF Init, Running
<1>2. IsList(<<>>) /\ DOMAIN <<>> = {}
  BY EmptyIsList
<1>3. Typed(flow)
  BY <1>1, <1>2 DEF Typed, NoFlow
<1>4. AskedTyped
  BY <1>1 DEF AskedTyped, NotAsked, NoAnswer, Decisions
<1>5. Pos(node) = 1 /\ \A n \in ToSet(Order) : Pos(n) \in 1 .. 11
  BY <1>1, Positions, OrderListed
<1>6. Chained
  BY <1>1, <1>2, <1>5 DEF Chained
<1>7. Skips
  BY <1>1, <1>5 DEF Skips, NoFlow
<1> QED
  BY <1>1, <1>2, <1>3, <1>4, <1>6, <1>7 DEF PInv

----------------------------------------------------------------------------
(* What was told, at the end.                                              *)

NodesTold == [n \in DOMAIN progress |-> progress[n].node]
NoCounts == [input |-> 0, accepted |-> 0, rejected |-> 0]

\* The counts that were told of a node.
CountsOf(n) ==
    IF n \in ToSet(NodesTold) THEN progress[CHOOSE k \in DOMAIN NodesTold : NodesTold[k] = n].counts
    ELSE NoCounts

\* Of each node there was an event, or it was left out.
LEMMA ToldOrSkipped ==
    ASSUME PInv, node = "end", NEW n \in ToSet(Order)
    PROVE  \/ AcceptedCount = 0 /\ Pos(n) \in 2 .. 7 /\ CountsOf(n) = NoCounts
           \/ \E k \in DOMAIN progress : progress[k].node = n /\ CountsOf(n) = progress[k].counts
<1>1. PICK s : s = NodesTold
  OBVIOUS
<1>2. DOMAIN s = DOMAIN progress /\ \A k \in DOMAIN progress : s[k] = progress[k].node
  BY <1>1 DEF NodesTold
<1>3. CASE n \in ToSet(s)
  <2>1. PICK k : k = CHOOSE j \in DOMAIN s : s[j] = n
    OBVIOUS
  <2>2. k \in DOMAIN s /\ s[k] = n
    BY <1>3, <2>1 DEF ToSet
  <2>3. CountsOf(n) = progress[k].counts
    BY <1>1, <1>3, <2>1 DEF CountsOf
  <2> QED
    BY <1>2, <2>2, <2>3
<1>4. CASE n \notin ToSet(s)
  <2>1. Pos(n) \in 1 .. 11 /\ Pos(node) = 12
    BY OrderListed, Positions
  <2>2. \/ AcceptedCount = 0 /\ Pos(n) \in 2 .. 7
        \/ \E k \in DOMAIN progress : progress[k].node = n
    BY <2>1 DEF PInv, Chained
  <2>3. ~ \E k \in DOMAIN progress : progress[k].node = n
    BY <1>2, <1>4 DEF ToSet
  <2>4. CountsOf(n) = NoCounts
    BY <1>1, <1>4 DEF CountsOf
  <2> QED
    BY <2>2, <2>3, <2>4
<1> QED
  BY <1>3, <1>4

\* The counts of the statistics are those that were told.
LEMMA StatisticsTold ==
    ASSUME PInv, outcome.status = "done"
    PROVE  /\ outcome.statistics.total = CountsOf("evaluate").input
           /\ outcome.statistics.accepted = CountsOf("evaluate").accepted
           /\ outcome.statistics.extracted = CountsOf("deduplicate").accepted
           /\ outcome.statistics.decisions = CountsOf("screen").input
           /\ outcome.statistics.results = CountsOf("cross_validate").accepted + CountsOf("cross_validate").rejected
           /\ outcome.statistics.resolved = CountsOf("resolve").input
           /\ outcome.statistics.eligible = CountsOf("aggregate").accepted
           /\ outcome.statistics.companies = CountsOf("recommend").input
<1>1. node = "end"
  BY DEF PInv
<1>2. /\ outcome.statistics.total = Len(input) /\ outcome.statistics.accepted = AcceptedCount
      /\ outcome.statistics.extracted = flow.events
      /\ outcome.statistics.decisions = flow.passed + flow.review + flow.rejected
      /\ outcome.statistics.results = flow.verified + flow.unverified
      /\ outcome.statistics.resolved = flow.resolved + flow.refused
      /\ outcome.statistics.eligible = flow.eligible /\ outcome.statistics.companies = flow.companies
  BY DEF PInv, Statistics
<1>3. \A k \in DOMAIN progress : Linked(progress[k], flow)
  BY DEF PInv
<1>4. /\ NoCounts.input = 0 /\ NoCounts.accepted = 0 /\ NoCounts.rejected = 0
  BY DEF NoCounts
<1>5. AcceptedCount = 0 =>
         /\ flow.events = 0 /\ flow.passed + flow.review + flow.rejected = 0
         /\ flow.verified + flow.unverified = 0 /\ flow.resolved + flow.refused = 0
  BY DEF PInv, Skips
<1>6. CountsOf("evaluate").input = Len(input) /\ CountsOf("evaluate").accepted = AcceptedCount
  <2>1. \E k \in DOMAIN progress : progress[k].node = "evaluate" /\ CountsOf("evaluate") = progress[k].counts
    BY <1>1, ToldOrSkipped, NodesNamed, Positions
  <2> QED
    BY <1>3, <2>1 DEF Linked
<1>7. CountsOf("deduplicate").accepted = flow.events
  <2>1. \/ AcceptedCount = 0 /\ CountsOf("deduplicate") = NoCounts
        \/ \E k \in DOMAIN progress :
              progress[k].node = "deduplicate" /\ CountsOf("deduplicate") = progress[k].counts
    BY <1>1, ToldOrSkipped, NodesNamed
  <2> QED
    BY <1>3, <1>4, <1>5, <2>1 DEF Linked
<1>8. CountsOf("screen").input = flow.passed + flow.review + flow.rejected
  <2>1. \/ AcceptedCount = 0 /\ CountsOf("screen") = NoCounts
        \/ \E k \in DOMAIN progress : progress[k].node = "screen" /\ CountsOf("screen") = progress[k].counts
    BY <1>1, ToldOrSkipped, NodesNamed
  <2> QED
    BY <1>3, <1>4, <1>5, <2>1 DEF Linked
<1>9. CountsOf("cross_validate").accepted + CountsOf("cross_validate").rejected = flow.verified + flow.unverified
  <2>1. \/ AcceptedCount = 0 /\ CountsOf("cross_validate") = NoCounts
        \/ \E k \in DOMAIN progress :
              progress[k].node = "cross_validate" /\ CountsOf("cross_validate") = progress[k].counts
    BY <1>1, ToldOrSkipped, NodesNamed
  <2> QED
    BY <1>3, <1>4, <1>5, <2>1 DEF Linked
<1>10. CountsOf("resolve").input = flow.resolved + flow.refused
  <2>1. \/ AcceptedCount = 0 /\ CountsOf("resolve") = NoCounts
        \/ \E k \in DOMAIN progress : progress[k].node = "resolve" /\ CountsOf("resolve") = progress[k].counts
    BY <1>1, ToldOrSkipped, NodesNamed
  <2> QED
    BY <1>3, <1>4, <1>5, <2>1 DEF Linked
<1>11. CountsOf("aggregate").accepted = flow.eligible
  <2>1. \E k \in DOMAIN progress : progress[k].node = "aggregate" /\ CountsOf("aggregate") = progress[k].counts
    BY <1>1, ToldOrSkipped, NodesNamed, Positions
  <2> QED
    BY <1>3, <2>1 DEF Linked
<1>12. CountsOf("recommend").input = flow.companies
  <2>1. \E k \in DOMAIN progress : progress[k].node = "recommend" /\ CountsOf("recommend") = progress[k].counts
    BY <1>1, ToldOrSkipped, NodesNamed, Positions
  <2> QED
    BY <1>3, <2>1 DEF Linked
<1> QED
  BY <1>2, <1>6, <1>7, <1>8, <1>9, <1>10, <1>11, <1>12

\* Each event is of another node, and names the node whose event follows.
LEMMA EventsFollow ==
    ASSUME PInv
    PROVE  /\ \A a, b \in DOMAIN progress : progress[a].node = progress[b].node => a = b
           /\ \A k \in DOMAIN progress : k < Len(progress) => progress[k + 1].node = progress[k].next
           /\ outcome.status = "done" => progress[Len(progress)].next = None
<1>1. PICK N \in Nat : N = Len(progress) /\ DOMAIN progress = 1 .. N
  BY ListIsSeq DEF PInv, Chained
<1>2. ASSUME NEW a \in DOMAIN progress, NEW b \in DOMAIN progress, progress[a].node = progress[b].node
      PROVE  a = b
  <2>1. a < b => Pos(progress[a].node) < Pos(progress[b].node)
    BY DEF PInv, Chained
  <2>2. b < a => Pos(progress[b].node) < Pos(progress[a].node)
    BY DEF PInv, Chained
  <2>3. Pos(progress[a].node) \in 1 .. 11
    BY OrderListed DEF PInv, Chained
  <2> QED
    BY <1>1, <1>2, <2>1, <2>2, <2>3
<1>3. \A k \in DOMAIN progress : k < Len(progress) => progress[k + 1].node = progress[k].next
  BY DEF PInv, Chained
<1>4. ASSUME outcome.status = "done" PROVE progress[Len(progress)].next = None
  <2>1. node = "end"
    BY <1>4 DEF PInv
  <2>2. \E k \in DOMAIN progress : progress[k].node = "evaluate"
    BY <2>1, ToldOrSkipped, NodesNamed, Positions
  <2>3. N \in DOMAIN progress /\ ~(N < Len(progress))
    BY <1>1, <2>2
  <2> QED
    BY <1>1, <2>1, <2>3 DEF PInv, Chained
<1> QED
  BY <1>2, <1>3, <1>4

LEMMA TellsTruth == PInv => ProgressTellsTruth
<1> SUFFICES ASSUME PInv PROVE ProgressTellsTruth
  OBVIOUS
<1>1. PICK s : s = NodesTold
  OBVIOUS
<1>2. DOMAIN s = DOMAIN progress /\ \A k \in DOMAIN progress : s[k] = progress[k].node
  BY <1>1 DEF NodesTold
<1>3. IsInjective(s)
  BY <1>2, EventsFollow DEF IsInjective
<1>4. PICK N \in Nat : N = Len(progress) /\ DOMAIN progress = 1 .. N
  BY ListIsSeq DEF PInv, Chained
<1>5. ASSUME NEW n \in DOMAIN progress
      PROVE  /\ s[n] = "extract" => /\ Len(progress[n].articles) = Len(input)
                                    /\ ToSet(progress[n].articles) = ToSet(input)
             /\ n < Len(progress) => s[n + 1] = progress[n].next
             /\ progress[n].counts.accepted >= 0 /\ progress[n].counts.rejected >= 0
             /\ progress[n].counts.accepted + progress[n].counts.rejected <= progress[n].counts.input
  <2>1. Consistent(progress[n])
    BY DEF PInv
  <2>2. n < Len(progress) => s[n + 1] = progress[n].next
    <3>1. n < Len(progress) => n + 1 \in DOMAIN progress
      BY <1>4
    <3> QED
      BY <1>2, <3>1, EventsFollow
  <2> QED
    BY <1>2, <2>1, <2>2 DEF Consistent
<1>6. outcome.status = "done" => Last(progress).next = None
  BY EventsFollow DEF Last
<1>7. \A n : CountsOf(n) = IF n \in ToSet(s) THEN progress[CHOOSE k \in DOMAIN s : s[k] = n].counts
                          ELSE [input |-> 0, accepted |-> 0, rejected |-> 0]
  BY <1>1 DEF CountsOf, NoCounts
<1>8. s = [n \in DOMAIN progress |-> progress[n].node]
  BY <1>1 DEF NodesTold
<1> QED
  BY <1>3, <1>5, <1>6, <1>8, StatisticsTold DEF ProgressTellsTruth, CountsOf, NodesTold, NoCounts

----------------------------------------------------------------------------
(* The theorems.                                                           *)

LEMMA Invariant == Spec => []IInv
BY InitInv, StepInv, PTL DEF Spec

\* Whatever is retried, split and answered, an execution claims no more requests than its
\* budget allows (budget.py), and an extraction makes no more recovery calls than it may
\* (llm_extractor.py).
THEOREM CapsHold == Spec => []TypeOK
<1>1. IInv => TypeOK
  BY DEF IInv
<1> QED
  BY <1>1, Invariant, PTL

\* An execution fails for the reason it gives: three attempts of the stage it names, each
\* of which has asked the provider, a spent budget, or an error that is not retried
\* (graph.py, workflow.py).
THEOREM FailuresAreExplained == Spec => []FailureIsExplained
<1>1. IInv => FailureIsExplained
  BY DEF IInv
<1> QED
  BY <1>1, Invariant, PTL

\* Whatever the provider answers and whatever is retried, split or lost, no accepted article
\* vanishes: after the extraction each of its occurrences has an inference, or an error
\* names its lost batch, and every event quotes its article or is read from its title
\* (llm_extractor.py, dart_filing.py).
THEOREM NoArticleVanishes == Spec => []ArticlesAccounted
<1>1. AInv => ArticlesAccounted
  BY DEF AInv
<1>2. Spec => []AInv
  BY InitAccounted, ArticlesStep, Invariant, PTL DEF Spec
<1> QED
  BY <1>1, <1>2, PTL

\* What the dashboard was told is what happened (workflow.py): each event is of another
\* node and names the one that follows, extract's accounts for every article of the input,
\* and at the end the counts that were told are those of the statistics.
THEOREM ProgressIsTrue == Spec => []ProgressTellsTruth
<1>1. Spec => [](AInv /\ PInv)
  BY InitAccounted, InitTells, ArticlesStep, ProgressStep, Invariant, PTL DEF Spec
<1> QED
  BY <1>1, TellsTruth, PTL
=============================================================================
