----------------------------- MODULE Lists_proofs -----------------------------
(***************************************************************************)
(* What the operators on lists return.  Facts of every list are stated of  *)
(* sets of places or of elements, for the provers do not instantiate a     *)
(* fact about operators; so is induction.                                  *)
(***************************************************************************)
EXTENDS Lists, SequenceTheorems, FiniteSetTheorems, TLAPS

----------------------------------------------------------------------------
(* Induction.                                                              *)

LEMMA Least ==
    ASSUME NEW T, T \subseteq Nat, T # {}
    PROVE  \E m \in T : \A k \in T : m <= k
<1> DEFINE R == OpToRel(<, Nat)
<1>1. IsWellFoundedOn(R, Nat)
  BY NatLessThanWellFounded
<1>2. \A k, m \in Nat : k < m => <<k, m>> \in R
  BY DEF OpToRel
<1> HIDE DEF R
<1>3. PICK m \in T : \A k \in T : ~ (<<k, m>> \in R)
  BY <1>1, WFMin
<1>4. \A k \in T : ~ (k < m)
  BY <1>2, <1>3
<1> QED
  BY <1>4

LEMMA SetInduction ==
    ASSUME NEW T, 0 \in T, \A n \in Nat : n \in T => n + 1 \in T
    PROVE  Nat \subseteq T
<1> DEFINE U == Nat \ T
<1> SUFFICES ASSUME U # {} PROVE FALSE
  OBVIOUS
<1>1. PICK m \in U : \A k \in U : m <= k
  BY Least
<1>2. m # 0 /\ m - 1 \in Nat
  BY <1>1
<1>3. m - 1 \in T
  BY <1>1, <1>2
<1> QED
  BY <1>1, <1>2, <1>3

LEMMA BoundedInduction ==
    ASSUME NEW N \in Nat, NEW T, 0 \in T, \A n \in Nat : n < N /\ n \in T => n + 1 \in T
    PROVE  \A n \in 0 .. N : n \in T
<1> DEFINE U == {n \in Nat : n <= N => n \in T}
<1>1. 0 \in U
  OBVIOUS
<1>2. ASSUME NEW n \in Nat, n \in U PROVE n + 1 \in U
  BY <1>2
<1> HIDE DEF U
<1>3. Nat \subseteq U
  BY <1>1, <1>2, SetInduction
<1> QED
  BY <1>3 DEF U

\* What is computed step by step from a value.
Iterates(f, N, a, step) == f[0] = a /\ \A n \in 1 .. N : f[n] = step[n][f[n - 1]]

LEMMA Iterated ==
    ASSUME NEW N \in Nat, NEW A, NEW a \in A, NEW step \in [1 .. N -> [A -> A]]
    PROVE  \E f \in [0 .. N -> A] : Iterates(f, N, a, step)
<1> DEFINE T == {m \in Nat : \E f \in [0 .. m -> A] : Iterates(f, m, a, step)}
<1>1. 0 \in T
  <2>1. [n \in 0 .. 0 |-> a] \in [0 .. 0 -> A] /\ Iterates([n \in 0 .. 0 |-> a], 0, a, step)
    BY DEF Iterates
  <2> QED
    BY <2>1
<1>2. ASSUME NEW m \in Nat, m < N /\ m \in T PROVE m + 1 \in T
  <2>1. PICK f \in [0 .. m -> A] : Iterates(f, m, a, step)
    BY <1>2
  <2> DEFINE g == [n \in 0 .. m + 1 |-> IF n <= m THEN f[n] ELSE step[n][f[m]]]
  <2>2. m + 1 \in 1 .. N /\ f[m] \in A /\ step[m + 1] \in [A -> A]
    BY <1>2
  <2>3. step[m + 1][f[m]] \in A
    BY <2>2
  <2>4. g \in [0 .. m + 1 -> A]
    <3> SUFFICES ASSUME NEW n \in 0 .. m + 1 PROVE g[n] \in A
      OBVIOUS
    <3>1. CASE n <= m
      BY <3>1
    <3>2. CASE n = m + 1
      BY <2>3, <3>2
    <3> QED
      BY <3>1, <3>2
  <2>5. g[0] = a
    BY <2>1 DEF Iterates
  <2>6. ASSUME NEW n \in 1 .. m + 1 PROVE g[n] = step[n][g[n - 1]]
    <3>1. n - 1 \in 0 .. m + 1 /\ n - 1 <= m
      OBVIOUS
    <3>2. g[n - 1] = f[n - 1]
      BY <3>1
    <3>3. CASE n <= m
      <4>1. g[n] = f[n]
        BY <3>3
      <4>2. n \in 1 .. m
        BY <3>3
      <4>3. f[n] = step[n][f[n - 1]]
        BY <2>1, <4>2 DEF Iterates
      <4> QED
        BY <3>2, <4>1, <4>3
    <3>4. CASE n = m + 1
      <4>1. g[n] = step[n][f[m]] /\ n - 1 = m
        BY <3>4
      <4> QED
        BY <3>2, <4>1
    <3> QED
      BY <3>3, <3>4
  <2> HIDE DEF g
  <2>7. Iterates(g, m + 1, a, step)
    BY <2>5, <2>6 DEF Iterates
  <2> QED
    BY <2>4, <2>7
<1> HIDE DEF T
<1>3. \A n \in 0 .. N : n \in T
  BY <1>1, <1>2, BoundedInduction
<1>4. N \in T
  BY <1>3
<1> QED
  BY <1>4 DEF T

----------------------------------------------------------------------------
(* Lists.                                                                  *)

LEMMA ListIsSeq ==
    ASSUME NEW s, IsList(s)
    PROVE  s \in Seq(ToSet(s)) /\ DOMAIN s = 1 .. Len(s) /\ Len(s) \in Nat
BY DEF IsList, ToSet

LEMMA SeqIsList ==
    ASSUME NEW S, NEW s \in Seq(S)
    PROVE  IsList(s) /\ DOMAIN s = 1 .. Len(s) /\ ToSet(s) \subseteq S
BY DEF IsList, ToSet

LEMMA EmptyIsList == IsList(<<>>) /\ Len(<<>>) = 0 /\ DOMAIN <<>> = {}
BY DEF IsList

LEMMA FunctionIsList ==
    ASSUME NEW n \in Nat, NEW s, s = [k \in 1 .. n |-> s[k]]
    PROVE  IsList(s) /\ Len(s) = n
<1>1. s \in Seq({s[k] : k \in 1 .. n}) /\ Len(s) = n
  OBVIOUS
<1> QED
  BY <1>1, SeqIsList

----------------------------------------------------------------------------
(* The places of a list.                                                   *)

LEMMA UpTo ==
    ASSUME NEW N \in Nat
    PROVE  IsFiniteSet(1 .. N) /\ Cardinality(1 .. N) = N
BY FS_Interval

LEMMA DisjointUnion ==
    ASSUME NEW S, NEW T, IsFiniteSet(S), IsFiniteSet(T), S \cap T = {}
    PROVE  /\ IsFiniteSet(S \cup T) /\ Cardinality(S \cup T) = Cardinality(S) + Cardinality(T)
           /\ Cardinality(S) \in Nat /\ Cardinality(T) \in Nat
<1>1. IsFiniteSet(S \cup T) /\ Cardinality(S \cup T) = Cardinality(S) + Cardinality(T) - Cardinality(S \cap T)
  BY FS_Union
<1>2. Cardinality(S \cap T) = 0
  BY FS_EmptySet
<1>3. Cardinality(S) \in Nat /\ Cardinality(T) \in Nat
  BY FS_CardinalityType
<1> QED
  BY <1>1, <1>2, <1>3

LEMMA PlacesFinite ==
    ASSUME NEW N \in Nat, NEW S \in SUBSET (1 .. N)
    PROVE  IsFiniteSet(S) /\ Cardinality(S) \in Nat /\ Cardinality(S) <= N
<1>1. IsFiniteSet(1 .. N) /\ Cardinality(1 .. N) = N
  BY UpTo
<1>2. IsFiniteSet(S) /\ Cardinality(S) <= N
  BY <1>1, FS_Subset
<1> QED
  BY <1>2, FS_CardinalityType

\* Where a place stands among others.
Ordinal(places, p) == Cardinality({q \in places : q <= p})

LEMMA OrdinalGrows ==
    ASSUME NEW N \in Nat, NEW S \in SUBSET (1 .. N), NEW p \in S
    PROVE  /\ IsFiniteSet(S) /\ Cardinality(S) \in Nat
           /\ Ordinal(S, p) \in 1 .. Cardinality(S)
           /\ \A q \in S : p < q => Ordinal(S, p) < Ordinal(S, q)
<1>1. IsFiniteSet(S) /\ Cardinality(S) \in Nat
  BY PlacesFinite
<1>2. \A q \in S : /\ IsFiniteSet({r \in S : r <= q}) /\ Cardinality({r \in S : r <= q}) \in Nat
                   /\ Cardinality({r \in S : r <= q}) <= Cardinality(S)
  BY <1>1, FS_Subset, FS_CardinalityType
<1>3. Cardinality({r \in S : r <= p}) # 0
  BY <1>2, FS_EmptySet
<1>4. ASSUME NEW q \in S, p < q
      PROVE  Ordinal(S, p) < Ordinal(S, q)
  <2>1. {r \in S : r <= p} \in SUBSET {r \in S : r <= q} /\ {r \in S : r <= p} # {r \in S : r <= q}
    <3>1. p \in Int /\ q \in Int /\ \A r \in S : r \in Int
      OBVIOUS
    <3>2. \A r \in S : r <= p => r <= q
      BY <1>4, <3>1
    <3>3. q \in {r \in S : r <= q} /\ q \notin {r \in S : r <= p}
      BY <1>4, <3>1
    <3> QED
      BY <3>2, <3>3
  <2>2. /\ Cardinality({r \in S : r <= p}) <= Cardinality({r \in S : r <= q})
        /\ Cardinality({r \in S : r <= p}) # Cardinality({r \in S : r <= q})
    BY <1>2, <2>1, FS_Subset
  <2> QED
    BY <1>2, <2>2 DEF Ordinal
<1> QED
  BY <1>1, <1>2, <1>3, <1>4 DEF Ordinal

LEMMA OrdinalTells ==
    ASSUME NEW N \in Nat, NEW S \in SUBSET (1 .. N), NEW p \in S, NEW q \in S, Ordinal(S, p) = Ordinal(S, q)
    PROVE  p = q
<1>1. ASSUME NEW a \in S PROVE Ordinal(S, a) \in Int /\ \A b \in S : a < b => Ordinal(S, a) < Ordinal(S, b)
  <2>1. Ordinal(S, a) \in 1 .. Cardinality(S) /\ Cardinality(S) \in Nat
    BY OrdinalGrows
  <2>2. \A b \in S : a < b => Ordinal(S, a) < Ordinal(S, b)
    BY OrdinalGrows
  <2> QED
    BY <2>1, <2>2
<1>2. p \in Int /\ q \in Int
  OBVIOUS
<1>3. Ordinal(S, p) \in Int /\ (p < q => Ordinal(S, p) < Ordinal(S, q))
  BY <1>1
<1>4. Ordinal(S, q) \in Int /\ (q < p => Ordinal(S, q) < Ordinal(S, p))
  BY <1>1
<1> QED
  BY <1>2, <1>3, <1>4

\* Each of the numbers up to their count is the rank of one place.
LEMMA NthPlace ==
    ASSUME NEW N \in Nat, NEW S \in SUBSET (1 .. N), NEW n \in 1 .. Cardinality(S)
    PROVE  Nth(S, n) \in S /\ Ordinal(S, Nth(S, n)) = n
<1> DEFINE r == [p \in S |-> Ordinal(S, p)]
           C == Cardinality(S)
<1>1. C \in Nat /\ IsFiniteSet(S)
  BY PlacesFinite
<1>2. r \in [S -> 1 .. C]
  BY OrdinalGrows
<1>3. \A p, q \in S : r[p] = r[q] => p = q
  BY OrdinalTells
<1>4. r \in Injection(S, 1 .. C)
  BY <1>2, <1>3 DEF Injection, IsInjective
<1>5. IsFiniteSet(1 .. C) /\ Cardinality(1 .. C) = C
  BY <1>1, FS_Interval
<1>6. r \in Surjection(S, 1 .. C)
  BY <1>4, <1>5, FS_Injection
<1>7. \E p \in S : r[p] = n
  BY <1>6 DEF Surjection
<1>8. \E p \in S : Cardinality({q \in S : q <= p}) = n
  BY <1>7 DEF Ordinal
<1> QED
  BY <1>8 DEF Nth, Ordinal

\* What is picked is a list of the elements at the places, in their order.
LEMMA PickedIsList ==
    ASSUME NEW s, NEW N \in Nat, NEW S \in SUBSET (1 .. N)
    PROVE  /\ IsList(Picked(s, S)) /\ Len(Picked(s, S)) = Cardinality(S) /\ Cardinality(S) \in Nat
           /\ DOMAIN Picked(s, S) = 1 .. Cardinality(S)
           /\ \A x : x \in ToSet(Picked(s, S)) <=> \E p \in S : x = s[p]
           /\ \A n \in 1 .. Cardinality(S) :
                 Nth(S, n) \in S /\ Ordinal(S, Nth(S, n)) = n /\ Picked(s, S)[n] = s[Nth(S, n)]
<1>1. Cardinality(S) \in Nat
  BY PlacesFinite
<1>2. IsList(Picked(s, S)) /\ Len(Picked(s, S)) = Cardinality(S)
  BY <1>1, FunctionIsList DEF Picked
<1>3. \A n \in 1 .. Cardinality(S) : Nth(S, n) \in S /\ Ordinal(S, Nth(S, n)) = n
  BY NthPlace
<1>4. ASSUME NEW p \in S PROVE Ordinal(S, p) \in 1 .. Cardinality(S) /\ Nth(S, Ordinal(S, p)) = p
  <2> DEFINE q == Nth(S, Ordinal(S, p))
  <2>1. Ordinal(S, p) \in 1 .. Cardinality(S)
    BY OrdinalGrows
  <2>2. q \in S /\ Ordinal(S, q) = Ordinal(S, p)
    BY <2>1, NthPlace
  <2> HIDE DEF q
  <2>4. p = q
    BY <2>1, <2>2, OrdinalTells
  <2> QED
    BY <2>1, <2>4 DEF q
<1>5. \A n \in 1 .. Cardinality(S) : Picked(s, S)[n] = s[Nth(S, n)]
  BY DEF Picked
<1>6. DOMAIN Picked(s, S) = 1 .. Cardinality(S)
  BY DEF Picked
<1>7. \A x : x \in ToSet(Picked(s, S)) <=> \E p \in S : x = s[p]
  <2> DEFINE r == Picked(s, S)
  <2>1. \A n \in DOMAIN r : r[n] \in {s[p] : p \in S}
    BY <1>3, <1>5, <1>6
  <2>2. ASSUME NEW p \in S PROVE \E n \in DOMAIN r : r[n] = s[p]
    BY <1>4, <1>5, <1>6
  <2> HIDE DEF r
  <2>3. \A x : x \in {r[n] : n \in DOMAIN r} <=> \E p \in S : x = s[p]
    BY <2>1, <2>2
  <2> QED
    BY <2>3 DEF ToSet, r
<1> QED
  BY <1>1, <1>2, <1>3, <1>5, <1>6, <1>7

LEMMA PickedFromList ==
    ASSUME NEW s, IsList(s), NEW S \in SUBSET DOMAIN s
    PROVE  /\ IsList(Picked(s, S)) /\ Len(Picked(s, S)) = Cardinality(S)
           /\ Cardinality(S) \in Nat /\ Cardinality(S) <= Len(s) /\ IsFiniteSet(S)
           /\ \A x : x \in ToSet(Picked(s, S)) <=> \E p \in S : x = s[p]
<1>1. PICK N \in Nat : N = Len(s) /\ DOMAIN s = 1 .. N
  BY ListIsSeq
<1>2. S \in SUBSET (1 .. N)
  BY <1>1
<1>3. IsFiniteSet(S) /\ Cardinality(S) <= Len(s)
  BY <1>1, <1>2, PlacesFinite
<1>4. IsList(Picked(s, S)) /\ Len(Picked(s, S)) = Cardinality(S) /\ Cardinality(S) \in Nat
  BY <1>2, PickedIsList
<1>5. \A x : x \in ToSet(Picked(s, S)) <=> \E p \in S : x = s[p]
  BY <1>2, PickedIsList
<1> QED
  BY <1>3, <1>4, <1>5

----------------------------------------------------------------------------
(* Lists one after another.                                                *)

LEMMA PickedPlaces ==
    ASSUME NEW s, IsList(s), NEW S \in SUBSET DOMAIN s
    PROVE  \E C \in Nat :
              /\ C = Cardinality(S) /\ Len(Picked(s, S)) = C /\ DOMAIN Picked(s, S) = 1 .. C
              /\ \A n \in 1 .. C : Nth(S, n) \in S /\ Picked(s, S)[n] = s[Nth(S, n)]
<1>1. PICK N \in Nat : DOMAIN s = 1 .. N
  BY ListIsSeq
<1>2. S \in SUBSET (1 .. N)
  BY <1>1
<1>3. Len(Picked(s, S)) = Cardinality(S) /\ Cardinality(S) \in Nat
  BY <1>2, PickedIsList
<1>4. DOMAIN Picked(s, S) = 1 .. Cardinality(S)
  BY <1>2, PickedIsList
<1>5. \A n \in 1 .. Cardinality(S) : Nth(S, n) \in S /\ Picked(s, S)[n] = s[Nth(S, n)]
  BY <1>2, PickedIsList
<1> QED
  BY <1>3, <1>4, <1>5

LEMMA Concatenated ==
    ASSUME NEW s, NEW t, IsList(s), IsList(t)
    PROVE  /\ IsList(s \o t) /\ Len(s \o t) = Len(s) + Len(t)
           /\ DOMAIN (s \o t) = 1 .. Len(s) + Len(t)
           /\ \A n \in 1 .. Len(s) : (s \o t)[n] = s[n]
           /\ \A n \in 1 .. Len(t) : (s \o t)[Len(s) + n] = t[n]
           /\ ToSet(s \o t) = ToSet(s) \cup ToSet(t)
<1> DEFINE S == ToSet(s) \cup ToSet(t)
           u == s \o t
<1>1. s \in Seq(S) /\ t \in Seq(S) /\ Len(s) \in Nat /\ Len(t) \in Nat
  <2>1. s \in Seq(ToSet(s)) /\ t \in Seq(ToSet(t))
    BY ListIsSeq
  <2>2. ToSet(s) \subseteq S /\ ToSet(t) \subseteq S
    OBVIOUS
  <2> HIDE DEF S
  <2> QED
    BY <2>1, <2>2, SeqMonotonic
<1> HIDE DEF S
<1>2. /\ u \in Seq(S) /\ Len(u) = Len(s) + Len(t)
      /\ \A n \in 1 .. Len(s) + Len(t) : u[n] = IF n <= Len(s) THEN s[n] ELSE t[n - Len(s)]
  BY <1>1, ConcatProperties
<1> HIDE DEF u
<1>3. IsList(u) /\ DOMAIN u = 1 .. Len(s) + Len(t)
  BY <1>2, SeqIsList
<1>4. \A n \in 1 .. Len(s) : u[n] = s[n]
  BY <1>1, <1>2
<1>5. \A n \in 1 .. Len(t) : u[Len(s) + n] = t[n]
  <2>1. PICK l \in Nat, m \in Nat : l = Len(s) /\ m = Len(t)
    BY <1>1
  <2>2. \A n \in 1 .. l + m : u[n] = IF n <= l THEN s[n] ELSE t[n - l]
    BY <1>2, <2>1
  <2>3. ASSUME NEW n \in 1 .. m PROVE u[l + n] = t[n]
    <3>1. l + n \in 1 .. l + m /\ ~(l + n <= l) /\ l + n - l = n
      BY <2>1
    <3>2. PICK q \in 1 .. l + m : q = l + n
      BY <3>1
    <3>3. u[q] = t[q - l]
      BY <2>2, <3>1, <3>2
    <3> QED
      BY <3>1, <3>2, <3>3
  <2> QED
    BY <2>1, <2>3
<1>6. DOMAIN s = 1 .. Len(s) /\ DOMAIN t = 1 .. Len(t)
  BY ListIsSeq
<1>7. ToSet(u) \subseteq S
  BY <1>2, SeqIsList
<1>8. ToSet(s) \subseteq ToSet(u)
  <2>1. 1 .. Len(s) \subseteq DOMAIN u
    BY <1>1, <1>3
  <2> QED
    BY <1>4, <1>6, <2>1 DEF ToSet
<1>9. ToSet(t) \subseteq ToSet(u)
  <2>1. \A n \in 1 .. Len(t) : Len(s) + n \in DOMAIN u
    BY <1>1, <1>3
  <2> QED
    BY <1>5, <1>6, <2>1 DEF ToSet
<1> QED
  BY <1>2, <1>3, <1>4, <1>5, <1>7, <1>8, <1>9 DEF S, u

\* How many elements of a list are in a set.
Count(s, S) == Cardinality({n \in DOMAIN s : s[n] \in S})

LEMMA CountOf ==
    ASSUME NEW s, NEW S, IsList(s)
    PROVE  /\ IsFiniteSet({n \in DOMAIN s : s[n] \in S}) /\ Count(s, S) \in Nat /\ Count(s, S) <= Len(s)
           /\ Count(s, S) = 0 <=> \A n \in DOMAIN s : s[n] \notin S
<1>1. DOMAIN s = 1 .. Len(s) /\ Len(s) \in Nat
  BY ListIsSeq
<1>2. {n \in DOMAIN s : s[n] \in S} \in SUBSET (1 .. Len(s))
  BY <1>1
<1>3. IsFiniteSet({n \in DOMAIN s : s[n] \in S}) /\ Count(s, S) \in Nat /\ Count(s, S) <= Len(s)
  BY <1>1, <1>2, PlacesFinite DEF Count
<1>4. Count(s, S) = 0 <=> {n \in DOMAIN s : s[n] \in S} = {}
  BY <1>3, FS_EmptySet DEF Count
<1> QED
  BY <1>3, <1>4

\* A set that is moved along the numbers has as many members.
LEMMA ShiftedSize ==
    ASSUME NEW A, IsFiniteSet(A), A \subseteq Int, NEW d \in Int, NEW B,
           \A a \in A : a + d \in B, \A b \in B : b - d \in A, B \subseteq Int
    PROVE  IsFiniteSet(B) /\ Cardinality(B) = Cardinality(A)
<1> DEFINE f == [a \in A |-> a + d]
<1>1. f \in [A -> B]
  OBVIOUS
<1>2. \A a, b \in A : f[a] = f[b] => a = b
  OBVIOUS
<1>3. \A b \in B : b - d \in A /\ f[b - d] = b
  OBVIOUS
<1> HIDE DEF f
<1>4. f \in Bijection(A, B)
  BY <1>1, <1>2, <1>3 DEF Bijection, Injection, Surjection, IsInjective
<1> QED
  BY <1>4, FS_Bijection DEF ExistsBijection

LEMMA CountConcat ==
    ASSUME NEW s, NEW t, NEW S, IsList(s), IsList(t)
    PROVE  Count(s \o t, S) = Count(s, S) + Count(t, S)
<1> DEFINE u == s \o t
           A == {n \in DOMAIN s : s[n] \in S}
           B == {n \in DOMAIN t : t[n] \in S}
           C == {n \in DOMAIN u : u[n] \in S /\ n > Len(s)}
           D == {n \in DOMAIN u : u[n] \in S}
<1>1. /\ Len(s) \in Nat /\ Len(t) \in Nat /\ DOMAIN s = 1 .. Len(s) /\ DOMAIN t = 1 .. Len(t)
      /\ DOMAIN u = 1 .. Len(s) + Len(t)
      /\ \A n \in 1 .. Len(s) : u[n] = s[n]
      /\ \A n \in 1 .. Len(t) : u[Len(s) + n] = t[n]
  BY ListIsSeq, Concatenated
<1> HIDE DEF u
<1>2. IsFiniteSet(A) /\ IsFiniteSet(B) /\ Cardinality(A) \in Nat /\ Cardinality(B) \in Nat
  BY CountOf DEF Count
<1>3. IsFiniteSet(C) /\ Cardinality(C) = Cardinality(B)
  <2>1. B \subseteq Int /\ C \subseteq Int /\ Len(s) \in Int
    BY <1>1
  <2>2. \A b \in B : b + Len(s) \in C
    BY <1>1
  <2>3. ASSUME NEW c \in C PROVE c - Len(s) \in B
    <3>1. c - Len(s) \in 1 .. Len(t) /\ Len(s) + (c - Len(s)) = c
      BY <1>1
    <3> QED
      BY <1>1, <3>1
  <2> HIDE DEF B, C
  <2> QED
    BY <1>2, <2>1, <2>2, <2>3, ShiftedSize
<1>4. D = A \cup C /\ A \cap C = {}
  <2>1. ASSUME NEW n \in D PROVE n \in A \/ n \in C
    BY <1>1
  <2>2. ASSUME NEW n \in A PROVE n \in D /\ n \notin C
    BY <1>1
  <2>3. C \subseteq D
    OBVIOUS
  <2> QED
    BY <2>1, <2>2, <2>3
<1> HIDE DEF A, B, C, D
<1>5. Cardinality(D) = Cardinality(A) + Cardinality(C) - Cardinality({})
  BY <1>2, <1>3, <1>4, FS_Union
<1>6. Cardinality(D) = Cardinality(A) + Cardinality(B)
  BY <1>2, <1>3, <1>5, FS_EmptySet
<1> QED
  BY <1>6 DEF Count, A, B, D, u

\* FlattenSeq concatenates from the left.
LEMMA FlattenSteps ==
    ASSUME NEW ss, IsList(ss), NEW N, N = Len(ss), N # 0
    PROVE  \E f : /\ \A i \in 1 .. N : f[i] = IF i = 1 THEN ss[i] ELSE f[i - 1] \o ss[i]
                  /\ FlattenSeq(ss) = f[N]
<1> DEFINE After(f, i) == IF i = 1 THEN ss[i] ELSE f[i - 1] \o ss[i]
           flatten == CHOOSE f : f = [i \in 1 .. N |-> After(f, i)]
           Begun == {n \in Nat : \E f : f = [i \in 1 .. n |-> After(f, i)]}
<1>1. N \in Nat /\ DOMAIN ss = 1 .. N
  BY ListIsSeq
<1>2. N \in Begun
  <2>1. 0 \in Begun
    <3>1. [i \in 1 .. 0 |-> 0] = [i \in 1 .. 0 |-> After([j \in 1 .. 0 |-> 0], i)]
      OBVIOUS
    <3> HIDE DEF After
    <3> QED
      BY <3>1
  <2>2. ASSUME NEW n \in Nat, n \in Begun PROVE n + 1 \in Begun
    <3>1. PICK f : f = [i \in 1 .. n |-> After(f, i)]
      BY <2>2
    <3> DEFINE g == [i \in 1 .. n + 1 |-> IF i <= n THEN f[i] ELSE After(f, i)]
    <3>2. ASSUME NEW i \in 1 .. n + 1 PROVE g[i] = After(g, i)
      <4>1. g[i] = After(f, i)
        <5>1. g[i] = IF i <= n THEN f[i] ELSE After(f, i)
          OBVIOUS
        <5> HIDE DEF g, After
        <5>2. i <= n => f[i] = After(f, i)
          BY <3>1
        <5> QED
          BY <5>1, <5>2
      <4>2. i # 1 => i - 1 \in 1 .. n /\ i - 1 \in 1 .. n + 1 /\ i - 1 <= n
        OBVIOUS
      <4>3. i # 1 => g[i - 1] = f[i - 1]
        BY <4>2
      <4> HIDE DEF g
      <4> QED
        BY <4>1, <4>3
    <3>3. g = [i \in 1 .. n + 1 |-> g[i]]
      OBVIOUS
    <3> HIDE DEF g, After
    <3>4. g = [i \in 1 .. n + 1 |-> After(g, i)]
      BY <3>2, <3>3
    <3> QED
      BY <3>4
  <2> HIDE DEF Begun
  <2> QED
    BY <1>1, <2>1, <2>2, SetInduction
<1>3. flatten = [i \in 1 .. N |-> After(flatten, i)]
  <2>1. \E f : f = [i \in 1 .. N |-> After(f, i)]
    BY <1>2
  <2> HIDE DEF After
  <2> QED
    BY <2>1
<1>4. FlattenSeq(ss) = flatten[N]
  BY DEF FlattenSeq
<1> HIDE DEF flatten
<1>5. \A i \in 1 .. N : flatten[i] = IF i = 1 THEN ss[i] ELSE flatten[i - 1] \o ss[i]
  BY <1>3
<1> QED
  BY <1>4, <1>5

LEMMA FlattenNone ==
    ASSUME NEW ss, IsList(ss), Len(ss) = 0
    PROVE  FlattenSeq(ss) = ss /\ DOMAIN ss = {} /\ ToSet(ss) = {}
<1>1. FlattenSeq(ss) = ss
  BY DEF FlattenSeq
<1>2. DOMAIN ss = {}
  BY ListIsSeq
<1> QED
  BY <1>1, <1>2 DEF ToSet

LEMMA Flattened ==
    ASSUME NEW ss, IsList(ss), \A n \in DOMAIN ss : IsList(ss[n])
    PROVE  IsList(FlattenSeq(ss)) /\ ToSet(FlattenSeq(ss)) = UNION {ToSet(ss[n]) : n \in DOMAIN ss}
<1>1. PICK N \in Nat : N = Len(ss) /\ DOMAIN ss = 1 .. N
  BY ListIsSeq
<1>2. CASE N = 0
  BY <1>1, <1>2, FlattenNone
<1>3. CASE N # 0
  <2>1. PICK f : /\ \A i \in 1 .. N : f[i] = IF i = 1 THEN ss[i] ELSE f[i - 1] \o ss[i]
                 /\ FlattenSeq(ss) = f[N]
    BY <1>1, <1>3, FlattenSteps
  <2> DEFINE Right == {n \in Nat : n \in 1 .. N => /\ IsList(f[n])
                                                   /\ ToSet(f[n]) = UNION {ToSet(ss[k]) : k \in 1 .. n}}
  <2>2. 0 \in Right
    OBVIOUS
  <2>3. ASSUME NEW n \in Nat, n \in Right PROVE n + 1 \in Right
    <3> SUFFICES ASSUME n + 1 \in 1 .. N
                 PROVE  /\ IsList(f[n + 1])
                        /\ ToSet(f[n + 1]) = UNION {ToSet(ss[k]) : k \in 1 .. n + 1}
      OBVIOUS
    <3>1. IsList(ss[n + 1])
      BY <1>1
    <3>2. CASE n = 0
      <4>1. f[n + 1] = ss[1]
        BY <2>1, <3>2
      <4>2. 1 .. n + 1 = {1}
        BY <3>2
      <4> QED
        BY <3>1, <3>2, <4>1, <4>2
    <3>3. CASE n # 0
      <4>1. n \in 1 .. N /\ n + 1 # 1 /\ (n + 1) - 1 = n
        BY <1>1, <3>3
      <4>2. IsList(f[n]) /\ ToSet(f[n]) = UNION {ToSet(ss[k]) : k \in 1 .. n}
        BY <2>3, <4>1
      <4>3. f[n + 1] = f[n] \o ss[n + 1]
        BY <2>1, <4>1
      <4>4. IsList(f[n + 1]) /\ ToSet(f[n + 1]) = ToSet(f[n]) \cup ToSet(ss[n + 1])
        BY <3>1, <4>2, <4>3, Concatenated
      <4>5. 1 .. n + 1 = (1 .. n) \cup {n + 1}
        OBVIOUS
      <4> QED
        BY <4>2, <4>4, <4>5
    <3> QED
      BY <3>2, <3>3
  <2> HIDE DEF Right
  <2>4. N \in Right
    BY <1>1, <2>2, <2>3, SetInduction
  <2>5. N \in 1 .. N
    BY <1>3
  <2>6. IsList(f[N]) /\ ToSet(f[N]) = UNION {ToSet(ss[n]) : n \in 1 .. N}
    BY <2>4, <2>5 DEF Right
  <2> QED
    BY <1>1, <2>1, <2>6
<1> QED
  BY <1>2, <1>3

----------------------------------------------------------------------------
(* Sets that a bijection matches.                                          *)

LEMMA PairsFinite ==
    ASSUME NEW S, IsFiniteSet(S), NEW P, \A s \in S : IsFiniteSet(P[s])
    PROVE  IsFiniteSet(UNION {{s} \X P[s] : s \in S})
<1> DEFINE Fibres == {{s} \X P[s] : s \in S}
           f == [s \in S |-> {s} \X P[s]]
<1>1. f \in Surjection(S, Fibres)
  BY DEF Surjection
<1>2. IsFiniteSet(Fibres)
  BY <1>1, FS_Surjection
<1>3. ASSUME NEW s \in S PROVE IsFiniteSet({s} \X P[s])
  <2>1. IsFiniteSet({s})
    BY FS_Singleton
  <2> QED
    BY <2>1, FS_Product
<1>4. \A F \in Fibres : IsFiniteSet(F)
  BY <1>3
<1> HIDE DEF Fibres
<1>5. IsFiniteSet(UNION Fibres)
  BY <1>2, <1>4, FS_UNION
<1> QED
  BY <1>5 DEF Fibres

LEMMA PartMatches ==
    ASSUME NEW S, IsFiniteSet(S), NEW T, NEW b \in Bijection(S, T), NEW A \in SUBSET S, NEW B \in SUBSET T,
           \A s \in S : s \in A <=> b[s] \in B
    PROVE  Cardinality(A) = Cardinality(B)
<1> DEFINE f == [a \in A |-> b[a]]
<1>1. b \in [S -> T] /\ (\A c, d \in S : b[c] = b[d] => c = d) /\ \A d \in T : \E c \in S : b[c] = d
  BY DEF Bijection, Injection, Surjection, IsInjective
<1>2. f \in [A -> B]
  BY <1>1
<1>3. \A c, d \in A : f[c] = f[d] => c = d
  BY <1>1
<1>4. \A t \in B : \E a \in A : f[a] = t
  BY <1>1
<1> HIDE DEF f
<1>5. f \in Bijection(A, B)
  BY <1>2, <1>3, <1>4 DEF Bijection, Injection, Surjection, IsInjective
<1>6. IsFiniteSet(A)
  BY FS_Subset
<1> QED
  BY <1>5, <1>6, FS_Bijection DEF ExistsBijection

LEMMA PairsMatch ==
    ASSUME NEW S, IsFiniteSet(S), NEW T, NEW b \in Bijection(S, T), NEW P, NEW Q,
           \A s \in S : IsFiniteSet(P[s]) /\ Q[b[s]] = P[s]
    PROVE  Cardinality(UNION {{s} \X P[s] : s \in S}) = Cardinality(UNION {{t} \X Q[t] : t \in T})
<1> DEFINE A == UNION {{s} \X P[s] : s \in S}
           B == UNION {{t} \X Q[t] : t \in T}
           f == [a \in A |-> <<b[a[1]], a[2]>>]
<1>1. b \in [S -> T] /\ (\A c, d \in S : b[c] = b[d] => c = d) /\ \A d \in T : \E c \in S : b[c] = d
  BY DEF Bijection, Injection, Surjection, IsInjective
<1>2. \A a : a \in A <=> \E s \in S : \E k \in P[s] : a = <<s, k>>
  OBVIOUS
<1>3. \A a : a \in B <=> \E t \in T : \E k \in Q[t] : a = <<t, k>>
  OBVIOUS
<1>4. IsFiniteSet(A)
  BY PairsFinite
<1> HIDE DEF A, B
<1>5. \A s \in S : \A k \in P[s] : <<s, k>> \in A /\ f[<<s, k>>] = <<b[s], k>>
  BY <1>2
<1>6. f \in [A -> B]
  <2>1. ASSUME NEW a \in A PROVE <<b[a[1]], a[2]>> \in B
    BY <1>1, <1>2, <1>3
  <2> QED
    BY <2>1
<1> HIDE DEF f
<1>7. ASSUME NEW c \in A, NEW d \in A, f[c] = f[d] PROVE c = d
  <2>1. PICK s, k : s \in S /\ k \in P[s] /\ c = <<s, k>>
    BY <1>2
  <2>2. PICK t, m : t \in S /\ m \in P[t] /\ d = <<t, m>>
    BY <1>2
  <2>3. <<b[s], k>> = <<b[t], m>>
    BY <1>5, <1>7, <2>1, <2>2
  <2> QED
    BY <1>1, <2>1, <2>2, <2>3
<1>8. ASSUME NEW d \in B PROVE \E a \in A : f[a] = d
  <2>1. PICK t, k : t \in T /\ k \in Q[t] /\ d = <<t, k>>
    BY <1>3
  <2>2. PICK s \in S : b[s] = t
    BY <1>1, <2>1
  <2> QED
    BY <1>5, <2>1, <2>2
<1>9. f \in Bijection(A, B)
  BY <1>6, <1>7, <1>8 DEF Bijection, Injection, Surjection, IsInjective
<1>10. Cardinality(A) = Cardinality(B)
  BY <1>4, <1>9, FS_Bijection DEF ExistsBijection
<1> QED
  BY <1>10 DEF A, B
----------------------------------------------------------------------------
(* What a count of picked elements is, and of those that are left.         *)

LEMMA PickedCount ==
    ASSUME NEW s, IsList(s), NEW S \in SUBSET DOMAIN s, NEW X
    PROVE  Count(Picked(s, S), X) = Cardinality({p \in S : s[p] \in X})
<1> DEFINE C == Cardinality(S)
           t == Picked(s, S)
           A == {n \in DOMAIN t : t[n] \in X}
           B == {p \in S : s[p] \in X}
           f == [n \in A |-> Nth(S, n)]
<1>1. PICK N \in Nat : DOMAIN s = 1 .. N
  BY ListIsSeq
<1>2. S \in SUBSET (1 .. N)
  BY <1>1
<1>3. /\ C \in Nat /\ DOMAIN t = 1 .. C
      /\ \A n \in 1 .. C : Nth(S, n) \in S /\ Ordinal(S, Nth(S, n)) = n /\ t[n] = s[Nth(S, n)]
  BY <1>2, PickedIsList
<1> HIDE DEF C, t
<1>4. f \in [A -> B]
  BY <1>3
<1>5. \A m, n \in A : f[m] = f[n] => m = n
  BY <1>3
<1>6. ASSUME NEW p \in B PROVE \E n \in A : f[n] = p
  <2>1. Ordinal(S, p) \in 1 .. C
    BY <1>2, OrdinalGrows DEF C
  <2>2. Nth(S, Ordinal(S, p)) \in S /\ Ordinal(S, Nth(S, Ordinal(S, p))) = Ordinal(S, p)
    BY <1>3, <2>1
  <2>3. Nth(S, Ordinal(S, p)) = p
    BY <1>2, <2>2, OrdinalTells
  <2> QED
    BY <1>3, <2>1, <2>3
<1> HIDE DEF f
<1>7. f \in Bijection(A, B)
  BY <1>4, <1>5, <1>6 DEF Bijection, Injection, Surjection, IsInjective
<1>8. A \in SUBSET (1 .. C)
  BY <1>3
<1>9. IsFiniteSet(A)
  BY <1>3, <1>8, PlacesFinite
<1>10. Cardinality(A) = Cardinality(B)
  BY <1>7, <1>9, FS_Bijection DEF ExistsBijection
<1> QED
  BY <1>10 DEF Count, t

LEMMA PartAndRest ==
    ASSUME NEW N \in Nat, NEW A \in SUBSET (1 .. N), NEW B \in SUBSET (1 .. N),
           \A n \in 1 .. N : n \in A <=> n \notin B
    PROVE  Cardinality(A) + Cardinality(B) = N
<1>1. A \cap B = {} /\ A \cup B = 1 .. N
  OBVIOUS
<1>2. IsFiniteSet(A) /\ IsFiniteSet(B)
  BY PlacesFinite
<1> QED
  BY <1>1, <1>2, DisjointUnion, UpTo
LEMMA Appended ==
    ASSUME NEW s, IsList(s), NEW x
    PROVE  LET t == Append(s, x) IN
           /\ IsList(t) /\ Len(t) = Len(s) + 1 /\ DOMAIN t = 1 .. Len(s) + 1
           /\ \A k \in 1 .. Len(s) : t[k] = s[k]
           /\ t[Len(s) + 1] = x
<1>1. PICK S : S = ToSet(s) \cup {x}
  OBVIOUS
<1>2. s \in Seq(S) /\ x \in S
  <2>1. s \in Seq(ToSet(s))
    BY ListIsSeq
  <2> QED
    BY <1>1, <2>1
<1>3. PICK t : t = Append(s, x)
  OBVIOUS
<1>4. t \in Seq(S) /\ Len(t) = Len(s) + 1 /\ t[Len(s) + 1] = x /\ \A k \in 1 .. Len(s) : t[k] = s[k]
  BY <1>2, <1>3, AppendProperties
<1>5. IsList(t) /\ DOMAIN t = 1 .. Len(t)
  BY <1>4, SeqIsList
<1> QED
  BY <1>3, <1>4, <1>5

----------------------------------------------------------------------------
(* Pieces of a list.                                                       *)

\* The list t is that of the m elements of s after the first c.
Piece(t, m, s, c) == IsList(t) /\ Len(t) = m /\ DOMAIN t = 1 .. m /\ \A i \in 1 .. m : t[i] = s[c + i]

LEMMA Cut ==
    ASSUME NEW s, IsList(s), NEW c \in Nat, NEW m \in Nat, c + m <= Len(s), NEW f, f = c + 1, NEW l, l = c + m
    PROVE  Piece(SubSeq(s, f, l), m, s, c)
<1>1. s \in Seq(ToSet(s)) /\ DOMAIN s = 1 .. Len(s) /\ Len(s) \in Nat
  BY ListIsSeq
<1> DEFINE t == SubSeq(s, f, l)
<1>2. \A i \in f .. l : s[i] \in ToSet(s)
  BY <1>1 DEF ToSet
<1>3. /\ t \in Seq(ToSet(s)) /\ Len(t) = IF f <= l THEN l - f + 1 ELSE 0
      /\ \A i \in 1 .. l - f + 1 : t[i] = s[f + i - 1]
  BY <1>2, SubSeqProperties
<1> HIDE DEF t
<1>4. Len(t) = m
  BY <1>3
<1>5. IsList(t) /\ DOMAIN t = 1 .. m
  BY <1>3, <1>4, SeqIsList
<1>6. \A i \in 1 .. m : t[i] = s[c + i]
  <2> SUFFICES ASSUME NEW i \in 1 .. m PROVE t[i] = s[c + i]
    OBVIOUS
  <2>1. i \in 1 .. l - f + 1 /\ f + i - 1 = c + i
    OBVIOUS
  <2> QED
    BY <1>3, <2>1
<1> QED
  BY <1>4, <1>5, <1>6 DEF t, Piece

\* How often x is among the first c elements of a list.
Upto(s, c, x) == Cardinality({p \in 1 .. c : s[p] = x})

LEMMA UptoGrows ==
    ASSUME NEW s, NEW c \in Nat, NEW t, NEW m \in Nat, Piece(t, m, s, c), NEW x, NEW d, d = c + m
    PROVE  /\ Upto(s, d, x) = Upto(s, c, x) + Upto(t, m, x)
           /\ Upto(s, c, x) \in Nat /\ Upto(t, m, x) \in Nat
<1> DEFINE A == {p \in 1 .. c : s[p] = x}
           B == {i \in 1 .. m : t[i] = x}
           D == {p \in c + 1 .. c + m : s[p] = x}
<1>1. A \in SUBSET (1 .. c) /\ B \in SUBSET (1 .. m)
  OBVIOUS
<1>2. IsFiniteSet(A) /\ IsFiniteSet(B) /\ Cardinality(A) \in Nat /\ Cardinality(B) \in Nat
  BY <1>1, PlacesFinite
<1>3. IsFiniteSet(D) /\ Cardinality(D) = Cardinality(B)
  <2>1. B \subseteq Int /\ D \subseteq Int /\ c \in Int
    OBVIOUS
  <2>2. \A b \in B : b + c \in D
    BY DEF Piece
  <2>3. \A e \in D : e - c \in B
    <3> SUFFICES ASSUME NEW e \in D PROVE e - c \in B
      OBVIOUS
    <3>1. e - c \in 1 .. m /\ c + (e - c) = e
      OBVIOUS
    <3>2. t[e - c] = s[e]
      BY <3>1 DEF Piece
    <3> QED
      BY <3>1, <3>2
  <2> HIDE DEF B, D
  <2> QED
    BY <1>2, <2>1, <2>2, <2>3, ShiftedSize
<1>4. {p \in 1 .. c + m : s[p] = x} = A \cup D /\ A \cap D = {}
  OBVIOUS
<1> HIDE DEF A, B, D
<1>5. Cardinality(A \cup D) = Cardinality(A) + Cardinality(D)
  BY <1>2, <1>3, <1>4, DisjointUnion
<1>6. Upto(s, c + m, x) = Cardinality(A) + Cardinality(B)
  BY <1>3, <1>4, <1>5 DEF Upto
<1> QED
  BY <1>2, <1>6 DEF Upto, A, B

----------------------------------------------------------------------------
(* What lists of lists count to, and lists of places and pairs.            *)

\* The numbered members of some sets are as many as the elements that match them.
LEMMA FlattenedCount ==
    ASSUME NEW ss, IsList(ss), \A n \in DOMAIN ss : IsList(ss[n]), NEW X, NEW B,
           \A n \in DOMAIN ss : IsFiniteSet(B[n]) /\ Cardinality(B[n]) = Count(ss[n], X)
    PROVE  Count(FlattenSeq(ss), X) = Cardinality(UNION {{n} \X B[n] : n \in DOMAIN ss})
<1> DEFINE C(m) == UNION {{n} \X B[n] : n \in 1 .. m}
<1>1. PICK N \in Nat : N = Len(ss) /\ DOMAIN ss = 1 .. N
  BY ListIsSeq
<1>2. CASE N = 0
  <2>1. FlattenSeq(ss) = ss /\ DOMAIN ss = {}
    BY <1>1, <1>2, FlattenNone
  <2>2. {n \in DOMAIN ss : ss[n] \in X} = {} /\ UNION {{n} \X B[n] : n \in DOMAIN ss} = {}
    BY <2>1
  <2> QED
    BY <2>1, <2>2 DEF Count
<1>3. CASE N # 0
  <2>1. PICK f : /\ \A i \in 1 .. N : f[i] = IF i = 1 THEN ss[i] ELSE f[i - 1] \o ss[i]
                 /\ FlattenSeq(ss) = f[N]
    BY <1>1, <1>3, FlattenSteps
  <2> DEFINE Right == {n \in Nat : n \in 1 .. N => IsList(f[n]) /\ Count(f[n], X) = Cardinality(C(n))}
  <2>2. ASSUME NEW n \in 1 .. N
        PROVE  /\ IsFiniteSet({n} \X B[n]) /\ Cardinality({n} \X B[n]) = Count(ss[n], X)
               /\ IsList(ss[n])
    <3>1. IsFiniteSet(B[n]) /\ Cardinality(B[n]) = Count(ss[n], X) /\ IsList(ss[n])
      BY <1>1
    <3>2. IsFiniteSet({n}) /\ Cardinality({n}) = 1
      BY FS_Singleton
    <3>3. Cardinality(B[n]) \in Nat
      BY <3>1, FS_CardinalityType
    <3>4. IsFiniteSet({n} \X B[n]) /\ Cardinality({n} \X B[n]) = 1 * Cardinality(B[n])
      BY <3>1, <3>2, FS_Product
    <3> QED
      BY <3>1, <3>3, <3>4
  <2>3. 0 \in Right
    OBVIOUS
  <2>4. ASSUME NEW n \in Nat, n < N /\ n \in Right PROVE n + 1 \in Right
    <3>1. PICK m \in 1 .. N : m = n + 1
      BY <2>4
    <3>2. IsFiniteSet({m} \X B[m]) /\ Cardinality({m} \X B[m]) = Count(ss[m], X) /\ IsList(ss[m])
      BY <2>2
    <3>3. CASE n = 0
      <4>1. f[m] = ss[m]
        BY <2>1, <3>1, <3>3
      <4>2. 1 .. m = {m}
        BY <3>1, <3>3
      <4>3. C(m) = {m} \X B[m]
        BY <4>2
      <4> HIDE DEF C
      <4> QED
        BY <3>1, <3>2, <4>1, <4>3
    <3>4. CASE n # 0
      <4>1. n \in 1 .. N /\ m # 1 /\ m - 1 = n
        BY <2>4, <3>1, <3>4
      <4>2. IsList(f[n]) /\ Count(f[n], X) = Cardinality(C(n))
        BY <2>4, <4>1
      <4>3. f[m] = f[n] \o ss[m]
        BY <2>1, <4>1
      <4>4. IsFiniteSet(C(n))
        <5>1. IsFiniteSet(1 .. n) /\ \A k \in 1 .. n : IsFiniteSet(B[k])
          <6>1. 1 .. n \subseteq 1 .. N
            BY <4>1
          <6> QED
            BY <1>1, <6>1, UpTo
        <5> QED
          BY <5>1, PairsFinite
      <4>5. C(m) = C(n) \cup ({m} \X B[m]) /\ C(n) \cap ({m} \X B[m]) = {}
        <5>1. 1 .. m = (1 .. n) \cup {m} /\ m \notin 1 .. n
          BY <3>1
        <5> QED
          BY <5>1
      <4> HIDE DEF C
      <4>6. Cardinality(C(m)) = Cardinality(C(n)) + Cardinality({m} \X B[m])
        BY <3>2, <4>4, <4>5, DisjointUnion
      <4>7. IsList(f[m]) /\ Count(f[m], X) = Count(f[n], X) + Count(ss[m], X)
        BY <3>2, <4>2, <4>3, Concatenated, CountConcat
      <4> QED
        BY <3>1, <3>2, <4>2, <4>6, <4>7
    <3> QED
      BY <3>3, <3>4
  <2> HIDE DEF Right
  <2>5. N \in Right
    BY <2>3, <2>4, BoundedInduction
  <2>6. N \in 1 .. N
    BY <1>3
  <2>7. Count(f[N], X) = Cardinality(C(N))
    BY <2>5, <2>6 DEF Right
  <2> QED
    BY <1>1, <2>1, <2>7
<1> QED
  BY <1>2, <1>3

\* s has each element of S once, N at most.
InOrder(s, S, N) ==
    \E C \in Nat :
        /\ C = Cardinality(S) /\ C <= N /\ IsList(s) /\ Len(s) = C /\ DOMAIN s = 1 .. C
        /\ \A n \in 1 .. C : s[n] \in S
        /\ \A m, n \in 1 .. C : s[m] = s[n] => m = n
        /\ ToSet(s) = S

LEMMA AscendingIsList ==
    ASSUME NEW N \in Nat, NEW S \in SUBSET (1 .. N)
    PROVE  InOrder(Ascending(S), S, N)
<1>1. PICK C \in Nat : C = Cardinality(S) /\ C <= N
  BY PlacesFinite
<1>2. IsList(Ascending(S)) /\ Len(Ascending(S)) = C /\ DOMAIN Ascending(S) = 1 .. C
  BY <1>1, FunctionIsList DEF Ascending
<1>3. \A n \in 1 .. C : Ascending(S)[n] = Nth(S, n) /\ Nth(S, n) \in S /\ Ordinal(S, Nth(S, n)) = n
  BY <1>1, NthPlace DEF Ascending
<1>4. ASSUME NEW p \in S PROVE \E n \in 1 .. C : Ascending(S)[n] = p
  <2>1. PICK n \in 1 .. C : n = Ordinal(S, p)
    BY <1>1, OrdinalGrows
  <2>2. PICK q \in S : q = Nth(S, n) /\ Ordinal(S, q) = n
    BY <1>3
  <2>3. p = q
    BY <2>1, <2>2, OrdinalTells
  <2> QED
    BY <1>3, <2>2, <2>3
<1> DEFINE s == Ascending(S)
<1>5. ToSet(s) = S
  <2>1. DOMAIN s = 1 .. C /\ (\A n \in 1 .. C : s[n] \in S) /\ \A p \in S : \E n \in 1 .. C : s[n] = p
    BY <1>2, <1>3, <1>4
  <2> HIDE DEF s
  <2> QED
    BY <2>1 DEF ToSet
<1> QED
  BY <1>1, <1>2, <1>3, <1>5 DEF InOrder

\* t is how s starts, n of its elements at most.
StartOf(t, s, n) ==
    \E C \in Nat :
        /\ IsList(t) /\ Len(t) = C /\ DOMAIN t = 1 .. C /\ C <= n /\ C <= Len(s)
        /\ \A k \in 1 .. C : k \in DOMAIN s /\ t[k] = s[k]

LEMMA LeadingIsList ==
    ASSUME NEW s, IsList(s), NEW n \in Nat
    PROVE  StartOf(Leading(s, n), s, n)
<1>1. PICK L \in Nat : L = Len(s) /\ DOMAIN s = 1 .. L
  BY ListIsSeq
<1>2. PICK C \in Nat : C = IF L < n THEN L ELSE n
  OBVIOUS
<1>3. C <= n /\ C <= L
  BY <1>2
<1>4. Leading(s, n) = SubSeq(s, 1, C)
  BY <1>1, <1>2 DEF Leading
<1>5. Piece(SubSeq(s, 1, C), C, s, 0)
  <2>1. 0 \in Nat /\ 0 + C <= Len(s) /\ 1 = 0 + 1 /\ C = 0 + C
    BY <1>1, <1>3
  <2> QED
    BY <2>1, Cut
<1>6. \A k \in 1 .. C : k \in DOMAIN s /\ SubSeq(s, 1, C)[k] = s[k]
  <2> DEFINE t == SubSeq(s, 1, C)
  <2> SUFFICES ASSUME NEW k \in 1 .. C PROVE k \in DOMAIN s /\ t[k] = s[k]
    OBVIOUS
  <2>1. t[k] = s[0 + k]
    BY <1>5 DEF Piece
  <2>2. 0 + k = k /\ k \in 1 .. L
    BY <1>3
  <2> QED
    BY <1>1, <2>1, <2>2
<1>7. IsList(SubSeq(s, 1, C)) /\ Len(SubSeq(s, 1, C)) = C /\ DOMAIN SubSeq(s, 1, C) = 1 .. C
  BY <1>5 DEF Piece
<1> QED
  BY <1>1, <1>3, <1>4, <1>6, <1>7 DEF StartOf

LEMMA CombinationsAre ==
    ASSUME NEW N \in Nat
    PROVE  /\ IsList(Combinations(N))
           /\ \A p : p \in ToSet(Combinations(N)) <=> \E l, r \in 1 .. N : l < r /\ p = <<l, r>>
<1> DEFINE Row(l) == [k \in 1 .. N - l |-> <<l, l + k>>]
           ss == [l \in 1 .. N |-> Row(l)]
<1>1. IsList(ss)
  BY FunctionIsList
<1>2. ASSUME NEW l \in 1 .. N
      PROVE  IsList(ss[l]) /\ \A p : p \in ToSet(ss[l]) <=> \E r \in 1 .. N : l < r /\ p = <<l, r>>
  <2>1. PICK m \in Nat : m = N - l
    OBVIOUS
  <2> DEFINE row == [k \in 1 .. m |-> <<l, l + k>>]
  <2>2. ss[l] = row
    BY <2>1
  <2>3. IsList(row)
    BY FunctionIsList
  <2>4. \A k \in 1 .. m : l + k \in 1 .. N /\ l < l + k
    BY <2>1
  <2>5. \A r \in 1 .. N : l < r => r - l \in 1 .. m /\ l + (r - l) = r
    BY <2>1
  <2>6. \A p : p \in ToSet(row) <=> \E k \in 1 .. m : p = <<l, l + k>>
    BY DEF ToSet
  <2>7. ASSUME NEW p, p \in ToSet(row) PROVE \E r \in 1 .. N : l < r /\ p = <<l, r>>
    BY <2>4, <2>6, <2>7
  <2>8. ASSUME NEW p, NEW r \in 1 .. N, l < r, p = <<l, r>> PROVE p \in ToSet(row)
    BY <2>5, <2>6, <2>8
  <2> HIDE DEF ss, row
  <2> QED
    BY <2>2, <2>3, <2>7, <2>8
<1>3. DOMAIN ss = 1 .. N /\ Combinations(N) = FlattenSeq(ss)
  BY DEF Combinations
<1> HIDE DEF ss
<1>4. IsList(FlattenSeq(ss)) /\ ToSet(FlattenSeq(ss)) = UNION {ToSet(ss[n]) : n \in DOMAIN ss}
  BY <1>1, <1>2, <1>3, Flattened
<1>5. ASSUME NEW p
      PROVE  p \in ToSet(Combinations(N)) <=> \E l, r \in 1 .. N : l < r /\ p = <<l, r>>
  <2>1. p \in ToSet(Combinations(N)) <=> \E l \in 1 .. N : p \in ToSet(ss[l])
    BY <1>3, <1>4
  <2> QED
    BY <1>2, <2>1
<1> QED
  BY <1>3, <1>4, <1>5
=============================================================================
