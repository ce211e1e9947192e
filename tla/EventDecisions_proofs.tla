------------------------ MODULE EventDecisions_proofs ------------------------
(***************************************************************************)
(* Proofs of what one screening decides of its events: that the reports of *)
(* one incident are joined, that a verified event is verified by           *)
(* independent sources, and that what is picked is supported by them.      *)
(***************************************************************************)
EXTENDS EventDecisions, Lists_proofs

----------------------------------------------------------------------------
(* Sorting by keys.                                                        *)

Keys(K) == [1 .. K -> Int]

LEMMA BeforeOrders ==
    ASSUME NEW K \in Nat
    PROVE  /\ \A s \in Keys(K) : ~Before(s, s)
           /\ \A s, t, u \in Keys(K) : Before(s, t) /\ Before(t, u) => Before(s, u)
           /\ \A s, t \in Keys(K) : s # t => Before(s, t) \/ Before(t, s)
<1>1. \A s \in Keys(K) : ~Before(s, s)
  BY DEF Before, Keys
<1>2. ASSUME NEW s \in Keys(K), NEW t \in Keys(K), NEW u \in Keys(K), Before(s, t), Before(t, u)
      PROVE  Before(s, u)
  <2>1. DOMAIN s = 1 .. K /\ DOMAIN t = 1 .. K /\ \A n \in 1 .. K : s[n] \in Int /\ t[n] \in Int /\ u[n] \in Int
    BY DEF Keys
  <2>2. PICK k \in 1 .. K : s[k] < t[k] /\ \A j \in 1 .. k - 1 : s[j] = t[j]
    BY <1>2, <2>1 DEF Before
  <2>3. PICK l \in 1 .. K : t[l] < u[l] /\ \A j \in 1 .. l - 1 : t[j] = u[j]
    BY <1>2, <2>1 DEF Before
  <2>4. CASE k <= l
    <3>1. s[k] < u[k]
      <4>1. CASE k = l
        BY <2>1, <2>2, <2>3, <4>1
      <4>2. CASE k < l
        <5>1. k \in 1 .. l - 1
          BY <4>2
        <5> QED
          BY <2>1, <2>2, <2>3, <5>1
      <4> QED
        BY <2>4, <4>1, <4>2
    <3>2. \A j \in 1 .. k - 1 : s[j] = u[j]
      <4>1. \A j \in 1 .. k - 1 : j \in 1 .. l - 1
        BY <2>4
      <4> QED
        BY <2>2, <2>3, <4>1
    <3> QED
      BY <2>1, <3>1, <3>2 DEF Before
  <2>5. CASE l < k
    <3>1. l \in 1 .. k - 1
      BY <2>5
    <3>2. s[l] < u[l]
      BY <2>1, <2>2, <2>3, <3>1
    <3>3. \A j \in 1 .. l - 1 : s[j] = u[j]
      <4>1. \A j \in 1 .. l - 1 : j \in 1 .. k - 1
        BY <2>5
      <4> QED
        BY <2>2, <2>3, <4>1
    <3> QED
      BY <2>1, <3>2, <3>3 DEF Before
  <2> QED
    BY <2>4, <2>5
<1>3. ASSUME NEW s \in Keys(K), NEW t \in Keys(K), s # t
      PROVE  Before(s, t) \/ Before(t, s)
  <2> DEFINE T == {n \in 1 .. K : s[n] # t[n]}
  <2>1. /\ DOMAIN s = 1 .. K /\ DOMAIN t = 1 .. K /\ \A n \in 1 .. K : s[n] \in Int /\ t[n] \in Int
        /\ s = [n \in 1 .. K |-> s[n]] /\ t = [n \in 1 .. K |-> t[n]]
    BY DEF Keys
  <2>2. T # {} /\ T \subseteq Nat
    BY <1>3, <2>1
  <2>3. PICK k \in T : \A j \in T : k <= j
    BY <2>2, Least
  <2>4. \A j \in 1 .. k - 1 : s[j] = t[j]
    <3>1. \A j \in 1 .. k - 1 : j \in 1 .. K /\ ~(k <= j)
      OBVIOUS
    <3> QED
      BY <2>3, <3>1
  <2>5. k \in 1 .. K /\ (s[k] < t[k] \/ t[k] < s[k])
    BY <2>1
  <2> QED
    BY <2>1, <2>4, <2>5 DEF Before
<1> QED
  BY <1>1, <1>2, <1>3

\* How many keys come before one, and itself.
Stand(S, k) == Cardinality({j \in S : Before(j, k)}) + 1

LEMMA StandGrows ==
    ASSUME NEW K \in Nat, NEW S \in SUBSET Keys(K), IsFiniteSet(S), NEW k \in S
    PROVE  /\ Cardinality(S) \in Nat /\ Stand(S, k) \in 1 .. Cardinality(S)
           /\ \A l \in S : Before(k, l) => Stand(S, k) < Stand(S, l)
<1> DEFINE T(l) == {j \in S : Before(j, l)}
<1>1. Cardinality(S) \in Nat
  BY FS_CardinalityType
<1>2. /\ \A l \in S : ~Before(l, l)
      /\ \A l, m, n \in S : Before(l, m) /\ Before(m, n) => Before(l, n)
  BY BeforeOrders
<1>3. ASSUME NEW l \in S
      PROVE  IsFiniteSet(T(l)) /\ Cardinality(T(l)) \in Nat /\ Cardinality(T(l)) < Cardinality(S)
  <2>1. T(l) \subseteq S /\ T(l) # S
    BY <1>2
  <2> HIDE DEF T
  <2>2. IsFiniteSet(T(l)) /\ Cardinality(T(l)) <= Cardinality(S) /\ Cardinality(T(l)) # Cardinality(S)
    BY <2>1, FS_Subset
  <2> QED
    BY <1>1, <2>2, FS_CardinalityType
<1>4. ASSUME NEW l \in S, Before(k, l)
      PROVE  Cardinality(T(k)) < Cardinality(T(l))
  <2>1. T(k) \subseteq T(l) /\ T(k) # T(l)
    BY <1>2, <1>4
  <2>2. IsFiniteSet(T(l)) /\ Cardinality(T(l)) \in Nat /\ Cardinality(T(k)) \in Nat
    BY <1>3
  <2> HIDE DEF T
  <2>3. Cardinality(T(k)) <= Cardinality(T(l)) /\ Cardinality(T(k)) # Cardinality(T(l))
    BY <2>1, <2>2, FS_Subset
  <2> QED
    BY <2>2, <2>3
<1> HIDE DEF T
<1>5. \A l \in S : Stand(S, l) = Cardinality(T(l)) + 1
  BY DEF Stand, T
<1> QED
  BY <1>1, <1>3, <1>4, <1>5

LEMMA StandTells ==
    ASSUME NEW K \in Nat, NEW S \in SUBSET Keys(K), IsFiniteSet(S), NEW k \in S, NEW l \in S,
           Stand(S, k) = Stand(S, l)
    PROVE  k = l
<1>1. PICK m \in Nat : m = Stand(S, k) /\ \A j \in S : Before(k, j) => m < Stand(S, j)
  BY StandGrows
<1>2. PICK n \in Nat : n = Stand(S, l) /\ \A j \in S : Before(l, j) => n < Stand(S, j)
  BY StandGrows
<1>3. k # l => Before(k, l) \/ Before(l, k)
  BY BeforeOrders
<1> QED
  BY <1>1, <1>2, <1>3

LEMMA SortedIsList ==
    ASSUME NEW K \in Nat, NEW S \in SUBSET Keys(K), IsFiniteSet(S)
    PROVE  /\ IsList(Sorted(S)) /\ Len(Sorted(S)) = Cardinality(S) /\ Cardinality(S) \in Nat
           /\ DOMAIN Sorted(S) = 1 .. Cardinality(S)
           /\ \A n \in 1 .. Cardinality(S) : Sorted(S)[n] \in S
           /\ \A m, n \in 1 .. Cardinality(S) : Sorted(S)[m] = Sorted(S)[n] => m = n
<1> DEFINE C == Cardinality(S)
           r == [k \in S |-> Stand(S, k)]
           placed == {<<Cardinality({j \in S : Before(j, k)}) + 1, k>> : k \in S}
<1>1. C \in Nat
  BY FS_CardinalityType
<1>2. r \in [S -> 1 .. C]
  BY StandGrows
<1>3. \A k, l \in S : r[k] = r[l] => k = l
  BY StandTells
<1>4. r \in Injection(S, 1 .. C)
  BY <1>2, <1>3 DEF Injection, IsInjective
<1>5. IsFiniteSet(1 .. C) /\ Cardinality(1 .. C) = C
  BY <1>1, UpTo
<1>6. r \in Surjection(S, 1 .. C)
  BY <1>4, <1>5, FS_Injection
<1>7. \A n \in 1 .. C : \E k \in S : Stand(S, k) = n
  BY <1>6 DEF Surjection
<1>8. \A n, k : k \in S => (<<n, k>> \in placed <=> n = Stand(S, k))
  BY DEF Stand
<1> HIDE DEF placed
<1>9. Sorted(S) = [n \in 1 .. C |-> CHOOSE k \in S : <<n, k>> \in placed]
  BY DEF Sorted, placed
<1>10. \A n \in 1 .. C : Sorted(S)[n] \in S /\ Stand(S, Sorted(S)[n]) = n
  <2> SUFFICES ASSUME NEW n \in 1 .. C PROVE Sorted(S)[n] \in S /\ Stand(S, Sorted(S)[n]) = n
    OBVIOUS
  <2>1. \E k \in S : <<n, k>> \in placed
    BY <1>7, <1>8
  <2>2. Sorted(S)[n] \in S /\ <<n, Sorted(S)[n]>> \in placed
    BY <1>9, <2>1
  <2> QED
    BY <1>8, <2>2
<1>11. IsList(Sorted(S)) /\ Len(Sorted(S)) = C /\ DOMAIN Sorted(S) = 1 .. C
  BY <1>1, <1>9, FunctionIsList
<1> QED
  BY <1>1, <1>10, <1>11

LEMMA SomeKeyIsFirst ==
    ASSUME NEW K \in Nat, NEW S \in SUBSET Keys(K), IsFiniteSet(S), S # {}
    PROVE  \E k \in S : \A l \in S \ {k} : Before(k, l)
<1> DEFINE T == {Stand(S, k) : k \in S}
<1>1. T \subseteq Nat /\ T # {}
  BY StandGrows
<1>2. PICK m \in T : \A n \in T : m <= n
  BY <1>1, Least
<1>3. PICK k \in S : m = Stand(S, k)
  BY <1>2
<1>4. ASSUME NEW l \in S, l # k PROVE Before(k, l)
  <2>1. Before(k, l) \/ Before(l, k)
    BY <1>4, BeforeOrders
  <2>2. PICK n \in Nat : n = Stand(S, l) /\ \A j \in S : Before(l, j) => n < Stand(S, j)
    BY StandGrows
  <2>3. m <= n /\ m \in Nat
    BY <1>1, <1>2, <2>2
  <2> QED
    BY <1>3, <2>1, <2>2, <2>3
<1> QED
  BY <1>4

----------------------------------------------------------------------------
(* Who represents a group.                                                 *)

LEMMA RankIsKey ==
    ASSUME NEW evs, NEW i \in Nat, evs[i].article \in DOMAIN Articles, evs[i].evidence \in Nat
    PROVE  Rank(evs, i) \in Keys(5) /\ Rank(evs, i)[5] = i
<1>1. PICK a : a = Articles[evs[i].article]
  OBVIOUS
<1>2. a.at \in Nat /\ a.length \in Nat
  BY <1>1, RulesAssumption
<1>3. PICK v \in Int, w \in Int, x \in Int, y \in Int, z \in Int :
         /\ v = IF a.dart THEN 0 ELSE 1
         /\ w = -evs[i].evidence /\ x = -a.length /\ y = a.at /\ z = i
  BY <1>2
<1>4. Rank(evs, i) = <<v, w, x, y, z>>
  BY <1>1, <1>3 DEF Rank, Published
<1>5. <<v, w, x, y, z>> \in Keys(5) /\ <<v, w, x, y, z>>[5] = z
  BY DEF Keys
<1> QED
  BY <1>3, <1>4, <1>5

LEMMA CanonicalIsFirst ==
    ASSUME NEW evs, NEW N \in Nat, NEW cluster \in SUBSET (1 .. N), cluster # {},
           \A i \in cluster : evs[i].article \in DOMAIN Articles /\ evs[i].evidence \in Nat
    PROVE  /\ Canonical(evs, cluster) \in cluster
           /\ \A j \in cluster : ~Before(Rank(evs, j), Rank(evs, Canonical(evs, cluster)))
<1> DEFINE S == {Rank(evs, i) : i \in cluster}
           f == [i \in cluster |-> Rank(evs, i)]
           c == Canonical(evs, cluster)
<1>1. \A i \in cluster : Rank(evs, i) \in Keys(5) /\ Rank(evs, i)[5] = i
  BY RankIsKey
<1>2. S \in SUBSET Keys(5) /\ S # {}
  BY <1>1
<1>3. IsFiniteSet(S)
  <2>1. IsFiniteSet(cluster)
    BY PlacesFinite
  <2>2. f \in Surjection(cluster, S)
    BY DEF Surjection
  <2> QED
    BY <2>1, <2>2, FS_Surjection
<1> HIDE DEF S
<1>4. PICK k \in S : \A l \in S \ {k} : Before(k, l)
  BY <1>2, <1>3, SomeKeyIsFirst
<1>5. PICK i \in cluster : k = Rank(evs, i)
  BY DEF S
<1>6. ASSUME NEW j \in cluster \ {i} PROVE Before(Rank(evs, i), Rank(evs, j))
  <2>1. Rank(evs, j) # k
    BY <1>1, <1>5
  <2>2. Rank(evs, j) \in S
    BY DEF S
  <2> QED
    BY <1>4, <1>5, <2>1, <2>2
<1>7. c \in cluster /\ \A j \in cluster \ {c} : Before(Rank(evs, c), Rank(evs, j))
  BY <1>6 DEF Canonical
<1> HIDE DEF c
<1>8. ASSUME NEW j \in cluster PROVE ~Before(Rank(evs, j), Rank(evs, c))
  <2>1. PICK s \in Keys(5) : s = Rank(evs, j)
    BY <1>1
  <2>2. PICK t \in Keys(5) : t = Rank(evs, c)
    BY <1>1, <1>7
  <2>3. ~Before(t, t) /\ (Before(s, t) /\ Before(t, s) => Before(t, t))
    BY BeforeOrders
  <2>4. j # c => Before(t, s)
    BY <1>7, <2>1, <2>2
  <2> QED
    BY <2>1, <2>2, <2>3, <2>4
<1> QED
  BY <1>7, <1>8 DEF c

----------------------------------------------------------------------------
(* Union-find.                                                             *)

Climbs(up, S, p, x) ==
    /\ up \in [0 .. Cardinality(S) -> S] /\ up[0] = x
    /\ \A n \in 1 .. Cardinality(S) : up[n] = p[up[n - 1]]

LEMMA PathClimbs ==
    ASSUME NEW S, IsFiniteSet(S), NEW p \in [S -> S], NEW x \in S
    PROVE  Climbs(Path(p, x), S, p, x)
<1>1. PICK N \in Nat : N = Cardinality(S)
  BY FS_CardinalityType
<1> DEFINE step == [n \in 1 .. N |-> p]
           up == CHOOSE f : f = [n \in 0 .. N |-> IF n = 0 THEN x ELSE p[f[n - 1]]]
<1>2. PICK f \in [0 .. N -> S] : Iterates(f, N, x, step)
  BY Iterated
<1>3. f = [n \in 0 .. N |-> IF n = 0 THEN x ELSE p[f[n - 1]]]
  <2>1. \A n \in 0 .. N : f[n] = IF n = 0 THEN x ELSE p[f[n - 1]]
    BY <1>2 DEF Iterates
  <2> QED
    BY <2>1
<1>4. up = [n \in 0 .. N |-> IF n = 0 THEN x ELSE p[up[n - 1]]]
  BY <1>3
<1>5. Path(p, x) = up
  <2>1. DOMAIN p = S
    OBVIOUS
  <2> QED
    BY <1>1, <2>1 DEF Path
<1> HIDE DEF up
<1>6. up[0] = x /\ \A n \in 1 .. N : up[n] = p[up[n - 1]]
  BY <1>4
<1> DEFINE T == {n \in 0 .. N : up[n] \in S}
<1>7. \A n \in 0 .. N : n \in T
  <2>1. 0 \in T
    BY <1>6
  <2>2. ASSUME NEW n \in Nat, n < N /\ n \in T PROVE n + 1 \in T
    <3>1. n + 1 \in 1 .. N /\ (n + 1) - 1 = n
      BY <2>2
    <3>2. up[n + 1] = p[up[n]]
      BY <1>6, <3>1
    <3> QED
      BY <2>2, <3>1, <3>2
  <2> HIDE DEF T
  <2> QED
    BY <2>1, <2>2, BoundedInduction
<1>8. up \in [0 .. N -> S]
  BY <1>4, <1>7
<1> QED
  BY <1>1, <1>5, <1>6, <1>8 DEF Climbs

Roots(S, p) == {x \in S : p[x] = x}

\* Every node reaches a root within as many steps as there are other nodes.
Forest(S, p) ==
    /\ p \in [S -> S]
    /\ \E m \in Nat : m + Cardinality(Roots(S, p)) = Cardinality(S) /\ \A x \in S : Path(p, x)[m] \in Roots(S, p)

LEMMA RootAt ==
    ASSUME NEW S, IsFiniteSet(S), NEW p \in [S -> S], NEW x \in S, NEW m \in Nat, m <= Cardinality(S),
           Path(p, x)[m] \in Roots(S, p)
    PROVE  Root(p, x) = Path(p, x)[m]
<1>1. PICK N \in Nat : N = Cardinality(S)
  BY FS_CardinalityType
<1>2. PICK up : up = Path(p, x) /\ Climbs(up, S, p, x)
  BY PathClimbs
<1> DEFINE T == {n \in Nat : n >= m /\ n <= N => up[n] = up[m]}
<1>3. 0 \in T
  OBVIOUS
<1>4. ASSUME NEW n \in Nat, n < N /\ n \in T PROVE n + 1 \in T
  <2> SUFFICES ASSUME n + 1 > m PROVE up[n + 1] = up[m]
    BY <1>4
  <2>1. n + 1 \in 1 .. N /\ (n + 1) - 1 = n
    BY <1>4
  <2>2. up[n + 1] = p[up[n]]
    BY <1>1, <1>2, <2>1 DEF Climbs
  <2>3. up[n] = up[m]
    BY <1>4
  <2> QED
    BY <1>2, <2>2, <2>3 DEF Roots
<1> HIDE DEF T
<1>5. \A n \in 0 .. N : n \in T
  BY <1>3, <1>4, BoundedInduction
<1>6. N \in T
  BY <1>5
<1>7. up[N] = up[m]
  BY <1>1, <1>6 DEF T
<1>8. DOMAIN p = S
  OBVIOUS
<1> QED
  BY <1>1, <1>2, <1>7, <1>8 DEF Root

LEMMA RootIsRoot ==
    ASSUME NEW S, IsFiniteSet(S), NEW p, Forest(S, p), NEW x \in S
    PROVE  Root(p, x) \in Roots(S, p) /\ Root(p, x) \in S /\ p[Root(p, x)] = Root(p, x)
<1>1. PICK m \in Nat : m + Cardinality(Roots(S, p)) = Cardinality(S) /\ Path(p, x)[m] \in Roots(S, p)
  BY DEF Forest
<1>2. IsFiniteSet(Roots(S, p)) /\ Cardinality(S) \in Nat /\ Cardinality(Roots(S, p)) \in Nat
  <2>1. Roots(S, p) \subseteq S
    BY DEF Roots
  <2>2. IsFiniteSet(Roots(S, p))
    BY <2>1, FS_Subset
  <2> QED
    BY <2>2, FS_CardinalityType
<1>3. m <= Cardinality(S)
  BY <1>1, <1>2
<1>4. p \in [S -> S]
  BY DEF Forest
<1>5. Root(p, x) = Path(p, x)[m]
  BY <1>1, <1>3, <1>4, RootAt
<1> QED
  BY <1>1, <1>5 DEF Roots

LEMMA UnionJoins ==
    ASSUME NEW S, IsFiniteSet(S), NEW p, Forest(S, p), NEW pair, pair[1] \in S, pair[2] \in S
    PROVE  /\ Forest(S, Union(p, pair))
           /\ \A x \in S : Root(Union(p, pair), x) =
                 IF Root(p, x) = Root(p, pair[2]) THEN Root(p, pair[1]) ELSE Root(p, x)
<1>1. PICK a \in S : a = Root(p, pair[1]) /\ p[a] = a
  BY RootIsRoot
<1>2. PICK b \in S : b = Root(p, pair[2]) /\ p[b] = b
  BY RootIsRoot
<1>3. p \in [S -> S]
  BY DEF Forest
<1> DEFINE q == [p EXCEPT ![b] = a]
<1>4. Union(p, pair) = q
  BY <1>1, <1>2 DEF Union
<1>5. CASE a = b
  <2>1. q = p
    BY <1>2, <1>3, <1>5
  <2> HIDE DEF q
  <2> QED
    BY <1>1, <1>2, <1>4, <1>5, <2>1
<1>6. CASE a # b
  <2>1. q \in [S -> S] /\ q[b] = a /\ q[a] = a /\ \A x \in S : x # b => q[x] = p[x]
    BY <1>1, <1>3, <1>6
  <2> HIDE DEF q
  <2>2. Roots(S, q) = Roots(S, p) \ {b} /\ b \in Roots(S, p) /\ Roots(S, p) \subseteq S
    BY <1>2, <1>6, <2>1 DEF Roots
  <2>3. PICK N \in Nat : N = Cardinality(S)
    BY FS_CardinalityType
  <2>4. PICK k \in Nat : k = Cardinality(Roots(S, p))
    BY <2>2, FS_Subset, FS_CardinalityType
  <2>5. Cardinality(Roots(S, q)) = k - 1 /\ k - 1 \in Nat
    <3>1. IsFiniteSet(Roots(S, p))
      BY <2>2, FS_Subset
    <3>2. IsFiniteSet(Roots(S, q)) /\ Cardinality(Roots(S, q)) = k - 1
      BY <2>2, <2>4, <3>1, FS_RemoveElement
    <3> QED
      BY <3>2, FS_CardinalityType
  <2>6. PICK m \in Nat : m + k = N /\ \A x \in S : Path(p, x)[m] \in Roots(S, p)
    BY <2>3, <2>4 DEF Forest
  <2>7. m < N /\ m + 1 \in 1 .. N /\ (m + 1) - 1 = m /\ m + 1 + (k - 1) = N
    BY <2>5, <2>6
  <2>8. ASSUME NEW x \in S
        PROVE  /\ Path(q, x)[m + 1] = IF Root(p, x) = b THEN a ELSE Root(p, x)
               /\ Path(q, x)[m + 1] \in Roots(S, q)
    <3>1. PICK up : up = Path(p, x) /\ Climbs(up, S, p, x)
      BY <1>3, PathClimbs
    <3>2. PICK to : to = Path(q, x) /\ Climbs(to, S, q, x)
      BY <2>1, PathClimbs
    <3> DEFINE T == {n \in 0 .. N : IF up[n] = b THEN to[n] \in {a, b} ELSE to[n] = up[n]}
    <3>3. 0 \in T
      BY <3>1, <3>2 DEF Climbs
    <3>4. ASSUME NEW n \in Nat, n < N /\ n \in T PROVE n + 1 \in T
      <4>1. n + 1 \in 1 .. N /\ (n + 1) - 1 = n /\ n \in 0 .. N
        BY <3>4
      <4>2. up[n + 1] = p[up[n]] /\ to[n + 1] = q[to[n]] /\ up[n] \in S
        BY <2>3, <3>1, <3>2, <4>1 DEF Climbs
      <4>3. IF up[n] = b THEN to[n] \in {a, b} ELSE to[n] = up[n]
        BY <3>4
      <4>4. CASE up[n] = b
        BY <1>2, <2>1, <4>1, <4>2, <4>3, <4>4
      <4>5. CASE up[n] # b
        BY <2>1, <4>1, <4>2, <4>3, <4>5
      <4> QED
        BY <4>4, <4>5
    <3> HIDE DEF T
    <3>5. \A n \in 0 .. N : n \in T
      BY <3>3, <3>4, BoundedInduction
    <3>6. IF up[m] = b THEN to[m] \in {a, b} ELSE to[m] = up[m]
      <4>1. m \in 0 .. N
        BY <2>7
      <4>2. m \in T
        BY <3>5, <4>1
      <4> QED
        BY <4>2 DEF T
    <3>7. to[m + 1] = q[to[m]]
      BY <2>3, <2>7, <3>2 DEF Climbs
    <3>8. Root(p, x) = up[m] /\ up[m] \in Roots(S, p)
      <4>1. Path(p, x)[m] \in Roots(S, p) /\ m <= Cardinality(S)
        BY <2>3, <2>6, <2>7
      <4> QED
        BY <1>3, <3>1, <4>1, RootAt
    <3>9. to[m + 1] = IF up[m] = b THEN a ELSE up[m]
      BY <2>1, <3>6, <3>7, <3>8 DEF Roots
    <3>10. a \in Roots(S, q) /\ (up[m] # b => up[m] \in Roots(S, q))
      BY <1>1, <1>6, <2>2, <3>8 DEF Roots
    <3> QED
      BY <3>2, <3>8, <3>9, <3>10
  <2>9. Forest(S, q)
    <3>1. m + 1 \in Nat /\ m + 1 + Cardinality(Roots(S, q)) = Cardinality(S)
      BY <2>3, <2>5, <2>7
    <3> QED
      BY <2>1, <2>8, <3>1 DEF Forest
  <2>10. ASSUME NEW x \in S PROVE Root(q, x) = IF Root(p, x) = b THEN a ELSE Root(p, x)
    <3>1. m + 1 \in Nat /\ m + 1 <= Cardinality(S)
      BY <2>3, <2>7
    <3>2. PICK l \in Nat : l = m + 1
      BY <3>1
    <3>3. Path(q, x)[l] \in Roots(S, q) /\ Path(q, x)[l] = IF Root(p, x) = b THEN a ELSE Root(p, x)
      BY <2>8, <3>2
    <3>4. Root(q, x) = Path(q, x)[l]
      BY <2>1, <3>1, <3>2, <3>3, RootAt
    <3> QED
      BY <3>3, <3>4
  <2> QED
    BY <1>1, <1>2, <1>4, <2>9, <2>10
<1> QED
  BY <1>5, <1>6

LEMMA NoneJoined ==
    ASSUME NEW S, IsFiniteSet(S), NEW p, p = [x \in S |-> x]
    PROVE  Forest(S, p) /\ \A x \in S : Root(p, x) = x
<1>1. p \in [S -> S] /\ \A x \in S : p[x] = x
  OBVIOUS
<1>2. Roots(S, p) = S
  BY <1>1 DEF Roots
<1>3. ASSUME NEW x \in S PROVE Path(p, x)[0] = x
  BY <1>1, PathClimbs DEF Climbs
<1>4. Cardinality(S) \in Nat
  BY FS_CardinalityType
<1>5. Forest(S, p)
  <2>1. 0 \in Nat /\ 0 + Cardinality(Roots(S, p)) = Cardinality(S)
    BY <1>2, <1>4
  <2> QED
    BY <1>1, <1>2, <1>3, <2>1 DEF Forest
<1>6. ASSUME NEW x \in S PROVE Root(p, x) = x
  <2>1. 0 \in Nat /\ 0 <= Cardinality(S)
    BY <1>4
  <2>2. Path(p, x)[0] \in Roots(S, p)
    BY <1>2, <1>3
  <2> QED
    BY <1>1, <1>3, <2>1, <2>2, RootAt
<1> QED
  BY <1>5, <1>6

\* A set of nodes that no pair leads out of.
Uncrossed(cut, pairs) == \A k \in DOMAIN pairs : pairs[k][1] \in cut <=> pairs[k][2] \in cut

\* What has been linked after some of the pairs.
Joined(S, p, pairs, n) ==
    /\ Forest(S, p)
    /\ \A k \in 1 .. n : Root(p, pairs[k][1]) = Root(p, pairs[k][2])
    /\ \A cut \in SUBSET S : Uncrossed(cut, pairs) => \A x \in S : x \in cut <=> Root(p, x) \in cut

LEMMA UnionIsParents ==
    ASSUME NEW S, IsFiniteSet(S), NEW p \in [S -> S], NEW pair, pair[1] \in S, pair[2] \in S
    PROVE  Union(p, pair) \in [S -> S]
<1>1. Cardinality(S) \in Nat /\ DOMAIN p = S
  BY FS_CardinalityType
<1>2. ASSUME NEW x \in S PROVE Root(p, x) \in S
  <2>1. Path(p, x) \in [0 .. Cardinality(S) -> S]
    BY PathClimbs DEF Climbs
  <2>2. Path(p, x)[Cardinality(S)] \in S
    BY <1>1, <2>1
  <2> QED
    BY <1>1, <2>2 DEF Root
<1> QED
  BY <1>2 DEF Union

LEMMA LinkedJoins ==
    ASSUME NEW S, IsFiniteSet(S), NEW pairs, IsList(pairs),
           \A k \in DOMAIN pairs : pairs[k][1] \in S /\ pairs[k][2] \in S
    PROVE  Joined(S, Linked(S, pairs), pairs, Len(pairs))
<1> DEFINE same0 == [x \in S |-> x]
           linked == CHOOSE f : f = [n \in 0 .. Len(pairs) |-> IF n = 0 THEN same0 ELSE Union(f[n - 1], pairs[n])]
<1>1. PICK N \in Nat : N = Len(pairs) /\ DOMAIN pairs = 1 .. N
  BY ListIsSeq
<1>2. same0 \in [S -> S]
  OBVIOUS
<1> DEFINE step == [n \in 1 .. N |-> [p \in [S -> S] |-> Union(p, pairs[n])]]
<1>3. step \in [1 .. N -> [[S -> S] -> [S -> S]]]
  <2> SUFFICES ASSUME NEW n \in 1 .. N, NEW p \in [S -> S] PROVE Union(p, pairs[n]) \in [S -> S]
    OBVIOUS
  <2>1. pairs[n][1] \in S /\ pairs[n][2] \in S
    BY <1>1
  <2> QED
    BY <2>1, UnionIsParents
<1> HIDE DEF same0
<1>4. linked = [n \in 0 .. N |-> IF n = 0 THEN same0 ELSE Union(linked[n - 1], pairs[n])]
  <2> HIDE DEF step
  <2>1. PICK f \in [0 .. N -> [S -> S]] : Iterates(f, N, same0, step)
    BY <1>2, <1>3, Iterated
  <2>2. ASSUME NEW n \in 1 .. N PROVE f[n] = Union(f[n - 1], pairs[n])
    <3>1. n - 1 \in 0 .. N
      OBVIOUS
    <3>2. PICK p \in [S -> S] : p = f[n - 1]
      BY <3>1
    <3>3. f[n] = step[n][p]
      BY <2>1, <3>2 DEF Iterates
    <3> QED
      BY <3>2, <3>3 DEF step
  <2>3. f[0] = same0
    BY <2>1 DEF Iterates
  <2>4. f = [n \in 0 .. N |-> f[n]]
    OBVIOUS
  <2>5. f = [n \in 0 .. N |-> IF n = 0 THEN same0 ELSE Union(f[n - 1], pairs[n])]
    <3>1. \A n \in 0 .. N : f[n] = IF n = 0 THEN same0 ELSE Union(f[n - 1], pairs[n])
      BY <2>2, <2>3
    <3> QED
      BY <2>4, <3>1
  <2> QED
    BY <1>1, <2>5
<1>5. Linked(S, pairs) = linked[N]
  BY <1>1 DEF Linked, same0
<1> HIDE DEF linked, step
<1>6. linked[0] = same0 /\ \A n \in 1 .. N : linked[n] = Union(linked[n - 1], pairs[n])
  BY <1>4
<1> DEFINE T == {n \in 0 .. N : Joined(S, linked[n], pairs, n)}
<1>7. 0 \in T
  <2>1. Forest(S, same0) /\ \A x \in S : Root(same0, x) = x
    BY NoneJoined DEF same0
  <2>2. Joined(S, same0, pairs, 0)
    BY <2>1 DEF Joined
  <2> QED
    BY <1>6, <2>2
<1>8. ASSUME NEW n \in Nat, n < N /\ n \in T PROVE n + 1 \in T
  <2>1. PICK m \in 1 .. N : m = n + 1 /\ m - 1 = n
    BY <1>8
  <2>2. PICK p : p = linked[n] /\ Joined(S, p, pairs, n)
    BY <1>8
  <2>3. PICK q : q = linked[m] /\ q = Union(p, pairs[m])
    BY <1>6, <2>1, <2>2
  <2>4. PICK a \in S, b \in S : a = pairs[m][1] /\ b = pairs[m][2]
    BY <1>1
  <2>5. Forest(S, p)
    BY <2>2 DEF Joined
  <2>6. Forest(S, q) /\ \A x \in S : Root(q, x) = IF Root(p, x) = Root(p, b) THEN Root(p, a) ELSE Root(p, x)
    BY <2>3, <2>4, <2>5, UnionJoins
  <2>7. ASSUME NEW k \in 1 .. m PROVE Root(q, pairs[k][1]) = Root(q, pairs[k][2])
    <3>1. k \in 1 .. N
      BY <2>1
    <3>2. PICK c \in S, d \in S : c = pairs[k][1] /\ d = pairs[k][2]
      BY <1>1, <3>1
    <3>3. CASE k = m
      BY <2>4, <2>6, <3>3
    <3>4. CASE k # m
      <4>1. k \in 1 .. n
        BY <2>1, <3>4
      <4>2. Root(p, c) = Root(p, d)
        BY <2>2, <3>2, <4>1 DEF Joined
      <4> QED
        BY <2>6, <3>2, <4>2
    <3> QED
      BY <3>3, <3>4
  <2>8. ASSUME NEW cut \in SUBSET S, Uncrossed(cut, pairs), NEW x \in S
        PROVE  x \in cut <=> Root(q, x) \in cut
    <3>1. \A y \in S : y \in cut <=> Root(p, y) \in cut
      BY <2>2, <2>8 DEF Joined
    <3>2. a \in cut <=> b \in cut
      BY <1>1, <2>4, <2>8 DEF Uncrossed
    <3> QED
      BY <2>6, <3>1, <3>2
  <2>9. Joined(S, q, pairs, m)
    BY <2>6, <2>7, <2>8 DEF Joined
  <2>10. m \in 0 .. N /\ Joined(S, linked[m], pairs, m)
    BY <2>3, <2>9
  <2>11. m \in T
    BY <2>10
  <2> QED
    BY <2>1, <2>11
<1> HIDE DEF T
<1>9. \A n \in 0 .. N : n \in T
  BY <1>7, <1>8, BoundedInduction
<1>10. N \in T
  BY <1>9
<1> QED
  BY <1>1, <1>5, <1>10 DEF T

\* The nodes with the root of x.
Cluster(S, pairs, x) == {y \in S : Root(Linked(S, pairs), y) = Root(Linked(S, pairs), x)}

\* Two nodes are in one cluster exactly when every set that has one of them is crossed.
\* No set that the pairs do not leave has x and not y.
Bound(S, pairs, x, y) == \A cut \in SUBSET S : x \in cut /\ y \notin cut => ~Uncrossed(cut, pairs)

LEMMA ClusteredIsJoined ==
    ASSUME NEW S, IsFiniteSet(S), NEW pairs, IsList(pairs),
           \A k \in DOMAIN pairs : pairs[k][1] \in S /\ pairs[k][2] \in S, NEW x \in S, NEW y \in S
    PROVE  Cluster(S, pairs, x) = Cluster(S, pairs, y) <=> Bound(S, pairs, x, y)
<1>1. PICK p : p = Linked(S, pairs) /\ Joined(S, p, pairs, Len(pairs))
  BY LinkedJoins
<1> DEFINE c == {z \in S : Root(p, z) = Root(p, x)}
           d == {z \in S : Root(p, z) = Root(p, y)}
<1>2. Cluster(S, pairs, x) = c /\ Cluster(S, pairs, y) = d
  BY <1>1 DEF Cluster
<1>3. c = d <=> Root(p, x) = Root(p, y)
  OBVIOUS
<1>4. ASSUME Root(p, x) = Root(p, y), NEW cut \in SUBSET S, Uncrossed(cut, pairs), x \in cut
      PROVE  y \in cut
  <2>1. \A z \in S : z \in cut <=> Root(p, z) \in cut
    BY <1>1, <1>4 DEF Joined
  <2> QED
    BY <1>4, <2>1
<1>5. ASSUME Root(p, x) # Root(p, y)
      PROVE  \E cut \in SUBSET S : x \in cut /\ y \notin cut /\ Uncrossed(cut, pairs)
  <2>1. DOMAIN pairs = 1 .. Len(pairs)
    BY ListIsSeq
  <2>2. \A k \in DOMAIN pairs : Root(p, pairs[k][1]) = Root(p, pairs[k][2])
    BY <1>1, <2>1 DEF Joined
  <2>3. Uncrossed(c, pairs)
    BY <2>2 DEF Uncrossed
  <2>4. c \in SUBSET S /\ x \in c /\ y \notin c
    BY <1>5
  <2> HIDE DEF c
  <2> QED
    BY <2>3, <2>4
<1> HIDE DEF c, d
<1> QED
  BY <1>2, <1>3, <1>4, <1>5 DEF Bound

LEMMA ClustersAre ==
    ASSUME NEW S, NEW pairs
    PROVE  /\ Clusters(S, pairs) = {Cluster(S, pairs, x) : x \in S}
           /\ \A x \in S : x \in Cluster(S, pairs, x) /\ Cluster(S, pairs, x) \subseteq S
           /\ \A x, y \in S : y \in Cluster(S, pairs, x) => Cluster(S, pairs, y) = Cluster(S, pairs, x)
<1>1. Clusters(S, pairs) = {Cluster(S, pairs, x) : x \in S}
  BY DEF Clusters, Cluster
<1> QED
  BY <1>1 DEF Cluster

----------------------------------------------------------------------------
(* The extraction, and the pairs of its events.                            *)

LEMMA ExtractionIs ==
    ASSUME NEW x \in Extractions
    PROVE  /\ IsFiniteSet(x.articles) /\ x.articles \subseteq DOMAIN Articles
           /\ \E N \in Nat : IsList(x.events) /\ Len(x.events) = N /\ DOMAIN x.events = 1 .. N
           /\ \A n \in DOMAIN x.events :
                 /\ x.events[n].article \in x.articles /\ x.events[n].article \in DOMAIN Articles
                 /\ x.events[n].evidence \in Nat
                 /\ IsList(x.events[n].companies) /\ IsList(x.events[n].facts)
<1>1. IsFiniteSet(x.articles) /\ x.articles \subseteq DOMAIN Articles /\ IsList(x.events)
  BY ExtractionsAssumption
<1>2. \A n \in DOMAIN x.events :
         /\ x.events[n].article \in x.articles /\ x.events[n].evidence \in Nat
         /\ IsList(x.events[n].companies) /\ IsList(x.events[n].facts)
  BY ExtractionsAssumption
<1>3. Len(x.events) \in Nat /\ DOMAIN x.events = 1 .. Len(x.events)
  BY <1>1, ListIsSeq
<1> QED
  BY <1>1, <1>2, <1>3

\* A list of pairs of nodes.
Links(pairs, S) == IsList(pairs) /\ \A k \in DOMAIN pairs : pairs[k][1] \in S /\ pairs[k][2] \in S

LEMMA ListedLinks ==
    ASSUME NEW pairs, IsList(pairs), NEW S, \A p \in ToSet(pairs) : p[1] \in S /\ p[2] \in S
    PROVE  Links(pairs, S)
BY DEF Links, ToSet

LEMMA CandidatesAreLinks ==
    ASSUME NEW evs, NEW N \in Nat, Len(evs) = N
    PROVE  Links(CandidatePairs(evs), 1 .. N)
<1> DEFINE all == Combinations(N)
           places == {n \in DOMAIN all : IsCandidate(evs[all[n][1]], evs[all[n][2]])}
           chosen == Picked(all, places)
<1>1. CandidatePairs(evs) = Leading(chosen, MaxCandidates)
  BY DEF CandidatePairs, Where, Places
<1>2. IsList(all) /\ \A p : p \in ToSet(all) <=> \E l, r \in 1 .. N : l < r /\ p = <<l, r>>
  BY CombinationsAre
<1>3. \A p \in ToSet(all) : p[1] \in 1 .. N /\ p[2] \in 1 .. N
  BY <1>2
<1>4. \A n \in DOMAIN all : all[n] \in ToSet(all)
  BY DEF ToSet
<1>5. places \in SUBSET DOMAIN all
  OBVIOUS
<1> HIDE DEF all, places
<1>6. IsList(chosen) /\ \A x : x \in ToSet(chosen) <=> \E p \in places : x = all[p]
  BY <1>2, <1>5, PickedFromList
<1>7. \A x \in ToSet(chosen) : x[1] \in 1 .. N /\ x[2] \in 1 .. N
  BY <1>3, <1>4, <1>5, <1>6
<1>8. \A n \in DOMAIN chosen : chosen[n] \in ToSet(chosen)
  BY DEF ToSet
<1> HIDE DEF chosen
<1>9. PICK C \in Nat :
         /\ IsList(Leading(chosen, MaxCandidates)) /\ DOMAIN Leading(chosen, MaxCandidates) = 1 .. C
         /\ \A k \in 1 .. C : k \in DOMAIN chosen /\ Leading(chosen, MaxCandidates)[k] = chosen[k]
  <2>1. StartOf(Leading(chosen, MaxCandidates), chosen, MaxCandidates)
    BY <1>6, LeadingIsList, RulesAssumption
  <2> QED
    BY <2>1 DEF StartOf
<1> QED
  BY <1>1, <1>7, <1>8, <1>9 DEF Links

LEMMA MergedAreLinks ==
    ASSUME NEW items, IsList(items), NEW pairs, NEW S, Links(pairs, S)
    PROVE  Links(Merged(items, pairs), S)
<1> DEFINE places == {i \in Unambiguous(items, Len(pairs)) :
                         /\ items[i].relation = "same"
                         /\ items[i].confidence # None /\ items[i].confidence >= 80}
           chosen == Picked(items, places)
           merged == [n \in DOMAIN chosen |-> pairs[chosen[n].index]]
<1>1. Merged(items, pairs) = merged
  BY DEF Merged
<1>2. places \in SUBSET DOMAIN items /\ \A i \in places : items[i].index \in 1 .. Len(pairs)
  BY DEF Unambiguous
<1> HIDE DEF places
<1>3. PICK C \in Nat :
         DOMAIN chosen = 1 .. C /\ \A n \in 1 .. C : Nth(places, n) \in places /\ chosen[n] = items[Nth(places, n)]
  BY <1>2, PickedPlaces
<1> HIDE DEF chosen
<1>4. \A n \in 1 .. C : chosen[n].index \in 1 .. Len(pairs)
  BY <1>2, <1>3
<1>5. IsList(pairs) /\ DOMAIN pairs = 1 .. Len(pairs)
  BY ListIsSeq DEF Links
<1>6. DOMAIN merged = 1 .. C /\ \A n \in 1 .. C : merged[n][1] \in S /\ merged[n][2] \in S
  BY <1>3, <1>4, <1>5 DEF Links
<1>7. IsList(merged)
  <2>1. merged = [n \in 1 .. C |-> merged[n]]
    BY <1>6
  <2> HIDE DEF merged
  <2> QED
    BY <2>1, FunctionIsList
<1> HIDE DEF merged
<1> QED
  BY <1>1, <1>6, <1>7 DEF Links

----------------------------------------------------------------------------
(* Related articles and independent sources.                               *)

LEMMA RelatedAre ==
    ASSUME NEW e, NEW articles, IsFiniteSet(articles), articles \subseteq DOMAIN Articles
    PROVE  /\ IsList(Related(e, articles))
           /\ \A k \in DOMAIN Related(e, articles) : Related(e, articles)[k] \in articles \ {e.article}
<1> DEFINE shared(a) == (e.keywords \cup Names(e)) \cap Articles[a].words
           mentions(a) == Cardinality(shared(a)) + (IF ToSet(e.title) \subseteq Articles[a].words THEN 1 ELSE 0)
           A == articles \ {e.article}
           S == {<<-mentions(a), a>> : a \in A}
           f == [a \in A |-> <<-mentions(a), a>>]
           first == Leading(Sorted(S), MaxRelated)
<1>1. ASSUME NEW a \in A PROVE <<-mentions(a), a>> \in Keys(2)
  <2>1. IsFiniteSet(Articles[a].words)
    BY RulesAssumption
  <2>2. shared(a) \subseteq Articles[a].words
    OBVIOUS
  <2> HIDE DEF shared
  <2>3. Cardinality(shared(a)) \in Nat
    BY <2>1, <2>2, FS_Subset, FS_CardinalityType
  <2>4. PICK m \in Int : m = -mentions(a)
    BY <2>3
  <2>5. PICK b \in Int : b = a
    BY RulesAssumption
  <2> HIDE DEF mentions
  <2>6. <<m, b>> \in Keys(2)
    BY DEF Keys
  <2> QED
    BY <2>4, <2>5, <2>6
<1>2. Related(e, articles) = [k \in DOMAIN first |-> first[k][2]]
  BY DEF Related
<1> HIDE DEF mentions
<1>3. IsFiniteSet(S)
  <2>1. IsFiniteSet(A)
    BY FS_Subset
  <2> HIDE DEF A
  <2>2. f \in Surjection(A, S)
    BY DEF Surjection
  <2> QED
    BY <2>1, <2>2, FS_Surjection
<1>4. S \in SUBSET Keys(2) /\ \A s \in S : s[2] \in A
  BY <1>1
<1> HIDE DEF S, A
<1>5. /\ IsList(Sorted(S)) /\ DOMAIN Sorted(S) = 1 .. Cardinality(S)
      /\ \A n \in 1 .. Cardinality(S) : Sorted(S)[n] \in S
  BY <1>3, <1>4, SortedIsList
<1>6. PICK C \in Nat : /\ DOMAIN first = 1 .. C
                       /\ \A k \in 1 .. C : k \in DOMAIN Sorted(S) /\ first[k] = Sorted(S)[k]
  <2>1. MaxRelated \in Nat
    BY RulesAssumption
  <2>2. StartOf(first, Sorted(S), MaxRelated)
    BY <1>5, <2>1, LeadingIsList
  <2> HIDE DEF first
  <2> QED
    BY <2>2 DEF StartOf
<1> HIDE DEF first
<1>7. DOMAIN Related(e, articles) = 1 .. C /\ \A k \in 1 .. C : Related(e, articles)[k] \in A
  BY <1>2, <1>4, <1>5, <1>6
<1>8. IsList(Related(e, articles))
  <2>1. Related(e, articles) = [k \in 1 .. C |-> Related(e, articles)[k]]
    BY <1>2, <1>6
  <2> QED
    BY <2>1, FunctionIsList
<1> QED
  BY <1>7, <1>8 DEF A

\* Two of the articles that no chain of shared sources joins.
Independent(others) ==
    \E cut \in (SUBSET others) \ {{}, others} : \A a \in cut, b \in others \ cut : ~SameSource(a, b)

LEMMA TwoSources ==
    ASSUME NEW supporting, IsList(supporting), IndependentSources(supporting) >= 2
    PROVE  Independent(ToSet(supporting))
<1> DEFINE Known(a) == Articles[a].domain # None \/ Articles[a].source # None
           places == {n \in DOMAIN supporting : Known(supporting[n])}
           known == Picked(supporting, places)
           all == Combinations(Len(known))
           alike == {n \in DOMAIN all : SameSource(known[all[n][1]], known[all[n][2]])}
           pairs == Picked(all, alike)
           S == DOMAIN known
<1>1. IndependentSources(supporting) = Cardinality(Clusters(S, pairs))
  BY DEF IndependentSources, Where, Places
<1>2. places \in SUBSET DOMAIN supporting
  OBVIOUS
<1>3. \A n \in places : Known(supporting[n])
  OBVIOUS
<1>4. \A n \in DOMAIN supporting : Known(supporting[n]) => n \in places
  OBVIOUS
<1> HIDE DEF places
<1>5. IsList(known) /\ \A x : x \in ToSet(known) <=> \E p \in places : x = supporting[p]
  BY <1>2, PickedFromList
<1>6. PICK N \in Nat : S = 1 .. N /\ Len(known) = N
  BY <1>5, ListIsSeq
<1>7. \A k \in S : known[k] \in ToSet(known)
  BY DEF ToSet
<1>8. \A k \in S : Known(known[k]) /\ known[k] \in ToSet(supporting)
  <2>1. \A p \in places : supporting[p] \in ToSet(supporting)
    BY <1>2 DEF ToSet
  <2> HIDE DEF Known
  <2> QED
    BY <1>3, <1>5, <1>7, <2>1
<1>9. \A a \in ToSet(supporting) : Known(a) => \E k \in S : a = known[k]
  <2> HIDE DEF Known, known
  <2>1. \A a \in ToSet(supporting) : \E n \in DOMAIN supporting : a = supporting[n]
    BY DEF ToSet
  <2>2. \A x \in ToSet(known) : \E k \in S : x = known[k]
    BY DEF ToSet
  <2> QED
    BY <1>4, <1>5, <2>1, <2>2
<1> HIDE DEF known
<1>10. IsList(all) /\ \A p : p \in ToSet(all) <=> \E l, r \in 1 .. N : l < r /\ p = <<l, r>>
  BY <1>6, CombinationsAre
<1>11. \A n \in DOMAIN all : all[n] \in ToSet(all)
  BY DEF ToSet
<1>12. \A p \in ToSet(all) : \E n \in DOMAIN all : p = all[n]
  BY DEF ToSet
<1> HIDE DEF all
<1>13. alike \in SUBSET DOMAIN all
  OBVIOUS
<1>14. \A n \in DOMAIN all : SameSource(known[all[n][1]], known[all[n][2]]) => n \in alike
  OBVIOUS
<1> HIDE DEF alike
<1>15. IsList(pairs) /\ \A x : x \in ToSet(pairs) <=> \E p \in alike : x = all[p]
  BY <1>10, <1>13, PickedFromList
<1>16. \A x \in ToSet(pairs) : \E k \in DOMAIN pairs : x = pairs[k]
  BY DEF ToSet
<1>17. Links(pairs, S)
  <2>1. \A x \in ToSet(pairs) : x[1] \in S /\ x[2] \in S
    <3>1. \A x \in ToSet(all) : x[1] \in S /\ x[2] \in S
      BY <1>6, <1>10
    <3> QED
      BY <1>11, <1>13, <1>15, <3>1
  <2> HIDE DEF pairs
  <2> QED
    BY <1>15, <2>1, ListedLinks
<1> HIDE DEF pairs, S
<1>18. IsFiniteSet(S)
  BY <1>6, UpTo
<1>19. PICK p : p = Linked(S, pairs) /\ Joined(S, p, pairs, Len(pairs))
  BY <1>17, <1>18, LinkedJoins DEF Links
<1>20. ASSUME NEW l \in S, NEW r \in S, l < r, SameSource(known[l], known[r])
       PROVE  Cluster(S, pairs, l) = Cluster(S, pairs, r)
  <2>1. PICK n \in DOMAIN all : all[n] = <<l, r>>
    BY <1>6, <1>10, <1>12, <1>20
  <2>2. n \in alike
    BY <1>14, <1>20, <2>1
  <2>3. PICK k \in DOMAIN pairs : pairs[k] = <<l, r>>
    BY <1>15, <1>16, <2>1, <2>2
  <2>4. DOMAIN pairs = 1 .. Len(pairs)
    BY <1>15, ListIsSeq
  <2>5. Root(p, pairs[k][1]) = Root(p, pairs[k][2])
    BY <1>19, <2>4 DEF Joined
  <2>6. Root(p, l) = Root(p, r)
    BY <2>3, <2>5
  <2> QED
    BY <1>19, <2>6 DEF Cluster
<1>21. ASSUME NEW l \in S, NEW r \in S, SameSource(known[l], known[r])
       PROVE  Cluster(S, pairs, l) = Cluster(S, pairs, r)
  <2>1. SameSource(known[r], known[l])
    BY <1>21 DEF SameSource
  <2>2. l = r \/ l < r \/ r < l
    BY <1>6
  <2> QED
    BY <1>20, <1>21, <2>1, <2>2
<1>22. \E x, y \in S : Cluster(S, pairs, x) # Cluster(S, pairs, y)
  <2> SUFFICES ASSUME \A x, y \in S : Cluster(S, pairs, x) = Cluster(S, pairs, y) PROVE FALSE
    OBVIOUS
  <2>1. Clusters(S, pairs) = {Cluster(S, pairs, x) : x \in S}
    BY ClustersAre
  <2>2. CASE S = {}
    <3>1. Clusters(S, pairs) = {}
      BY <2>1, <2>2
    <3>2. Cardinality({}) = 0
      BY FS_EmptySet
    <3> QED
      BY <1>1, <3>1, <3>2
  <2>3. CASE S # {}
    <3>1. PICK x \in S : TRUE
      BY <2>3
    <3>2. PICK c : c = Cluster(S, pairs, x)
      OBVIOUS
    <3>3. Clusters(S, pairs) = {c}
      BY <2>1, <3>2
    <3>4. Cardinality({c}) = 1
      BY FS_Singleton
    <3> QED
      BY <1>1, <3>3, <3>4
  <2> QED
    BY <2>2, <2>3
<1>23. PICK x \in S, y \in S : Cluster(S, pairs, x) # Cluster(S, pairs, y)
  BY <1>22
<1> DEFINE others == ToSet(supporting)
           cut == {known[k] : k \in Cluster(S, pairs, x)}
<1>24. /\ x \in Cluster(S, pairs, x) /\ Cluster(S, pairs, x) \subseteq S
       /\ \A z \in S : z \in Cluster(S, pairs, x) => Cluster(S, pairs, z) = Cluster(S, pairs, x)
       /\ \A z \in S : Cluster(S, pairs, z) = Cluster(S, pairs, x) => z \in Cluster(S, pairs, x)
  BY ClustersAre
<1>25. \A k \in S : SameSource(known[k], known[k])
  BY <1>8 DEF SameSource
<1>26. cut \in SUBSET others /\ cut # {}
  BY <1>8, <1>24
<1>27. known[y] \in others /\ known[y] \notin cut
  <2>1. ASSUME NEW k \in Cluster(S, pairs, x), known[k] = known[y] PROVE FALSE
    <3>1. k \in S /\ SameSource(known[k], known[y])
      BY <1>24, <1>25, <2>1
    <3>2. Cluster(S, pairs, k) = Cluster(S, pairs, y)
      BY <1>21, <3>1
    <3> QED
      BY <1>23, <1>24, <3>2
  <2> QED
    BY <1>8, <2>1
<1>28. ASSUME NEW a \in cut, NEW b \in others \ cut PROVE ~SameSource(a, b)
  <2> SUFFICES ASSUME SameSource(a, b) PROVE FALSE
    OBVIOUS
  <2>1. PICK k \in Cluster(S, pairs, x) : a = known[k]
    OBVIOUS
  <2>2. Known(b)
    BY DEF SameSource
  <2>3. PICK j \in S : b = known[j]
    BY <1>9, <2>2
  <2>4. k \in S /\ Cluster(S, pairs, k) = Cluster(S, pairs, j)
    BY <1>21, <1>24, <2>1, <2>3
  <2>5. j \in Cluster(S, pairs, x)
    BY <1>24, <2>1, <2>4
  <2> QED
    BY <2>3, <2>5
<1> HIDE DEF cut, others
<1>29. cut \in (SUBSET others) \ {{}, others}
  BY <1>26, <1>27
<1> QED
  BY <1>28, <1>29 DEF Independent, others

----------------------------------------------------------------------------
(* What is made of an answer.                                              *)

LEMMA ItemNamed ==
    ASSUME NEW items, NEW n, NEW chosen \in SUBSET Unambiguous(items, n), NEW i \in chosen
    PROVE  ItemAt(items, items[i].index, chosen) = items[i] /\ i \in DOMAIN items
<1>1. \A j \in chosen : j \in DOMAIN items /\ (items[j].index = items[i].index => j = i)
  BY DEF Unambiguous
<1>2. (CHOOSE j \in chosen : items[j].index = items[i].index) = i
  BY <1>1
<1> QED
  BY <1>1, <1>2 DEF ItemAt

LEMMA SupportingAre ==
    ASSUME NEW evidence, NEW related, IsList(related)
    PROVE  /\ IsList(Supporting(evidence, related))
           /\ ToSet(Supporting(evidence, related)) \subseteq ToSet(related)
<1> DEFINE places == {k \in DOMAIN related : evidence[k] = "supports"}
<1>1. places \in SUBSET DOMAIN related /\ Supporting(evidence, related) = Picked(related, places)
  BY DEF Supporting
<1> HIDE DEF places
<1>2. IsList(Picked(related, places)) /\ \A x : x \in ToSet(Picked(related, places)) <=> \E p \in places : x = related[p]
  BY <1>1, PickedFromList
<1>3. \A p \in places : related[p] \in ToSet(related)
  BY <1>1 DEF ToSet
<1> QED
  BY <1>1, <1>2, <1>3

\* What a verdict rests on.
Founded(v, related) ==
    /\ v.status \in Verdicts3 /\ IsList(v.supporting) /\ ToSet(v.supporting) \subseteq ToSet(related)
    /\ v.status = "verified" => IndependentSources(v.supporting) >= 2

LEMMA VerdictIsFounded ==
    ASSUME NEW items, NEW k, NEW n, NEW related, IsList(related), Verdict(items, k, n, related) # None
    PROVE  Founded(Verdict(items, k, n, related), related)
<1> DEFINE chosen == {i \in Unambiguous(items, n) : items[i].index = k /\ items[i].confidence # None}
           evidence == IF chosen = {} THEN None ELSE Evidence(ItemAt(items, k, chosen).evidence, related)
           s == Supporting(evidence, related)
           status == Validate(evidence, related, ItemAt(items, k, chosen).confidence)
           v == [status |-> status, supporting |-> s]
<1>1. Verdict(items, k, n, related) = v
  BY DEF Verdict
<1>2. status \in Verdicts3 /\ (status = "verified" => IndependentSources(s) >= 2)
  <2> HIDE DEF chosen, evidence
  <2> QED
    BY DEF Validate, Verdicts3
<1> HIDE DEF status, evidence
<1>3. IsList(s) /\ ToSet(s) \subseteq ToSet(related)
  BY SupportingAre
<1> HIDE DEF s
<1> QED
  BY <1>1, <1>2, <1>3 DEF Founded

LEMMA InsufficientIsFounded ==
    ASSUME NEW related
    PROVE  Founded(Insufficient, related)
<1>1. IsList(<<>>) /\ ToSet(<<>>) = {}
  BY EmptyIsList DEF ToSet
<1> QED
  BY <1>1 DEF Founded, Insufficient, Verdicts3

LEMMA FoundedIsIndependent ==
    ASSUME NEW v, NEW related, IsList(related), Founded(v, related), v.status = "verified",
           NEW a, a \notin ToSet(related)
    PROVE  a \notin ToSet(v.supporting) /\ Independent(ToSet(v.supporting))
<1>1. IsList(v.supporting) /\ IndependentSources(v.supporting) >= 2 /\ ToSet(v.supporting) \subseteq ToSet(related)
  BY DEF Founded
<1> QED
  BY <1>1, TwoSources

Rating == {"accept", "review", "reject"}

\* A decision is the one its scores call for.
Sound(d) ==
    /\ d.scores.relevance \in 0 .. 100 /\ d.scores.importance \in 0 .. 100 /\ d.scores.credibility \in 0 .. 100
    /\ d.decision \in Rating
    /\ d.decision # "reject" => d.scores.relevance >= 40 /\ d.scores.importance >= 40

LEMMA DecideIsSound ==
    ASSUME NEW a, a.relevance \in 0 .. 100, a.importance \in 0 .. 100, a.credibility \in 0 .. 100, NEW e
    PROVE  Sound([event |-> e, scores |-> a, decision |-> Decide(a)])
<1>1. Decide(a) \in Rating /\ (Decide(a) # "reject" => a.relevance >= 40 /\ a.importance >= 40)
  BY DEF Decide, Rating
<1> QED
  BY <1>1 DEF Sound

LEMMA TotalInRange ==
    ASSUME NEW s \in [1 .. 3 -> 0 .. 100]
    PROVE  Total(s) \in 0 .. 100
<1>0. s[1] \in 0 .. 100 /\ s[2] \in 0 .. 100 /\ s[3] \in 0 .. 100
  <2>1. 1 \in 1 .. 3 /\ 2 \in 1 .. 3 /\ 3 \in 1 .. 3
    OBVIOUS
  <2> QED
    BY <2>1
<1>1. PICK a \in 0 .. 100, b \in 0 .. 100, c \in 0 .. 100 : a = s[1] /\ b = s[2] /\ c = s[3]
  BY <1>0
<1>2. PICK n \in Int : n = a + b + c + 1
  OBVIOUS
<1>3. n >= 1 /\ n <= 301
  BY <1>2
<1>4. n \div 3 \in Int /\ n \div 3 >= 0 /\ n \div 3 <= 100
  BY <1>3
<1>5. Total(s) = n \div 3
  BY <1>1, <1>2 DEF Total
<1> QED
  BY <1>4, <1>5

LEMMA AssessmentInRange ==
    ASSUME NEW items \in Assessments \ {None}, NEW i \in DOMAIN items, NEW a, a = Assessment(items[i]), a # None
    PROVE  a.relevance \in 0 .. 100 /\ a.importance \in 0 .. 100 /\ a.credibility \in 0 .. 100
<1>1. PICK card, check : card = items[i].scorecard /\ check = items[i].check
  OBVIOUS
<1>2. card # None /\ a = [relevance |-> Total(card.relevance), importance |-> Total(card.importance),
                          credibility |-> Total(card.credibility), check |-> check]
  BY <1>1 DEF Assessment
<1>3. {card.relevance, card.importance, card.credibility} \subseteq [1 .. 3 -> 0 .. 100]
  BY <1>1, <1>2, AnswersAssumption
<1>4. card.relevance \in [1 .. 3 -> 0 .. 100]
  BY <1>3
<1>5. card.importance \in [1 .. 3 -> 0 .. 100]
  BY <1>3
<1>6. card.credibility \in [1 .. 3 -> 0 .. 100]
  BY <1>3
<1>7. Total(card.relevance) \in 0 .. 100
  BY <1>4, TotalInRange
<1>8. Total(card.importance) \in 0 .. 100
  BY <1>5, TotalInRange
<1>9. Total(card.credibility) \in 0 .. 100
  BY <1>6, TotalInRange
<1> QED
  BY <1>2, <1>7, <1>8, <1>9

\* new are decisions on elements of batch, on each once at most if they are different.
Decides(new, batch) ==
    /\ IsList(new) /\ \A n \in DOMAIN new : Sound(new[n]) /\ \E k \in DOMAIN batch : new[n].event = batch[k]
    /\ (\A k, l \in DOMAIN batch : batch[k] = batch[l] => k = l) =>
           \A i, n \in DOMAIN new : new[i].event = new[n].event => i = n

LEMMA DecidedAre ==
    ASSUME NEW items \in Assessments \ {None}, NEW batch, IsList(batch)
    PROVE  Decides(Decided(items, batch), batch)
<1> DEFINE chosen == Unambiguous(items, Len(batch))
           known == {k \in DOMAIN batch : \E i \in chosen : items[i].index = k /\ Assessment(items[i]) # None}
           read == Ascending(known)
           judged(k) == Assessment(ItemAt(items, k, chosen))
           decided == [n \in DOMAIN read |->
               [event |-> batch[read[n]], scores |-> judged(read[n]), decision |-> Decide(judged(read[n]))]]
<1>1. Decided(items, batch) = decided
  BY DEF Decided
<1>2. PICK N \in Nat : N = Len(batch) /\ DOMAIN batch = 1 .. N
  BY ListIsSeq
<1>3. known \in SUBSET (1 .. N)
  BY <1>2
<1>4. ASSUME NEW k \in known
      PROVE  /\ judged(k).relevance \in 0 .. 100 /\ judged(k).importance \in 0 .. 100
             /\ judged(k).credibility \in 0 .. 100
  <2>1. PICK i \in chosen : items[i].index = k /\ Assessment(items[i]) # None
    OBVIOUS
  <2>2. ItemAt(items, items[i].index, chosen) = items[i] /\ i \in DOMAIN items
    BY ItemNamed
  <2>3. judged(k) = Assessment(items[i])
    BY <2>1, <2>2
  <2>4. PICK a : a = Assessment(items[i])
    OBVIOUS
  <2>5. a.relevance \in 0 .. 100 /\ a.importance \in 0 .. 100 /\ a.credibility \in 0 .. 100
    BY <2>1, <2>2, <2>4, AssessmentInRange
  <2> HIDE DEF judged
  <2> QED
    BY <2>3, <2>4, <2>5
<1> HIDE DEF known, judged
<1>5. PICK C \in Nat :
         /\ C = Cardinality(known) /\ C <= N /\ DOMAIN read = 1 .. C
         /\ \A n \in 1 .. C : read[n] \in known
         /\ \A m, n \in 1 .. C : read[m] = read[n] => m = n
  <2>1. InOrder(Ascending(known), known, N)
    BY <1>3, AscendingIsList
  <2> QED
    BY <2>1 DEF InOrder
<1> HIDE DEF read
<1>6. \A n \in 1 .. C : read[n] \in DOMAIN batch
  BY <1>2, <1>3, <1>5
<1>7. \A n \in 1 .. C :
         decided[n] = [event |-> batch[read[n]], scores |-> judged(read[n]), decision |-> Decide(judged(read[n]))]
  BY <1>5
<1>8. decided = [n \in 1 .. C |-> decided[n]]
  BY <1>5
<1> HIDE DEF decided
<1>9. \A n \in 1 .. C : Sound(decided[n]) /\ decided[n].event = batch[read[n]]
  <2> SUFFICES ASSUME NEW n \in 1 .. C PROVE Sound(decided[n]) /\ decided[n].event = batch[read[n]]
    OBVIOUS
  <2>1. PICK a, e : a = judged(read[n]) /\ e = batch[read[n]]
    OBVIOUS
  <2>2. a.relevance \in 0 .. 100 /\ a.importance \in 0 .. 100 /\ a.credibility \in 0 .. 100
    BY <1>4, <1>5, <2>1
  <2>3. Sound([event |-> e, scores |-> a, decision |-> Decide(a)])
    BY <2>2, DecideIsSound
  <2> QED
    BY <1>7, <2>1, <2>3
<1>10. IsList(decided) /\ DOMAIN decided = 1 .. C
  BY <1>8, FunctionIsList
<1>11. ASSUME \A k, l \in DOMAIN batch : batch[k] = batch[l] => k = l,
              NEW i \in 1 .. C, NEW n \in 1 .. C, decided[i].event = decided[n].event
       PROVE  i = n
  <2>1. batch[read[i]] = batch[read[n]]
    BY <1>9, <1>11
  <2>2. read[i] = read[n]
    BY <1>6, <1>11, <2>1
  <2> QED
    BY <1>5, <2>2
<1> QED
  BY <1>1, <1>6, <1>9, <1>10, <1>11 DEF Decides

----------------------------------------------------------------------------
(* The directory of companies.                                             *)

LEMMA DirectoryIsFinite ==
    ASSUME NEW rows, IsList(rows), Directory(rows) # None
    PROVE  IsFiniteSet(Directory(rows))
<1> DEFINE valid == {i \in DOMAIN rows : rows[i] # None}
           f == [i \in valid |-> rows[i]]
<1>1. Directory(rows) = {rows[i] : i \in valid}
  BY DEF Directory
<1>2. PICK N \in Nat : DOMAIN rows = 1 .. N
  BY ListIsSeq
<1>3. IsFiniteSet(valid)
  BY <1>2, PlacesFinite
<1>4. f \in Surjection(valid, {rows[i] : i \in valid})
  BY DEF Surjection
<1> HIDE DEF valid, f
<1> QED
  BY <1>1, <1>3, <1>4, FS_Surjection

LEMMA MarketDirectoryIsFinite ==
    ASSUME NEW days \in Directories, MarketDirectory(days) # None
    PROVE  IsFiniteSet(MarketDirectory(days))
<1> DEFINE here(d, m) == IF days[d][m] = None THEN <<>>
                         ELSE Picked(days[d][m], {n \in DOMAIN days[d][m] : days[d][m][n] # None})
           rows(d) == FlattenSeq([m \in DOMAIN days[d] |-> here(d, m)])
           loaded == {d \in DOMAIN days : rows(d) # <<>>}
           first == CHOOSE d \in loaded : \A e \in loaded : d <= e
<1>1. MarketDirectory(days) = IF loaded = {} THEN None ELSE Directory(rows(first))
  BY DEF MarketDirectory, Where, Places
<1>2. IsList(days) /\ \A d \in DOMAIN days :
         IsList(days[d]) /\ \A m \in DOMAIN days[d] : days[d][m] = None \/ IsList(days[d][m])
  BY DirectoriesAssumption
<1>3. ASSUME NEW d \in DOMAIN days PROVE IsList(rows(d))
  <2> DEFINE ss == [m \in DOMAIN days[d] |-> here(d, m)]
  <2>1. PICK N \in Nat : DOMAIN days[d] = 1 .. N
    BY <1>2, ListIsSeq
  <2>2. ASSUME NEW m \in DOMAIN days[d] PROVE IsList(here(d, m))
    <3>1. CASE days[d][m] = None
      BY <3>1, EmptyIsList
    <3>2. CASE days[d][m] # None
      <4>1. PICK s : s = days[d][m] /\ IsList(s)
        BY <1>2, <3>2
      <4> DEFINE places == {n \in DOMAIN s : s[n] # None}
      <4>2. places \in SUBSET DOMAIN s
        OBVIOUS
      <4>3. IsList(Picked(s, places))
        BY <4>1, <4>2, PickedFromList
      <4> QED
        BY <3>2, <4>1, <4>3
    <3> QED
      BY <3>1, <3>2
  <2> HIDE DEF here
  <2>3. DOMAIN ss = 1 .. N /\ \A m \in DOMAIN ss : IsList(ss[m])
    BY <2>1, <2>2
  <2>4. IsList(ss)
    <3>1. ss = [m \in 1 .. N |-> ss[m]]
      BY <2>1
    <3> HIDE DEF ss
    <3> QED
      BY <3>1, FunctionIsList
  <2> HIDE DEF ss
  <2>5. IsList(FlattenSeq(ss))
    BY <2>3, <2>4, Flattened
  <2> QED
    BY <2>5 DEF ss
<1> HIDE DEF rows
<1>4. loaded \subseteq Nat
  BY <1>2, ListIsSeq
<1>5. loaded # {}
  BY <1>1
<1>6. \E d \in loaded : \A e \in loaded : d <= e
  BY <1>4, <1>5, Least
<1>7. first \in DOMAIN days
  BY <1>6
<1> HIDE DEF loaded, first
<1>8. PICK s : s = rows(first) /\ IsList(s)
  BY <1>3, <1>7
<1> QED
  BY <1>1, <1>5, <1>8, DirectoryIsFinite

\* Whatever a directory is loaded from, it has finitely many companies.
LEMMA ConfiguredIsFinite ==
    ASSUME NEW d \in Configured, d # None
    PROVE  IsFiniteSet(d)
<1>1. CASE d = {}
  BY <1>1, FS_EmptySet
<1>2. ASSUME NEW rows \in Files, d \in {Directory(rows), CsvDirectory(rows)}
      PROVE  IsFiniteSet(d)
  <2>1. d = Directory(rows)
    BY <1>2 DEF CsvDirectory
  <2>2. IsList(rows)
    BY DirectoriesAssumption
  <2> QED
    BY <2>1, <2>2, DirectoryIsFinite
<1>3. ASSUME NEW days \in Directories, d = MarketDirectory(days)
      PROVE  IsFiniteSet(d)
  BY <1>3, MarketDirectoryIsFinite
<1>4. CASE \E rows \in Files : d \in {Directory(rows), CsvDirectory(rows)}
  BY <1>2, <1>4
<1>5. CASE \E days \in Directories : d = MarketDirectory(days)
  BY <1>3, <1>5
<1>6. \/ d = {}
      \/ \E rows \in Files : d \in {Directory(rows), CsvDirectory(rows)}
      \/ \E days \in Directories : d = MarketDirectory(days)
  BY DEF Configured
<1> QED
  BY <1>1, <1>4, <1>5, <1>6

----------------------------------------------------------------------------
(* Impacts and scores.                                                     *)

\* The facts and companies of a resolved event that are news for one company.
NewsOf(r, id, direction) ==
    {p \in (DOMAIN r.facts) \X (DOMAIN r.companies) :
        /\ r.companies[p[2]].direct /\ r.companies[p[2]].id = id
        /\ Direction(r.facts[p[1]]) = direction}

\* X has those of the observations s of a company that have a direction.
Picks(s, X, id, direction) == \A o \in ToSet(s) : o \in X <=> o.company.id = id /\ o.direction = direction

\* As many of a list are in X as there are in a set.
Tells(s, X, set) == IsList(s) /\ IsFiniteSet(set) /\ Count(s, X) = Cardinality(set)

OfCompanies(s, companies) == \A o \in ToSet(s) : \E c \in DOMAIN companies : o.company = companies[c]

LEMMA ObservationsAre ==
    ASSUME NEW r, IsList(r.companies), IsList(r.facts), NEW id, NEW direction, NEW X,
           Picks(Observations(r), X, id, direction)
    PROVE  Tells(Observations(r), X, NewsOf(r, id, direction)) /\ OfCompanies(Observations(r), r.companies)
<1>0. \A o \in ToSet(Observations(r)) : o \in X <=> o.company.id = id /\ o.direction = direction
  BY DEF Picks
<1>1. PICK cs, fs : cs = r.companies /\ fs = r.facts
  OBVIOUS
<1>2. PICK N \in Nat : DOMAIN cs = 1 .. N
  BY <1>1, ListIsSeq
<1>3. PICK M \in Nat : DOMAIN fs = 1 .. M
  BY <1>1, ListIsSeq
<1> DEFINE places == {n \in DOMAIN cs : cs[n].direct}
           direct == Picked(cs, places)
           row(f) == [n \in DOMAIN direct |-> [company |-> direct[n], direction |-> Direction(fs[f])]]
           ss == [f \in DOMAIN fs |-> row(f)]
           B == [f \in DOMAIN fs |-> {c \in DOMAIN cs : cs[c].direct /\ cs[c].id = id /\ Direction(fs[f]) = direction}]
<1>4. Observations(r) = FlattenSeq(ss)
  BY <1>1 DEF Observations, Where, Places
<1>5. places \in SUBSET DOMAIN cs
  OBVIOUS
<1>6. \A c : c \in places <=> c \in DOMAIN cs /\ cs[c].direct
  OBVIOUS
<1> HIDE DEF places
<1>7. IsList(direct) /\ \A x : x \in ToSet(direct) <=> \E p \in places : x = cs[p]
  BY <1>1, <1>5, PickedFromList
<1>8. PICK C \in Nat : DOMAIN direct = 1 .. C
  BY <1>7, ListIsSeq
<1>9. \A Z : Count(direct, Z) = Cardinality({p \in places : cs[p] \in Z})
  BY <1>1, <1>5, PickedCount
<1>10. \A n \in DOMAIN direct : direct[n] \in ToSet(direct)
  BY DEF ToSet
<1> HIDE DEF direct
<1>11. ASSUME NEW f \in DOMAIN fs PROVE IsList(ss[f]) /\ ss[f] = row(f)
  <2>1. ss[f] = row(f) /\ row(f) = [n \in 1 .. C |-> row(f)[n]]
    BY <1>8
  <2> HIDE DEF ss, row
  <2> QED
    BY <2>1, FunctionIsList
<1>12. IsList(ss) /\ DOMAIN ss = DOMAIN fs
  <2>1. ss = [f \in 1 .. M |-> ss[f]] /\ DOMAIN ss = DOMAIN fs
    BY <1>3
  <2> HIDE DEF ss
  <2> QED
    BY <2>1, FunctionIsList
<1> HIDE DEF ss
<1>13. IsList(FlattenSeq(ss)) /\ ToSet(FlattenSeq(ss)) = UNION {ToSet(ss[n]) : n \in DOMAIN ss}
  BY <1>11, <1>12, Flattened
<1>14. ASSUME NEW f \in DOMAIN fs, NEW n \in DOMAIN direct
       PROVE  /\ row(f)[n] \in ToSet(Observations(r))
              /\ row(f)[n].company = direct[n] /\ row(f)[n].direction = Direction(fs[f])
  <2>1. row(f)[n] \in ToSet(row(f))
    BY DEF ToSet
  <2>2. row(f)[n] \in ToSet(ss[f])
    BY <1>11, <2>1
  <2> QED
    BY <1>4, <1>12, <1>13, <2>2
<1>15. ASSUME NEW f \in DOMAIN fs
       PROVE  IsFiniteSet(B[f]) /\ Cardinality(B[f]) = Count(ss[f], X)
  <2> DEFINE Z == {c \in ToSet(direct) : c.id = id /\ Direction(fs[f]) = direction}
             t == row(f)
  <2>1. \A n \in DOMAIN direct : t[n] \in X <=> direct[n] \in Z
    BY <1>0, <1>10, <1>14
  <2>2. DOMAIN t = DOMAIN direct
    OBVIOUS
  <2> HIDE DEF t, row
  <2>3. {n \in DOMAIN t : t[n] \in X} = {n \in DOMAIN direct : direct[n] \in Z}
    BY <2>1, <2>2
  <2>4. Count(ss[f], X) = Count(direct, Z)
    BY <1>11, <2>3 DEF Count, t
  <2>5. \A p \in places : cs[p] \in ToSet(direct)
    BY <1>7
  <2>6. {p \in places : cs[p] \in Z} = B[f]
    BY <1>6, <2>5
  <2>7. B[f] \in SUBSET (1 .. N)
    BY <1>2
  <2> HIDE DEF Z, B
  <2>8. Count(direct, Z) = Cardinality({p \in places : cs[p] \in Z})
    BY <1>9
  <2> QED
    BY <2>4, <2>6, <2>7, <2>8, PlacesFinite
<1>16. NewsOf(r, id, direction) = UNION {{f} \X B[f] : f \in DOMAIN fs}
  <2>1. NewsOf(r, id, direction) =
           {p \in (DOMAIN fs) \X (DOMAIN cs) : cs[p[2]].direct /\ cs[p[2]].id = id /\ Direction(fs[p[1]]) = direction}
    BY <1>1 DEF NewsOf
  <2>2. ASSUME NEW p, p \in NewsOf(r, id, direction) PROVE p \in UNION {{f} \X B[f] : f \in DOMAIN fs}
    <3>1. PICK f \in DOMAIN fs, c \in DOMAIN cs :
             p = <<f, c>> /\ cs[c].direct /\ cs[c].id = id /\ Direction(fs[f]) = direction
      BY <2>1, <2>2
    <3>2. c \in B[f]
      BY <3>1
    <3> HIDE DEF B
    <3> QED
      BY <3>1, <3>2
  <2>3. ASSUME NEW p, p \in UNION {{f} \X B[f] : f \in DOMAIN fs} PROVE p \in NewsOf(r, id, direction)
    <3>1. PICK f \in DOMAIN fs : p \in {f} \X B[f]
      BY <2>3
    <3>2. PICK c \in B[f] : p = <<f, c>>
      BY <3>1
    <3>3. c \in DOMAIN cs /\ cs[c].direct /\ cs[c].id = id /\ Direction(fs[f]) = direction
      BY <3>2
    <3> QED
      BY <2>1, <3>2, <3>3
  <2> QED
    BY <2>2, <2>3
<1> HIDE DEF B
<1>17. IsFiniteSet(NewsOf(r, id, direction))
  <2>1. IsFiniteSet(DOMAIN fs) /\ \A f \in DOMAIN fs : IsFiniteSet(B[f])
    BY <1>3, <1>15, UpTo
  <2> QED
    BY <1>16, <2>1, PairsFinite
<1>18. Count(FlattenSeq(ss), X) = Cardinality(UNION {{n} \X B[n] : n \in DOMAIN ss})
  <2>1. \A n \in DOMAIN ss : IsFiniteSet(B[n]) /\ Cardinality(B[n]) = Count(ss[n], X)
    BY <1>12, <1>15
  <2>2. \A n \in DOMAIN ss : IsList(ss[n])
    BY <1>11, <1>12
  <2> QED
    BY <1>12, <2>1, <2>2, FlattenedCount
<1>19. ASSUME NEW o \in ToSet(Observations(r)) PROVE \E c \in DOMAIN r.companies : o.company = r.companies[c]
  <2>1. PICK f \in DOMAIN fs : o \in ToSet(row(f))
    BY <1>4, <1>11, <1>12, <1>13
  <2>2. PICK n \in DOMAIN direct : o = row(f)[n]
    BY <2>1 DEF ToSet
  <2>3. o.company = direct[n]
    BY <1>14, <2>2
  <2> QED
    BY <1>1, <1>5, <1>7, <1>10, <2>3
<1> QED
  BY <1>4, <1>12, <1>13, <1>16, <1>17, <1>18, <1>19 DEF Tells, OfCompanies

\* Whether a resolved event counts for its companies.
Counts(r) == r.decision = "accept" \/ (r.decision = "review" /\ r.validation \in {"verified", "partially_verified"})

\* What a resolved event is made of.
Resolved(r) ==
    /\ IsList(r.companies) /\ IsList(r.facts) /\ r.decision \in Rating
    /\ \A c \in DOMAIN r.companies : r.companies[c].id # None => r.companies[c].status = "resolved"

LEMMA ExcludedWhen ==
    ASSUME NEW r, r.decision \in Rating, NEW o
    PROVE  Exclusion(r, o) = None <=>
              /\ Counts(r) /\ o.company.status = "resolved" /\ o.company.id # None /\ o.direction # "unknown"
<1>1. /\ "event_rejected" # None /\ "event_review_not_verified" # None /\ "company_not_resolved" # None
      /\ "company_identity_missing" # None /\ "unknown_direction" # None
  BY RulesAssumption
<1> QED
  BY <1>1 DEF Exclusion, Counts, Rating

News(rs, id, direction) ==
    UNION {{n} \X NewsOf(rs[n], id, direction) : n \in {m \in DOMAIN rs : Counts(rs[m])}}

\* The impacts s are of companies of resolved events.
Identified(s, rs) ==
    \A o \in ToSet(s) :
        o.company.id # None /\ \E n \in DOMAIN rs : \E c \in DOMAIN rs[n].companies : o.company = rs[n].companies[c]

LEMMA ImpactsAre ==
    ASSUME NEW rs, IsList(rs), \A n \in DOMAIN rs : Resolved(rs[n]), NEW id, id # None,
           NEW direction \in {"positive", "negative"}, NEW Y, Picks(Impacts(rs), Y, id, direction)
    PROVE  Tells(Impacts(rs), Y, News(rs, id, direction)) /\ Identified(Impacts(rs), rs)
<1>0. \A o \in ToSet(Impacts(rs)) : o \in Y <=> o.company.id = id /\ o.direction = direction
  BY DEF Picks
<1> DEFINE obs(n) == Observations(rs[n])
           places(n) == {p \in DOMAIN obs(n) : Exclusion(rs[n], obs(n)[p]) = None}
           ss == [n \in DOMAIN rs |-> Picked(obs(n), places(n))]
           B == [n \in DOMAIN rs |-> IF Counts(rs[n]) THEN NewsOf(rs[n], id, direction) ELSE {}]
<1>1. Impacts(rs) = FlattenSeq(ss)
  BY DEF Impacts, Where, Places
<1>2. PICK N \in Nat : DOMAIN rs = 1 .. N
  BY ListIsSeq
<1>3. ASSUME NEW n \in DOMAIN rs
      PROVE  /\ IsList(ss[n]) /\ IsFiniteSet(B[n])
             /\ \A o : o \in ToSet(ss[n]) <=> \E p \in places(n) : o = obs(n)[p]
             /\ \A o \in ToSet(ss[n]) :
                   o.company.id # None /\ \E c \in DOMAIN rs[n].companies : o.company = rs[n].companies[c]
             /\ ((\A o \in ToSet(ss[n]) : o \in Y <=> o.company.id = id /\ o.direction = direction)
                    => Cardinality(B[n]) = Count(ss[n], Y))
  <2>1. PICK r : r = rs[n] /\ Resolved(r)
    OBVIOUS
  <2>2. IsList(r.companies) /\ IsList(r.facts) /\ r.decision \in Rating
    BY <2>1 DEF Resolved
  <2> DEFINE os == Observations(r)
             X == {o \in ToSet(os) : o.company.id = id /\ o.direction = direction}
             at == {p \in DOMAIN os : Exclusion(r, os[p]) = None}
  <2>3. /\ IsList(os) /\ IsFiniteSet(NewsOf(r, id, direction))
        /\ Count(os, X) = Cardinality(NewsOf(r, id, direction))
        /\ \A o \in ToSet(os) : \E c \in DOMAIN r.companies : o.company = r.companies[c]
    <3>1. Picks(os, X, id, direction)
      BY DEF Picks
    <3> HIDE DEF X
    <3>2. Tells(os, X, NewsOf(r, id, direction)) /\ OfCompanies(os, r.companies)
      BY <2>2, <3>1, ObservationsAre
    <3> HIDE DEF os
    <3> QED
      BY <3>2 DEF Tells, OfCompanies
  <2>4. obs(n) = os /\ places(n) = at /\ ss[n] = Picked(os, at)
    BY <2>1
  <2>5. \A p \in DOMAIN os : os[p] \in ToSet(os)
    BY DEF ToSet
  <2>6. at \in SUBSET DOMAIN os
    OBVIOUS
  <2>7. \A p \in DOMAIN os : p \in at <=> Exclusion(r, os[p]) = None
    OBVIOUS
  <2> HIDE DEF os, at, places, obs, ss
  <2>8. IsList(ss[n]) /\ \A o : o \in ToSet(ss[n]) <=> \E p \in at : o = os[p]
    BY <2>3, <2>4, <2>6, PickedFromList
  <2>9. ASSUME NEW p \in DOMAIN os
        PROVE  p \in at <=> /\ Counts(r) /\ os[p].company.status = "resolved" /\ os[p].company.id # None
                            /\ os[p].direction # "unknown"
    BY <2>2, <2>7, ExcludedWhen
  <2>10. \A p \in at : os[p].company.id # None /\ \E c \in DOMAIN r.companies : os[p].company = r.companies[c]
    BY <2>3, <2>5, <2>6, <2>9
  <2>11. ASSUME NEW p \in DOMAIN os, os[p].company.id = id
         PROVE  os[p].company.status = "resolved"
    <3>1. PICK c \in DOMAIN r.companies : os[p].company = r.companies[c]
      BY <2>3, <2>5
    <3> QED
      BY <2>1, <2>11, <3>1 DEF Resolved
  <2>12. ASSUME \A o \in ToSet(ss[n]) : o \in Y <=> o.company.id = id /\ o.direction = direction
         PROVE  Cardinality(B[n]) = Count(ss[n], Y)
    <3>1. Count(ss[n], Y) = Cardinality({p \in at : os[p] \in Y})
      BY <2>3, <2>4, <2>6, PickedCount
    <3>2. \A p \in at : os[p] \in Y <=> os[p].company.id = id /\ os[p].direction = direction
      BY <2>8, <2>12
    <3>3. CASE Counts(r)
      <4>1. \A p \in DOMAIN os : os[p] \in X <=> os[p].company.id = id /\ os[p].direction = direction
        BY <2>5
      <4>2. ASSUME NEW p \in DOMAIN os, os[p].company.id = id, os[p].direction = direction PROVE p \in at
        BY <2>9, <2>11, <3>3, <4>2
      <4> HIDE DEF X
      <4>3. {p \in at : os[p] \in Y} = {p \in DOMAIN os : os[p] \in X}
        BY <2>6, <3>2, <4>1, <4>2
      <4>4. Count(ss[n], Y) = Count(os, X)
        BY <3>1, <4>3 DEF Count
      <4>5. B[n] = NewsOf(r, id, direction)
        BY <2>1, <3>3
      <4> QED
        BY <2>3, <4>4, <4>5
    <3>4. CASE ~Counts(r)
      <4>1. at = {}
        BY <2>6, <2>9, <3>4
      <4>2. {p \in at : os[p] \in Y} = {} /\ B[n] = {}
        BY <2>1, <3>4, <4>1
      <4> QED
        BY <3>1, <4>2
    <3> QED
      BY <3>3, <3>4
  <2>13. IsFiniteSet(B[n])
    <3>1. B[n] = NewsOf(r, id, direction) \/ B[n] = {}
      BY <2>1
    <3> QED
      BY <2>3, <3>1, FS_EmptySet
  <2> HIDE DEF B
  <2>14. \A o \in ToSet(ss[n]) :
            o.company.id # None /\ \E c \in DOMAIN rs[n].companies : o.company = rs[n].companies[c]
    BY <2>1, <2>8, <2>10
  <2>15. \A o : o \in ToSet(ss[n]) <=> \E p \in places(n) : o = obs(n)[p]
    BY <2>4, <2>8
  <2> QED
    BY <2>8, <2>12, <2>13, <2>14, <2>15
<1>4. IsList(ss) /\ DOMAIN ss = DOMAIN rs
  <2> HIDE DEF places, obs
  <2>1. DOMAIN ss = DOMAIN rs /\ ss = [n \in 1 .. N |-> ss[n]]
    BY <1>2
  <2> HIDE DEF ss
  <2> QED
    BY <2>1, FunctionIsList
<1> HIDE DEF ss, places, obs
<1>5. \A n \in DOMAIN ss : IsList(ss[n])
  BY <1>3, <1>4
<1>6. IsList(FlattenSeq(ss)) /\ ToSet(FlattenSeq(ss)) = UNION {ToSet(ss[n]) : n \in DOMAIN ss}
  BY <1>4, <1>5, Flattened
<1>7. \A n \in DOMAIN ss : \A o \in ToSet(ss[n]) : o \in ToSet(Impacts(rs))
  BY <1>1, <1>6
<1>8. \A n \in DOMAIN ss : IsFiniteSet(B[n]) /\ Cardinality(B[n]) = Count(ss[n], Y)
  <2> SUFFICES ASSUME NEW n \in DOMAIN ss PROVE IsFiniteSet(B[n]) /\ Cardinality(B[n]) = Count(ss[n], Y)
    OBVIOUS
  <2>1. \A o \in ToSet(ss[n]) : o \in Y <=> o.company.id = id /\ o.direction = direction
    BY <1>0, <1>7
  <2> HIDE DEF B
  <2> QED
    BY <1>3, <1>4, <2>1
<1>9. News(rs, id, direction) = UNION {{n} \X B[n] : n \in DOMAIN rs}
  <2>1. ASSUME NEW p, p \in News(rs, id, direction) PROVE p \in UNION {{n} \X B[n] : n \in DOMAIN rs}
    <3>1. PICK n \in DOMAIN rs : Counts(rs[n]) /\ p \in {n} \X NewsOf(rs[n], id, direction)
      BY <2>1 DEF News
    <3>2. B[n] = NewsOf(rs[n], id, direction)
      BY <3>1
    <3> HIDE DEF B
    <3> QED
      BY <3>1, <3>2
  <2>2. ASSUME NEW p, p \in UNION {{n} \X B[n] : n \in DOMAIN rs} PROVE p \in News(rs, id, direction)
    <3>1. PICK n \in DOMAIN rs : p \in {n} \X B[n]
      BY <2>2
    <3>2. B[n] # {}
      BY <3>1
    <3>3. Counts(rs[n]) /\ B[n] = NewsOf(rs[n], id, direction)
      BY <3>2
    <3> HIDE DEF B
    <3> QED
      BY <3>1, <3>3 DEF News
  <2> QED
    BY <2>1, <2>2
<1> HIDE DEF B
<1>10. Count(FlattenSeq(ss), Y) = Cardinality(UNION {{n} \X B[n] : n \in DOMAIN ss})
  BY <1>4, <1>5, <1>8, FlattenedCount
<1>11. IsFiniteSet(News(rs, id, direction))
  <2>1. IsFiniteSet(DOMAIN rs) /\ \A n \in DOMAIN rs : IsFiniteSet(B[n])
    BY <1>2, <1>4, <1>8, UpTo
  <2> QED
    BY <1>9, <2>1, PairsFinite
<1>12. ASSUME NEW o \in ToSet(Impacts(rs))
       PROVE  o.company.id # None /\ \E n \in DOMAIN rs : \E c \in DOMAIN rs[n].companies : o.company = rs[n].companies[c]
  <2>1. PICK n \in DOMAIN rs : o \in ToSet(ss[n])
    BY <1>1, <1>4, <1>6
  <2> QED
    BY <1>3, <2>1
<1> QED
  BY <1>1, <1>4, <1>6, <1>9, <1>10, <1>11, <1>12 DEF Tells, Identified

\* How many of the first n impacts have a direction.
Told(s, n, direction) == Cardinality({p \in 1 .. n : s[p].direction = direction})

LEMMA ToldGrows ==
    ASSUME NEW s, NEW n \in Nat, NEW m, m = n + 1, NEW direction
    PROVE  /\ Told(s, n, direction) \in Nat /\ Told(s, 0, direction) = 0
           /\ Told(s, m, direction) = Told(s, n, direction) + (IF s[m].direction = direction THEN 1 ELSE 0)
<1> DEFINE A == {p \in 1 .. n : s[p].direction = direction}
           B == {p \in 1 .. m : s[p].direction = direction}
<1>1. A \in SUBSET (1 .. n) /\ m \notin A
  OBVIOUS
<1>2. IsFiniteSet(A) /\ Cardinality(A) \in Nat
  BY <1>1, PlacesFinite
<1>3. Told(s, 0, direction) = 0
  <2>1. {p \in 1 .. 0 : s[p].direction = direction} = {}
    OBVIOUS
  <2> QED
    BY <2>1, FS_EmptySet DEF Told
<1>4. B = IF s[m].direction = direction THEN A \cup {m} ELSE A
  OBVIOUS
<1>5. Told(s, n, direction) = Cardinality(A) /\ Told(s, m, direction) = Cardinality(B)
  BY DEF Told
<1> HIDE DEF A, B
<1>6. Cardinality(A \cup {m}) = Cardinality(A) + 1
  BY <1>1, <1>2, FS_AddElement
<1> QED
  BY <1>2, <1>3, <1>4, <1>5, <1>6

LEMMA ScoreIsNet ==
    ASSUME NEW group, IsList(group.impacts), NEW N, N = Len(group.impacts)
    PROVE  /\ Told(group.impacts, N, "positive") \in Nat /\ Told(group.impacts, N, "negative") \in Nat
           /\ Score(group) = Told(group.impacts, N, "positive") - Told(group.impacts, N, "negative")
<1>1. PICK s : s = group.impacts /\ IsList(s) /\ N = Len(s) /\ N \in Nat
  BY ListIsSeq
<1> DEFINE w(n) == Weight(s[n].direction)
           step == [n \in 1 .. N |-> [t \in Int |-> t + w(n)]]
           total == CHOOSE f : f = [n \in 0 .. N |-> IF n = 0 THEN 0 ELSE f[n - 1] + w(n)]
<1>2. \A n \in 1 .. N : w(n) \in Int
  BY DEF Weight
<1>3. \A n : w(n) = IF s[n].direction = "positive" THEN 1 ELSE IF s[n].direction = "negative" THEN -1 ELSE 0
  BY DEF Weight
<1> HIDE DEF w
<1>4. step \in [1 .. N -> [Int -> Int]]
  BY <1>2
<1>5. total = [n \in 0 .. N |-> IF n = 0 THEN 0 ELSE total[n - 1] + w(n)]
  <2> HIDE DEF step
  <2>0. N \in Nat /\ 0 \in Int
    BY <1>1
  <2>1. PICK f \in [0 .. N -> Int] : Iterates(f, N, 0, step)
    BY <1>4, <2>0, Iterated
  <2>2. ASSUME NEW n \in 1 .. N PROVE f[n] = f[n - 1] + w(n)
    <3>1. n - 1 \in 0 .. N
      BY <1>1
    <3>2. PICK t \in Int : t = f[n - 1]
      BY <3>1
    <3>3. f[n] = step[n][t]
      BY <2>1, <3>2 DEF Iterates
    <3> QED
      BY <3>2, <3>3 DEF step
  <2>3. f[0] = 0
    BY <2>1 DEF Iterates
  <2>4. \A n \in 0 .. N : f[n] = IF n = 0 THEN 0 ELSE f[n - 1] + w(n)
    BY <1>1, <2>2, <2>3
  <2>5. f = [n \in 0 .. N |-> f[n]]
    OBVIOUS
  <2>6. f = [n \in 0 .. N |-> IF n = 0 THEN 0 ELSE f[n - 1] + w(n)]
    BY <2>4, <2>5
  <2> QED
    BY <2>6
<1>6. Score(group) = total[N]
  BY <1>1 DEF Score, w
<1> HIDE DEF total
<1>7. total[0] = 0 /\ \A n \in 1 .. N : total[n] = total[n - 1] + w(n)
  BY <1>1, <1>5
<1> DEFINE T == {n \in 0 .. N : total[n] = Told(s, n, "positive") - Told(s, n, "negative")}
<1>8. 0 \in T
  <2>1. Told(s, 0, "positive") = 0 /\ Told(s, 0, "negative") = 0
    BY ToldGrows
  <2> QED
    BY <1>1, <1>7, <2>1
<1>9. ASSUME NEW n \in Nat, n < N /\ n \in T PROVE n + 1 \in T
  <2>1. PICK m \in 1 .. N : m = n + 1 /\ m - 1 = n
    BY <1>1, <1>9
  <2>2. PICK a \in Nat : a = Told(s, n, "positive") /\
                         Told(s, m, "positive") = a + (IF s[m].direction = "positive" THEN 1 ELSE 0)
    <3>1. m = n + 1
      BY <2>1
    <3>2. /\ Told(s, n, "positive") \in Nat
          /\ Told(s, m, "positive") = Told(s, n, "positive") + (IF s[m].direction = "positive" THEN 1 ELSE 0)
      BY <3>1, ToldGrows
    <3> QED
      BY <3>2
  <2>3. PICK b \in Nat : b = Told(s, n, "negative") /\
                         Told(s, m, "negative") = b + (IF s[m].direction = "negative" THEN 1 ELSE 0)
    <3>1. m = n + 1
      BY <2>1
    <3>2. /\ Told(s, n, "negative") \in Nat
          /\ Told(s, m, "negative") = Told(s, n, "negative") + (IF s[m].direction = "negative" THEN 1 ELSE 0)
      BY <3>1, ToldGrows
    <3> QED
      BY <3>2
  <2>4. total[n] = a - b
    BY <1>9, <2>2, <2>3
  <2>5. total[m] = a - b + w(m)
    BY <1>7, <2>1, <2>4
  <2>6. w(m) = IF s[m].direction = "positive" THEN 1 ELSE IF s[m].direction = "negative" THEN -1 ELSE 0
    BY <1>3, <2>1
  <2>7. total[m] = Told(s, m, "positive") - Told(s, m, "negative")
    <3>1. PICK v \in Int : v = w(m)
      BY <1>2
    <3>2. PICK d : d = s[m].direction
      OBVIOUS
    <3>3. v = IF d = "positive" THEN 1 ELSE IF d = "negative" THEN -1 ELSE 0
      BY <2>6, <3>1, <3>2
    <3>4. total[m] = a - b + v
      BY <2>5, <3>1
    <3>5. /\ Told(s, m, "positive") = a + (IF d = "positive" THEN 1 ELSE 0)
          /\ Told(s, m, "negative") = b + (IF d = "negative" THEN 1 ELSE 0)
      BY <2>2, <2>3, <3>2
    <3> QED
      BY <3>3, <3>4, <3>5
  <2>8. m \in 0 .. N
    BY <1>1
  <2>9. m \in T
    BY <2>7, <2>8
  <2> QED
    BY <2>1, <2>9
<1> HIDE DEF T
<1>10. \A n \in 0 .. N : n \in T
  BY <1>1, <1>8, <1>9, BoundedInduction
<1>11. N \in T
  BY <1>1, <1>10
<1>12. Told(s, N, "positive") \in Nat /\ Told(s, N, "negative") \in Nat
  BY <1>1, ToldGrows
<1> QED
  BY <1>1, <1>6, <1>11, <1>12 DEF T

LEMMA ToldOfPicked ==
    ASSUME NEW s, IsList(s), NEW S \in SUBSET DOMAIN s, NEW direction, NEW N, N = Len(Picked(s, S))
    PROVE  Told(Picked(s, S), N, direction) = Cardinality({p \in S : s[p].direction = direction})
<1> DEFINE X == {o \in ToSet(s) : o.direction = direction}
           t == Picked(s, S)
<1>1. \A p \in DOMAIN s : s[p] \in ToSet(s)
  BY DEF ToSet
<1>2. {p \in S : s[p] \in X} = {p \in S : s[p].direction = direction}
  BY <1>1
<1>3. IsList(t) /\ \A x : x \in ToSet(t) <=> \E p \in S : x = s[p]
  BY PickedFromList
<1>4. DOMAIN t = 1 .. N
  BY <1>3, ListIsSeq
<1>5. \A n \in DOMAIN t : t[n] \in ToSet(t)
  BY DEF ToSet
<1>6. \A n \in DOMAIN t : t[n] \in ToSet(s)
  BY <1>1, <1>3, <1>5
<1> HIDE DEF t
<1>7. {n \in DOMAIN t : t[n] \in X} = {n \in 1 .. N : t[n].direction = direction}
  BY <1>4, <1>6
<1> HIDE DEF X
<1>8. Count(t, X) = Cardinality({p \in S : s[p] \in X})
  BY PickedCount DEF t
<1> QED
  BY <1>2, <1>7, <1>8 DEF Told, Count, t

\* A group has all of the impacts on its company.
Complete(group, s) ==
    /\ IsList(group.impacts)
    /\ \A direction : Told(group.impacts, Len(group.impacts), direction) =
          Cardinality({p \in DOMAIN s : s[p].company.id = group.id /\ s[p].direction = direction})

\* One group for each company among the impacts.
LEMMA GroupsAre ==
    ASSUME NEW s, IsList(s), NEW groups0, groups0 = Grouped(s)
    PROVE  /\ IsList(groups0)
           /\ \A g \in DOMAIN groups0 :
                 Complete(groups0[g], s) /\ \E o \in ToSet(s) : groups0[g].id = o.company.id
           /\ \A g, h \in DOMAIN groups0 : groups0[g].id = groups0[h].id => g = h
<1> DEFINE H == {i \in DOMAIN s : \A j \in 1 .. i - 1 : s[j].company.id # s[i].company.id}
           heads == Picked(s, H)
           mine(g) == {p \in DOMAIN s : s[p].company.id = heads[g].company.id}
           gs == [g \in DOMAIN heads |-> [id |-> heads[g].company.id, impacts |-> Picked(s, mine(g))]]
<1>1. groups0 = gs
  BY DEF Grouped, Where, Places
<1>2. PICK N \in Nat : DOMAIN s = 1 .. N
  BY ListIsSeq
<1>3. H \in SUBSET (1 .. N)
  BY <1>2
<1>4. \A i, j \in H : s[i].company.id = s[j].company.id => i = j
  <2> SUFFICES ASSUME NEW i \in H, NEW j \in H, s[i].company.id = s[j].company.id, i # j PROVE FALSE
    OBVIOUS
  <2>1. i \in 1 .. N /\ j \in 1 .. N
    BY <1>3
  <2>2. i \in 1 .. j - 1 \/ j \in 1 .. i - 1
    BY <2>1
  <2> QED
    BY <2>2
<1> HIDE DEF H
<1>5. PICK C \in Nat :
         /\ DOMAIN heads = 1 .. C
         /\ \A n \in 1 .. C : Nth(H, n) \in H /\ Ordinal(H, Nth(H, n)) = n /\ heads[n] = s[Nth(H, n)]
  <2>1. Cardinality(H) \in Nat /\ DOMAIN heads = 1 .. Cardinality(H)
    BY <1>3, PickedIsList
  <2>2. \A n \in 1 .. Cardinality(H) : Nth(H, n) \in H /\ Ordinal(H, Nth(H, n)) = n /\ heads[n] = s[Nth(H, n)]
    BY <1>3, PickedIsList
  <2> HIDE DEF heads
  <2> QED
    BY <2>1, <2>2
<1> HIDE DEF heads
<1>6. \A g \in 1 .. C : gs[g].id = heads[g].company.id /\ gs[g].impacts = Picked(s, mine(g))
  BY <1>5
<1>7. DOMAIN gs = 1 .. C /\ IsList(gs)
  <2> HIDE DEF mine
  <2>1. DOMAIN gs = 1 .. C /\ gs = [g \in 1 .. C |-> gs[g]]
    BY <1>5
  <2> HIDE DEF gs
  <2> QED
    BY <2>1, FunctionIsList
<1> HIDE DEF gs
<1>8. ASSUME NEW g \in 1 .. C PROVE \E o \in ToSet(s) : gs[g].id = o.company.id
  <2>1. Nth(H, g) \in DOMAIN s /\ gs[g].id = s[Nth(H, g)].company.id
    BY <1>2, <1>3, <1>5, <1>6
  <2>2. s[Nth(H, g)] \in ToSet(s)
    BY <2>1 DEF ToSet
  <2> QED
    BY <2>1, <2>2
<1>9. ASSUME NEW g \in 1 .. C, NEW h \in 1 .. C, gs[g].id = gs[h].id PROVE g = h
  <2>1. PICK i \in H : i = Nth(H, g) /\ Ordinal(H, i) = g /\ heads[g] = s[i]
    BY <1>5
  <2>2. PICK j \in H : j = Nth(H, h) /\ Ordinal(H, j) = h /\ heads[h] = s[j]
    BY <1>5
  <2>3. i = j
    <3>1. gs[g].id = s[i].company.id /\ gs[h].id = s[j].company.id
      BY <1>6, <2>1, <2>2
    <3>2. s[i].company.id = s[j].company.id
      BY <1>9, <3>1
    <3> QED
      BY <1>4, <3>2
  <2> QED
    BY <2>1, <2>2, <2>3
<1>10. ASSUME NEW g \in 1 .. C PROVE Complete(gs[g], s)
  <2>1. PICK S : S = mine(g)
    OBVIOUS
  <2>2. S \in SUBSET DOMAIN s /\ \A p \in DOMAIN s : p \in S <=> s[p].company.id = gs[g].id
    BY <1>6, <2>1
  <2>3. gs[g].impacts = Picked(s, S)
    BY <1>6, <2>1
  <2> HIDE DEF mine
  <2>4. IsList(Picked(s, S))
    BY <2>2, PickedFromList
  <2>5. ASSUME NEW direction
        PROVE  Told(gs[g].impacts, Len(gs[g].impacts), direction) =
                    Cardinality({p \in DOMAIN s : s[p].company.id = gs[g].id /\ s[p].direction = direction})
    <3>1. PICK M : M = Len(Picked(s, S))
      OBVIOUS
    <3>2. Told(Picked(s, S), M, direction) = Cardinality({p \in S : s[p].direction = direction})
      BY <2>2, <3>1, ToldOfPicked
    <3>3. {p \in S : s[p].direction = direction} =
          {p \in DOMAIN s : s[p].company.id = gs[g].id /\ s[p].direction = direction}
      BY <2>2
    <3> QED
      BY <2>3, <3>1, <3>2, <3>3
  <2> QED
    BY <2>3, <2>4, <2>5 DEF Complete
<1> QED
  BY <1>1, <1>7, <1>8, <1>9, <1>10

\* The score of a company is its good news less its bad news.
LEMMA ImpactsAreListed ==
    ASSUME NEW rs, IsList(rs), \A n \in DOMAIN rs : Resolved(rs[n]), NEW s, s = Impacts(rs)
    PROVE  IsList(s) /\ Identified(s, rs)
<1>1. PICK id : id # None
  <2>1. "verified" # None
    BY RulesAssumption
  <2> QED
    BY <2>1
<1> DEFINE Y == {o \in ToSet(s) : o.company.id = id /\ o.direction = "positive"}
<1>2. Picks(Impacts(rs), Y, id, "positive")
  BY DEF Picks
<1>3. "positive" \in {"positive", "negative"}
  OBVIOUS
<1> HIDE DEF Y
<1>4. Tells(Impacts(rs), Y, News(rs, id, "positive")) /\ Identified(Impacts(rs), rs)
  BY <1>1, <1>2, <1>3, ImpactsAre
<1> QED
  BY <1>4 DEF Tells

LEMMA ScoresAre ==
    ASSUME NEW rs, IsList(rs), \A n \in DOMAIN rs : Resolved(rs[n]), NEW gs, gs = Grouped(Impacts(rs)),
           NEW g \in DOMAIN gs
    PROVE  /\ gs[g].id # None
           /\ \E n \in DOMAIN rs : \E c \in DOMAIN rs[n].companies : gs[g].id = rs[n].companies[c].id
           /\ IsFiniteSet(News(rs, gs[g].id, "positive")) /\ IsFiniteSet(News(rs, gs[g].id, "negative"))
           /\ Score(gs[g]) = Cardinality(News(rs, gs[g].id, "positive")) - Cardinality(News(rs, gs[g].id, "negative"))
           /\ Score(gs[g]) \in Int
<1>1. PICK s : s = Impacts(rs)
  OBVIOUS
<1>2. /\ IsList(s)
      /\ \A o \in ToSet(s) :
            o.company.id # None /\ \E n \in DOMAIN rs : \E c \in DOMAIN rs[n].companies : o.company = rs[n].companies[c]
  BY <1>1, ImpactsAreListed DEF Identified
<1>3. PICK group, id : group = gs[g] /\ id = gs[g].id
  OBVIOUS
<1>4. /\ \E o \in ToSet(s) : id = o.company.id
      /\ IsList(group.impacts)
      /\ \A direction : Told(group.impacts, Len(group.impacts), direction) =
            Cardinality({p \in DOMAIN s : s[p].company.id = id /\ s[p].direction = direction})
  <2>1. gs = Grouped(s)
    BY <1>1
  <2>2. Complete(gs[g], s) /\ \E o \in ToSet(s) : gs[g].id = o.company.id
    BY <1>2, <2>1, GroupsAre
  <2> QED
    BY <1>3, <2>2 DEF Complete
<1>5. id # None /\ \E n \in DOMAIN rs : \E c \in DOMAIN rs[n].companies : id = rs[n].companies[c].id
  BY <1>2, <1>4
<1>6. ASSUME NEW direction \in {"positive", "negative"}
      PROVE  /\ IsFiniteSet(News(rs, id, direction))
             /\ Told(group.impacts, Len(group.impacts), direction) = Cardinality(News(rs, id, direction))
  <2> DEFINE Y == {o \in ToSet(s) : o.company.id = id /\ o.direction = direction}
  <2>1. \A o \in ToSet(s) : o \in Y <=> o.company.id = id /\ o.direction = direction
    OBVIOUS
  <2>2. \A p \in DOMAIN s : s[p] \in ToSet(s)
    BY DEF ToSet
  <2>3. {p \in DOMAIN s : s[p] \in Y} = {p \in DOMAIN s : s[p].company.id = id /\ s[p].direction = direction}
    BY <2>1, <2>2
  <2> HIDE DEF Y
  <2>4. Count(s, Y) = Told(group.impacts, Len(group.impacts), direction)
    BY <1>4, <2>3 DEF Count
  <2>5. IsFiniteSet(News(rs, id, direction)) /\ Count(s, Y) = Cardinality(News(rs, id, direction))
    <3>1. Picks(Impacts(rs), Y, id, direction)
      BY <1>1, <2>1 DEF Picks
    <3>2. Tells(Impacts(rs), Y, News(rs, id, direction))
      BY <1>5, <3>1, ImpactsAre
    <3> QED
      BY <1>1, <3>2 DEF Tells
  <2> QED
    BY <2>4, <2>5
<1>7. PICK N : N = Len(group.impacts)
  OBVIOUS
<1>8. /\ Told(group.impacts, N, "positive") \in Nat /\ Told(group.impacts, N, "negative") \in Nat
      /\ Score(group) = Told(group.impacts, N, "positive") - Told(group.impacts, N, "negative")
  BY <1>4, <1>7, ScoreIsNet
<1>9. Score(group) \in Int
  BY <1>8
<1>10. /\ IsFiniteSet(News(rs, id, "positive")) /\ IsFiniteSet(News(rs, id, "negative"))
       /\ Told(group.impacts, N, "positive") = Cardinality(News(rs, id, "positive"))
       /\ Told(group.impacts, N, "negative") = Cardinality(News(rs, id, "negative"))
  BY <1>6, <1>7
<1> QED
  BY <1>3, <1>5, <1>8, <1>9, <1>10

LEMMA SelectedAre ==
    ASSUME NEW advs, IsList(advs), \A i \in DOMAIN advs : advs[i].score \in Int
    PROVE  \E C \in Nat : C <= MaxPicks /\ DOMAIN Selected(advs) = 1 .. C
<1> DEFINE eligible == {i \in DOMAIN advs : Eligible(advs[i].action)}
           key(i) == <<Priority(advs[i].action), -advs[i].score, i>>
           S == {key(i) : i \in eligible}
           f == [i \in eligible |-> key(i)]
           first == Leading(Sorted(S), MaxPicks)
<1>1. Selected(advs) = [n \in DOMAIN first |-> first[n][3]]
  BY DEF Selected
<1>2. PICK N \in Nat : DOMAIN advs = 1 .. N
  BY ListIsSeq
<1>3. ASSUME NEW i \in eligible PROVE key(i) \in Keys(3)
  <2>1. PICK a \in Int, b \in Int, c \in Int : a = Priority(advs[i].action) /\ b = -advs[i].score /\ c = i
    BY <1>2 DEF Priority
  <2>2. <<a, b, c>> \in Keys(3)
    BY DEF Keys
  <2> QED
    BY <2>1, <2>2
<1>4. IsFiniteSet(eligible)
  BY <1>2, PlacesFinite
<1> HIDE DEF key, eligible
<1>5. IsFiniteSet(S)
  <2>1. f \in Surjection(eligible, S)
    BY DEF Surjection
  <2> QED
    BY <1>4, <2>1, FS_Surjection
<1>6. S \in SUBSET Keys(3)
  BY <1>3
<1> HIDE DEF S
<1>7. IsList(Sorted(S))
  BY <1>5, <1>6, SortedIsList
<1>8. PICK C \in Nat : DOMAIN first = 1 .. C /\ C <= MaxPicks
  <2>1. MaxPicks \in Nat
    BY RulesAssumption
  <2>2. StartOf(first, Sorted(S), MaxPicks)
    BY <1>7, <2>1, LeadingIsList
  <2> HIDE DEF first
  <2> QED
    BY <2>2 DEF StartOf
<1> HIDE DEF first
<1> QED
  BY <1>1, <1>8

----------------------------------------------------------------------------
(* The groups of reports.                                                  *)

\* Each event stands for those that a chain of pairs joins to it, and is none ranked
\* behind another of them.
Representing(can, evs, S, pairs) ==
    /\ \A e, f \in S :
          can[e] = can[f] <=>
              \A cut \in SUBSET S : e \in cut /\ f \notin cut =>
                  \E p \in ToSet(pairs) : (p[1] \in cut) # (p[2] \in cut)
    /\ \A e \in S : can[can[e]] = can[e]
    /\ \A e \in S : ~Before(Rank(evs, e), Rank(evs, can[e]))

GroupOf(groupings, e) == CHOOSE c \in groupings : e \in c

LEMMA GroupsAreRepresented ==
    ASSUME NEW evs, NEW S, S = 1 .. Len(evs), Len(evs) \in Nat,
           \A n \in S : evs[n].article \in DOMAIN Articles /\ evs[n].evidence \in Nat,
           NEW pairs, Links(pairs, S),
           NEW can, can = [e \in S |-> can[e]], \A e \in S : can[e] = Canonical(evs, GroupOf(Clusters(S, pairs), e))
    PROVE  can \in [S -> S] /\ Representing(can, evs, S, pairs)
<1> DEFINE groupings == Clusters(S, pairs)
<1>0. PICK N \in Nat : S = 1 .. N
  OBVIOUS
<1> DEFINE Of(e) == Cluster(S, pairs, e)
<1>1. /\ groupings = {Of(e) : e \in S}
      /\ \A e \in S : e \in Of(e) /\ Of(e) \subseteq S
      /\ \A e, f \in S : f \in Of(e) => Of(f) = Of(e)
  BY ClustersAre
<1> HIDE DEF Of, groupings
<1>2. ASSUME NEW e \in S PROVE GroupOf(groupings, e) = Of(e)
  <2>1. Of(e) \in groupings /\ e \in Of(e)
    BY <1>1
  <2>2. \A c \in groupings : e \in c => c = Of(e)
    BY <1>1
  <2> QED
    BY <2>1, <2>2 DEF GroupOf
<1>3. ASSUME NEW e \in S
      PROVE  can[e] \in Of(e) /\ \A j \in Of(e) : ~Before(Rank(evs, j), Rank(evs, can[e]))
  <2>1. PICK c : c = Of(e) /\ c \in SUBSET (1 .. N) /\ c # {}
    BY <1>0, <1>1
  <2>2. can[e] = Canonical(evs, c)
    BY <1>2, <2>1 DEF groupings
  <2>3. \A i \in c : evs[i].article \in DOMAIN Articles /\ evs[i].evidence \in Nat
    BY <1>0, <2>1
  <2>4. Canonical(evs, c) \in c /\ \A j \in c : ~Before(Rank(evs, j), Rank(evs, Canonical(evs, c)))
    BY <2>1, <2>3, CanonicalIsFirst
  <2> QED
    BY <2>1, <2>2, <2>4
<1>4. can \in [S -> S]
  <2>1. \A e \in S : can[e] \in S
    BY <1>1, <1>3
  <2>2. can = [e \in S |-> can[e]]
    OBVIOUS
  <2> QED
    BY <2>1, <2>2
<1>5. \A e \in S : Of(can[e]) = Of(e)
  BY <1>1, <1>3
<1>6. \A e, f \in S : Of(e) = Of(f) => can[e] = can[f]
  <2> SUFFICES ASSUME NEW e \in S, NEW f \in S, Of(e) = Of(f) PROVE can[e] = can[f]
    OBVIOUS
  <2>1. can[e] = Canonical(evs, Of(e)) /\ can[f] = Canonical(evs, Of(f))
    BY <1>2 DEF groupings
  <2> QED
    BY <2>1
<1>7. \A e, f \in S : can[e] = can[f] <=> Of(e) = Of(f)
  BY <1>5, <1>6
<1>8. ASSUME NEW e \in S, NEW f \in S
      PROVE  can[e] = can[f] <=>
                 \A cut \in SUBSET S : e \in cut /\ f \notin cut =>
                     \E p \in ToSet(pairs) : (p[1] \in cut) # (p[2] \in cut)
  <2>1. IsFiniteSet(S)
    BY <1>0, UpTo
  <2>2. IsList(pairs) /\ \A k \in DOMAIN pairs : pairs[k][1] \in S /\ pairs[k][2] \in S
    BY DEF Links
  <2>3. Cluster(S, pairs, e) = Cluster(S, pairs, f) <=> Bound(S, pairs, e, f)
    BY <2>1, <2>2, ClusteredIsJoined
  <2>4. \A cut : ~Uncrossed(cut, pairs) <=> \E p \in ToSet(pairs) : (p[1] \in cut) # (p[2] \in cut)
    <3> SUFFICES ASSUME NEW cut
                 PROVE  ~Uncrossed(cut, pairs) <=> \E p \in ToSet(pairs) : (p[1] \in cut) # (p[2] \in cut)
      OBVIOUS
    <3>1. ~Uncrossed(cut, pairs) <=> \E k \in DOMAIN pairs : (pairs[k][1] \in cut) # (pairs[k][2] \in cut)
      BY DEF Uncrossed
    <3> QED
      BY <3>1 DEF ToSet
  <2> QED
    BY <1>7, <2>3, <2>4 DEF Of, Bound
<1>9. \A e \in S : can[can[e]] = can[e]
  BY <1>4, <1>5, <1>6
<1>10. \A e \in S : ~Before(Rank(evs, e), Rank(evs, can[e]))
  BY <1>1, <1>3
<1> QED
  BY <1>4, <1>8, <1>9, <1>10 DEF Representing

LEMMA NoneIsJoined ==
    ASSUME NEW evs, NEW N \in Nat, NEW S, S = 1 .. N,
           \A n \in S : evs[n].article \in DOMAIN Articles /\ evs[n].evidence \in Nat,
           NEW can, can = [e \in S |-> e]
    PROVE  can \in [S -> S] /\ Representing(can, evs, S, <<>>)
<1>1. ASSUME NEW e \in S, NEW f \in S, e # f
      PROVE  \E cut \in SUBSET S : e \in cut /\ f \notin cut
  <2>1. {e} \in SUBSET S /\ e \in {e} /\ f \notin {e}
    BY <1>1
  <2> QED
    BY <2>1
<1>2. ToSet(<<>>) = {}
  BY DEF ToSet
<1>3. ASSUME NEW e \in S PROVE ~Before(Rank(evs, e), Rank(evs, e))
  <2>1. PICK k \in Keys(5) : k = Rank(evs, e)
    <3>1. e \in Nat /\ evs[e].article \in DOMAIN Articles /\ evs[e].evidence \in Nat
      OBVIOUS
    <3> QED
      BY <3>1, RankIsKey
  <2> QED
    BY <2>1, BeforeOrders
<1> QED
  BY <1>1, <1>2, <1>3 DEF Representing

----------------------------------------------------------------------------
(* The invariant.                                                          *)

Inputs == input \in Extractions /\ IsFiniteSet(directory) /\ stage \in Stages

Represented ==
    /\ canonical \in [DOMAIN events -> DOMAIN events]
    /\ Representing(canonical, events, DOMAIN events, same)

\* The decisions are those on the events of the batches so far, one each.
Decisions ==
    /\ IsList(decisions) /\ \A n \in DOMAIN decisions : Sound(decisions[n])
    /\ stage = "deduplicate" => decisions = <<>>
    /\ \A n \in DOMAIN decisions :
          \E k \in DOMAIN Kept : (stage = "screen" => k <= handled) /\ decisions[n].event = Kept[k]
    /\ \A m, n \in DOMAIN decisions : decisions[m].event = decisions[n].event => m = n

Progress ==
    /\ handled \in Nat /\ handled <= Len(events)
    /\ stage = "screen" => handled <= Len(Kept)
    /\ stage = "cross_validate" => handled <= Len(Targets)

Validations == \A e \in DOMAIN validations : e \in DOMAIN events /\ Founded(validations[e], RelatedTo(e))

\* What the last stages have made of it.
Resolutions ==
    [n \in DOMAIN decisions |->
           LET e == decisions[n].event
               validation == IF e \in DOMAIN validations THEN validations[e].status ELSE None
           IN  [event |-> e, facts |-> events[e].facts, validation |-> validation,
                companies |-> [c \in DOMAIN events[e].companies |-> Resolution(directory, events[e].companies[c])],
                decision |-> Resolve(decisions[n].decision, validation)]]

Advised ==
    [g \in DOMAIN groups |->
        [id |-> groups[g].id, score |-> Score(groups[g]), action |-> ActionOf(Score(groups[g]))]]

Chosen ==
    [i \in DOMAIN advice |->
        [status |-> CandidateStatus(advice, i),
         rank |-> IF i \in ToSet(Selected(advice))
                  THEN CHOOSE n \in DOMAIN Selected(advice) : Selected(advice)[n] = i ELSE 0]]

Conclusions ==
    /\ stage \in {"analyze", "aggregate", "score", "select_candidates", "done"} => resolved = Resolutions
    /\ stage \in {"aggregate", "score", "select_candidates", "done"} => impacts = Impacts(resolved)
    /\ stage \in {"score", "select_candidates", "done"} => groups = Grouped(impacts)
    /\ advice = IF stage \in {"select_candidates", "done"} THEN Advised ELSE <<>>
    /\ selection = IF stage = "done" THEN Chosen ELSE <<>>

IInv == Inputs /\ Represented /\ Decisions /\ Progress /\ Validations /\ Conclusions

----------------------------------------------------------------------------
(* What is left of the events.                                             *)

LEMMA EventsAre ==
    ASSUME input \in Extractions
    PROVE  /\ IsFiniteSet(input.articles) /\ input.articles \subseteq DOMAIN Articles
           /\ \E N \in Nat : IsList(events) /\ Len(events) = N /\ DOMAIN events = 1 .. N
           /\ \A n \in DOMAIN events :
                 /\ events[n].article \in input.articles /\ events[n].article \in DOMAIN Articles
                 /\ events[n].evidence \in Nat
                 /\ IsList(events[n].companies) /\ IsList(events[n].facts)
<1>1. PICK x \in Extractions : x = input
  OBVIOUS
<1>2. /\ IsFiniteSet(x.articles) /\ x.articles \subseteq DOMAIN Articles
      /\ \E N \in Nat : IsList(x.events) /\ Len(x.events) = N /\ DOMAIN x.events = 1 .. N
      /\ \A n \in DOMAIN x.events :
            /\ x.events[n].article \in x.articles /\ x.events[n].article \in DOMAIN Articles
            /\ x.events[n].evidence \in Nat
            /\ IsList(x.events[n].companies) /\ IsList(x.events[n].facts)
  BY ExtractionIs
<1> QED
  BY <1>1, <1>2 DEF events

LEMMA KeptAre ==
    ASSUME input \in Extractions, canonical \in [DOMAIN events -> DOMAIN events]
    PROVE  \E C \in Nat :
              /\ IsList(Kept) /\ Len(Kept) = C /\ DOMAIN Kept = 1 .. C /\ C <= Len(events)
              /\ \A k \in 1 .. C : Kept[k] \in DOMAIN events /\ \E e \in DOMAIN events : Kept[k] = canonical[e]
              /\ \A k, l \in 1 .. C : Kept[k] = Kept[l] => k = l
<1>1. PICK N \in Nat : Len(events) = N /\ DOMAIN events = 1 .. N
  BY EventsAre
<1> DEFINE S == {canonical[e] : e \in DOMAIN events}
<1>2. S \in SUBSET (1 .. N)
  BY <1>1
<1>3. Kept = Ascending(S)
  BY DEF Kept
<1>4. \A x \in S : x \in DOMAIN events /\ \E e \in DOMAIN events : x = canonical[e]
  OBVIOUS
<1> HIDE DEF S
<1>5. PICK C \in Nat :
         /\ C <= N /\ IsList(Ascending(S)) /\ Len(Ascending(S)) = C /\ DOMAIN Ascending(S) = 1 .. C
         /\ \A n \in 1 .. C : Ascending(S)[n] \in S
         /\ \A m, n \in 1 .. C : Ascending(S)[m] = Ascending(S)[n] => m = n
  <2>1. InOrder(Ascending(S), S, N)
    BY <1>2, AscendingIsList
  <2> QED
    BY <2>1 DEF InOrder
<1>6. \A k \in 1 .. C : Kept[k] \in DOMAIN events /\ \E e \in DOMAIN events : Kept[k] = canonical[e]
  BY <1>3, <1>4, <1>5
<1> QED
  BY <1>1, <1>3, <1>5, <1>6

\* The part of a list with one element for each event has one element for each event.
LEMMA PickedOnce ==
    ASSUME NEW s, IsList(s), \A m, n \in DOMAIN s : s[m].event = s[n].event => m = n,
           NEW S \in SUBSET DOMAIN s, NEW t, t = Picked(s, S)
    PROVE  /\ IsList(t) /\ Len(t) <= Len(s) /\ \A n \in DOMAIN t : \E m \in DOMAIN s : m \in S /\ t[n] = s[m]
           /\ \A m, n \in DOMAIN t : t[m].event = t[n].event => m = n
<1>1. PICK N \in Nat : DOMAIN s = 1 .. N /\ Len(s) = N
  BY ListIsSeq
<1>2. S \in SUBSET (1 .. N)
  BY <1>1
<1>3. PICK C \in Nat : C = Cardinality(S) /\ C <= N
  BY <1>2, PlacesFinite
<1>4. IsList(t) /\ Len(t) = C /\ DOMAIN t = 1 .. C
  <2>1. IsList(Picked(s, S)) /\ Len(Picked(s, S)) = Cardinality(S)
    BY <1>2, PickedIsList
  <2>2. DOMAIN Picked(s, S) = 1 .. Cardinality(S)
    BY <1>2, PickedIsList
  <2> QED
    BY <1>3, <2>1, <2>2
<1>5. \A n \in 1 .. C : Nth(S, n) \in S /\ Ordinal(S, Nth(S, n)) = n /\ t[n] = s[Nth(S, n)]
  <2>1. \A n \in 1 .. Cardinality(S) :
           Nth(S, n) \in S /\ Ordinal(S, Nth(S, n)) = n /\ Picked(s, S)[n] = s[Nth(S, n)]
    BY <1>2, PickedIsList
  <2> QED
    BY <1>3, <2>1
<1>6. ASSUME NEW m \in 1 .. C, NEW n \in 1 .. C, t[m].event = t[n].event PROVE m = n
  <2>1. PICK i \in S : i = Nth(S, m) /\ Ordinal(S, i) = m /\ t[m] = s[i]
    BY <1>5
  <2>2. PICK j \in S : j = Nth(S, n) /\ Ordinal(S, j) = n /\ t[n] = s[j]
    BY <1>5
  <2>3. i = j
    BY <1>6, <2>1, <2>2
  <2> QED
    BY <2>1, <2>2, <2>3
<1>7. \A n \in 1 .. C : \E m \in DOMAIN s : m \in S /\ t[n] = s[m]
  BY <1>5
<1> QED
  BY <1>1, <1>3, <1>4, <1>6, <1>7

LEMMA TargetsAre ==
    ASSUME IsList(decisions), \A m, n \in DOMAIN decisions : decisions[m].event = decisions[n].event => m = n
    PROVE  /\ IsList(Reviewed) /\ IsList(Targets) /\ Len(Targets) <= Len(decisions)
           /\ \A n \in DOMAIN Reviewed : \E m \in DOMAIN decisions : Reviewed[n] = decisions[m]
           /\ \A n \in DOMAIN Targets : \E m \in DOMAIN decisions : Targets[n] = decisions[m]
           /\ \A m, n \in DOMAIN Targets : Targets[m].event = Targets[n].event => m = n
<1> DEFINE A == {n \in DOMAIN decisions : decisions[n].decision = "review"}
           B == {n \in DOMAIN Reviewed : RelatedTo(Reviewed[n].event) # <<>>}
<1>1. Reviewed = Picked(decisions, A) /\ A \in SUBSET DOMAIN decisions
  BY DEF Reviewed, Where, Places
<1>2. Targets = Picked(Reviewed, B) /\ B \in SUBSET DOMAIN Reviewed
  BY DEF Targets, Where, Places
<1> HIDE DEF A, B
<1>3. PICK d, r, t : d = decisions /\ r = Reviewed /\ t = Targets
  OBVIOUS
<1>4. /\ IsList(r) /\ Len(r) <= Len(d) /\ \A n \in DOMAIN r : \E m \in DOMAIN d : m \in A /\ r[n] = d[m]
      /\ \A m, n \in DOMAIN r : r[m].event = r[n].event => m = n
  BY <1>1, <1>3, PickedOnce
<1>5. /\ IsList(t) /\ Len(t) <= Len(r) /\ \A n \in DOMAIN t : \E m \in DOMAIN r : m \in B /\ t[n] = r[m]
      /\ \A m, n \in DOMAIN t : t[m].event = t[n].event => m = n
  BY <1>2, <1>3, <1>4, PickedOnce
<1>6. Len(t) <= Len(d)
  <2>1. Len(t) \in Nat /\ Len(r) \in Nat /\ Len(d) \in Nat
    BY <1>3, <1>4, <1>5, ListIsSeq
  <2> QED
    BY <1>4, <1>5, <2>1
<1>7. \A n \in DOMAIN t : \E m \in DOMAIN d : t[n] = d[m]
  BY <1>4, <1>5
<1> QED
  BY <1>3, <1>4, <1>5, <1>6, <1>7

\* The elements of the next batch.
LEMMA BatchIs ==
    ASSUME NEW s, IsList(s), handled \in Nat, handled <= Len(s), NEW size \in Nat, NEW t, t = BatchAt(s, size)
    PROVE  /\ IsList(t) /\ handled + Len(t) <= Len(s)
           /\ \A k \in DOMAIN t : k \in 1 .. Len(t) /\ handled + k \in DOMAIN s /\ t[k] = s[handled + k]
<1>1. PICK L \in Nat : L = Len(s) /\ DOMAIN s = 1 .. L
  BY ListIsSeq
<1>2. PICK h \in Nat : h = handled
  OBVIOUS
<1>3. PICK m \in Nat : m = (IF h + size < L THEN h + size ELSE L) - h
  BY <1>1, <1>2
<1>4. h + m <= L /\ h + m = IF h + size < L THEN h + size ELSE L
  BY <1>1, <1>2, <1>3
<1>5. t = SubSeq(s, h + 1, h + m)
  BY <1>1, <1>2, <1>4 DEF BatchAt
<1>6. Piece(SubSeq(s, h + 1, h + m), m, s, h)
  BY <1>1, <1>4, Cut
<1>7. IsList(t) /\ Len(t) = m /\ DOMAIN t = 1 .. m /\ \A i \in 1 .. m : t[i] = s[h + i]
  BY <1>5, <1>6 DEF Piece
<1>8. \A k \in 1 .. m : h + k \in DOMAIN s
  BY <1>1, <1>4
<1> QED
  BY <1>1, <1>2, <1>4, <1>7, <1>8

----------------------------------------------------------------------------
(* Every step keeps the invariant.                                         *)

LEMMA InitHolds == Init => IInv
<1> SUFFICES ASSUME Init PROVE IInv
  OBVIOUS
<1>1. input \in Extractions /\ stage = "deduplicate" /\ handled = 0
  BY DEF Init
<1>2. PICK N \in Nat : Len(events) = N /\ DOMAIN events = 1 .. N
  BY <1>1, EventsAre
<1>3. Inputs
  <2>1. directory \in Configured /\ directory # None
    BY DEF Init
  <2>2. IsFiniteSet(directory)
    BY <2>1, ConfiguredIsFinite
  <2> QED
    BY <1>1, <2>2 DEF Inputs, Stages
<1>4. Represented
  <2>1. \A n \in DOMAIN events : events[n].article \in DOMAIN Articles /\ events[n].evidence \in Nat
    BY <1>1, EventsAre
  <2>2. PICK evs, S, can : evs = events /\ S = DOMAIN events /\ can = canonical
    OBVIOUS
  <2>3. can = [e \in S |-> e] /\ same = <<>>
    BY <2>2 DEF Init, events
  <2>4. can \in [S -> S] /\ Representing(can, evs, S, <<>>)
    BY <1>2, <2>1, <2>2, <2>3, NoneIsJoined
  <2> QED
    BY <2>2, <2>3, <2>4 DEF Represented
<1>5. Decisions
  BY EmptyIsList DEF Init, Decisions
<1>6. Progress
  BY <1>1, <1>2 DEF Progress
<1>7. Validations
  BY EmptyIsList DEF Init, Validations
<1>8. Conclusions
  BY DEF Init, Conclusions
<1> QED
  BY <1>3, <1>4, <1>5, <1>6, <1>7, <1>8 DEF IInv

LEMMA InputsKept == IInv /\ [Next]_vars => Inputs'
<1> SUFFICES ASSUME IInv, [Next]_vars PROVE Inputs'
  OBVIOUS
<1>1. input' = input /\ directory' = directory
  BY DEF Next, vars, Deduplicate, Assess, Screened, CrossValidate, Validated, CallFails, ResolveEvents, Analyze,
         Aggregate, Recommend, SelectCandidates
<1>2. stage' \in Stages
  BY DEF IInv, Inputs, Stages, Next, vars, Deduplicate, Assess, Screened, CrossValidate, Validated, CallFails,
         ResolveEvents, Analyze, Aggregate, Recommend, SelectCandidates
<1> QED
  BY <1>1, <1>2 DEF IInv, Inputs

LEMMA DeduplicateRepresents == IInv /\ Deduplicate => Represented'
<1> SUFFICES ASSUME IInv, Deduplicate PROVE Represented'
  OBVIOUS
<1>1. input \in Extractions /\ input' = input
  BY DEF IInv, Inputs, Deduplicate
<1>2. PICK N \in Nat : Len(events) = N /\ DOMAIN events = 1 .. N
  BY <1>1, EventsAre
<1>3. \A n \in DOMAIN events : events[n].article \in DOMAIN Articles /\ events[n].evidence \in Nat
  BY <1>1, EventsAre
<1>4. PICK evs, S : evs = events /\ S = DOMAIN events
  OBVIOUS
<1>5. PICK items : IsList(items) /\ same' = Merged(items, CandidatePairs(events))
  BY EmptyIsList, AnswersAssumption DEF Deduplicate
<1>6. Links(CandidatePairs(evs), S)
  BY <1>2, <1>4, CandidatesAreLinks
<1>7. PICK pairs : pairs = same' /\ Links(pairs, S)
  BY <1>4, <1>5, <1>6, MergedAreLinks
<1>8. PICK can : can = canonical'
  OBVIOUS
<1>9. can = [e \in S |-> can[e]] /\ \A e \in S : can[e] = Canonical(evs, GroupOf(Clusters(S, pairs), e))
  <2>1. can = [e \in S |-> Canonical(evs, GroupOf(Clusters(S, pairs), e))]
    BY <1>4, <1>7, <1>8 DEF Deduplicate, GroupOf
  <2> QED
    BY <2>1
<1>10. can \in [S -> S] /\ Representing(can, evs, S, pairs)
  <2>1. S = 1 .. Len(evs) /\ Len(evs) \in Nat
    BY <1>2, <1>4
  <2>2. \A n \in S : evs[n].article \in DOMAIN Articles /\ evs[n].evidence \in Nat
    BY <1>3, <1>4
  <2> QED
    BY <1>7, <1>9, <2>1, <2>2, GroupsAreRepresented
<1>11. events' = events
  BY <1>1 DEF events
<1> QED
  BY <1>4, <1>7, <1>8, <1>10, <1>11 DEF Represented

LEMMA RepresentedKept == IInv /\ [Next]_vars => Represented'
<1> SUFFICES ASSUME IInv, [Next]_vars PROVE Represented'
  OBVIOUS
<1>1. CASE Deduplicate
  BY <1>1, DeduplicateRepresents
<1>2. CASE UNCHANGED <<input, canonical, same>>
  <2>1. events' = events
    BY <1>2 DEF events
  <2> QED
    BY <1>2, <2>1 DEF IInv, Represented
<1> QED
  BY <1>1, <1>2
     DEF Next, vars, Assess, Screened, CrossValidate, Validated, CallFails, ResolveEvents, Analyze, Aggregate, Recommend,
         SelectCandidates

\* There is one decision at most for each event.
LEMMA DecisionsAreFew ==
    ASSUME IInv
    PROVE  Len(decisions) <= Len(events) /\ \A n \in DOMAIN decisions : decisions[n].event \in DOMAIN events
<1>1. PICK N \in Nat : Len(events) = N /\ DOMAIN events = 1 .. N
  BY EventsAre DEF IInv, Inputs
<1>2. PICK C \in Nat : DOMAIN Kept = 1 .. C /\ \A k \in 1 .. C : Kept[k] \in DOMAIN events
  BY KeptAre DEF IInv, Inputs, Represented
<1>3. PICK L \in Nat : L = Len(decisions) /\ DOMAIN decisions = 1 .. L
  BY ListIsSeq DEF IInv, Decisions
<1> DEFINE f == [n \in 1 .. L |-> decisions[n].event]
<1>4. \A n \in 1 .. L : decisions[n].event \in 1 .. N
  BY <1>1, <1>2, <1>3 DEF IInv, Decisions
<1>5. \A m, n \in 1 .. L : decisions[m].event = decisions[n].event => m = n
  BY <1>3 DEF IInv, Decisions
<1>6. f \in Injection(1 .. L, 1 .. N)
  BY <1>4, <1>5 DEF Injection, IsInjective
<1> HIDE DEF f
<1>7. IsFiniteSet(1 .. N) /\ Cardinality(1 .. N) = N /\ Cardinality(1 .. L) = L
  BY UpTo
<1>8. L <= N
  BY <1>6, <1>7, FS_Injection
<1> QED
  BY <1>1, <1>3, <1>4, <1>8

\* What is computed of variables that stay is the same.
LEMMA KeptStays ==
    ASSUME UNCHANGED <<input, canonical>>
    PROVE  events' = events /\ Kept' = Kept
BY DEF events, Kept

LEMMA TargetsStay ==
    ASSUME UNCHANGED <<input, decisions>>
    PROVE  events' = events /\ Targets' = Targets /\ \A e : RelatedTo(e)' = RelatedTo(e)
BY DEF events, Targets, Reviewed, RelatedTo, Where, Places

\* d are decisions on elements of K above low and up to high, on each once at most.
DecidesUpTo(d, K, low, high) ==
    /\ IsList(d)
    /\ \A n \in DOMAIN d : Sound(d[n]) /\ \E k \in DOMAIN K : k > low /\ k <= high /\ d[n].event = K[k]
    /\ \A i, n \in DOMAIN d : d[i].event = d[n].event => i = n

\* The decisions on one batch after those on the earlier ones.
LEMMA DecisionsGrow ==
    ASSUME NEW d, NEW new, NEW K, DOMAIN K \subseteq Nat, \A k, l \in DOMAIN K : K[k] = K[l] => k = l,
           NEW h \in Nat, NEW g \in Nat, h <= g, DecidesUpTo(d, K, 0, h), DecidesUpTo(new, K, h, g)
    PROVE  DecidesUpTo(d \o new, K, 0, g)
<1> DEFINE all == d \o new
<1>0. IsList(d) /\ IsList(new)
  BY DEF DecidesUpTo
<1>1. PICK l \in Nat : l = Len(d) /\ DOMAIN d = 1 .. l
  BY <1>0, ListIsSeq
<1>2. PICK c \in Nat : c = Len(new) /\ DOMAIN new = 1 .. c
  BY <1>0, ListIsSeq
<1>3. /\ IsList(all) /\ DOMAIN all = 1 .. l + c
      /\ \A n \in 1 .. l : all[n] = d[n]
      /\ \A n \in 1 .. c : all[l + n] = new[n]
  <2>1. /\ IsList(d \o new) /\ DOMAIN (d \o new) = 1 .. Len(d) + Len(new)
        /\ \A n \in 1 .. Len(d) : (d \o new)[n] = d[n]
        /\ \A n \in 1 .. Len(new) : (d \o new)[Len(d) + n] = new[n]
    BY <1>0, Concatenated
  <2> QED
    BY <1>1, <1>2, <2>1
<1> HIDE DEF all
<1>4. \A n \in 1 .. l + c : n \in 1 .. l \/ \E i \in 1 .. c : n = l + i
  <2>1. \A n \in 1 .. l + c : n \notin 1 .. l => n - l \in 1 .. c /\ n = l + (n - l)
    OBVIOUS
  <2> QED
    BY <2>1
<1>5. ASSUME NEW n \in 1 .. l
      PROVE  Sound(all[n]) /\ \E k \in DOMAIN K : k > 0 /\ k <= h /\ all[n].event = K[k]
  <2>1. Sound(d[n]) /\ \E k \in DOMAIN K : k > 0 /\ k <= h /\ d[n].event = K[k]
    BY <1>1 DEF DecidesUpTo
  <2> QED
    BY <1>3, <2>1
<1>6. ASSUME NEW n \in 1 .. c
      PROVE  Sound(all[l + n]) /\ \E k \in DOMAIN K : k > h /\ k <= g /\ all[l + n].event = K[k]
  <2>1. Sound(new[n]) /\ \E k \in DOMAIN K : k > h /\ k <= g /\ new[n].event = K[k]
    BY <1>2 DEF DecidesUpTo
  <2> QED
    BY <1>3, <2>1
<1>7. \A k \in DOMAIN K : (k <= h => k <= g) /\ (k > h => k > 0)
  OBVIOUS
<1>8. \A n \in DOMAIN all : Sound(all[n]) /\ \E k \in DOMAIN K : k > 0 /\ k <= g /\ all[n].event = K[k]
  <2> SUFFICES ASSUME NEW n \in DOMAIN all
               PROVE  Sound(all[n]) /\ \E k \in DOMAIN K : k > 0 /\ k <= g /\ all[n].event = K[k]
    OBVIOUS
  <2>1. CASE n \in 1 .. l
    <3>1. PICK k \in DOMAIN K : k > 0 /\ k <= h /\ all[n].event = K[k]
      BY <1>5, <2>1
    <3> QED
      BY <1>5, <1>7, <2>1, <3>1
  <2>2. CASE \E i \in 1 .. c : n = l + i
    <3>1. PICK i \in 1 .. c : n = l + i
      BY <2>2
    <3>2. PICK k \in DOMAIN K : k > h /\ k <= g /\ all[n].event = K[k]
      BY <1>6, <3>1
    <3> QED
      BY <1>6, <1>7, <3>1, <3>2
  <2> QED
    BY <1>3, <1>4, <2>1, <2>2
<1>9. ASSUME NEW a \in 1 .. l, NEW b \in 1 .. l, all[a].event = all[b].event PROVE a = b
  <2>1. d[a].event = d[b].event
    BY <1>3, <1>9
  <2> QED
    BY <1>1, <2>1 DEF DecidesUpTo
<1>10. ASSUME NEW a \in 1 .. c, NEW b \in 1 .. c, all[l + a].event = all[l + b].event PROVE a = b
  <2>1. new[a].event = new[b].event
    BY <1>3, <1>10
  <2> QED
    BY <1>2, <2>1 DEF DecidesUpTo
<1>11. ASSUME NEW a \in 1 .. l, NEW b \in 1 .. c, all[a].event = all[l + b].event PROVE FALSE
  <2>1. PICK k \in DOMAIN K : k <= h /\ all[a].event = K[k]
    BY <1>5
  <2>2. PICK j \in DOMAIN K : j > h /\ all[l + b].event = K[j]
    BY <1>6
  <2>3. k = j
    BY <1>11, <2>1, <2>2
  <2>4. k \in Nat /\ j \in Nat
    OBVIOUS
  <2> QED
    BY <2>1, <2>2, <2>3, <2>4
<1>12. ASSUME NEW i \in DOMAIN all, NEW n \in DOMAIN all, all[i].event = all[n].event
       PROVE  i = n
  <2>1. i \in 1 .. l \/ \E a \in 1 .. c : i = l + a
    BY <1>3, <1>4
  <2>2. n \in 1 .. l \/ \E a \in 1 .. c : n = l + a
    BY <1>3, <1>4
  <2>3. CASE i \in 1 .. l
    <3>1. CASE n \in 1 .. l
      BY <1>9, <1>12, <2>3, <3>1
    <3>2. CASE \E a \in 1 .. c : n = l + a
      <4>1. PICK a \in 1 .. c : n = l + a
        BY <3>2
      <4> QED
        BY <1>11, <1>12, <2>3, <4>1
    <3> QED
      BY <2>2, <3>1, <3>2
  <2>4. CASE \E a \in 1 .. c : i = l + a
    <3>1. PICK a \in 1 .. c : i = l + a
      BY <2>4
    <3>2. CASE n \in 1 .. l
      BY <1>11, <1>12, <3>1, <3>2
    <3>3. CASE \E b \in 1 .. c : n = l + b
      <4>1. PICK b \in 1 .. c : n = l + b
        BY <3>3
      <4>2. a = b
        BY <1>10, <1>12, <3>1, <4>1
      <4> QED
        BY <3>1, <4>1, <4>2
    <3> QED
      BY <2>2, <3>2, <3>3
  <2> QED
    BY <2>1, <2>3, <2>4
<1> QED
  BY <1>3, <1>8, <1>12 DEF all, DecidesUpTo

\* A batch is what follows the first h elements of K.
LEMMA DecidedOfNext ==
    ASSUME NEW batch, NEW new, Decides(new, batch), \A k, l \in DOMAIN batch : batch[k] = batch[l] => k = l,
           NEW K, NEW h \in Nat, NEW g \in Nat,
           \A k \in DOMAIN batch : k \in Nat /\ k > 0 /\ h + k <= g /\ h + k \in DOMAIN K /\ batch[k] = K[h + k]
    PROVE  DecidesUpTo(new, K, h, g)
<1>1. ASSUME NEW n \in DOMAIN new
      PROVE  \E k \in DOMAIN K : k > h /\ k <= g /\ new[n].event = K[k]
  <2>1. PICK j \in DOMAIN batch : new[n].event = batch[j]
    BY DEF Decides
  <2>2. h + j > h /\ h + j <= g /\ h + j \in DOMAIN K /\ new[n].event = K[h + j]
    BY <2>1
  <2> QED
    BY <2>2
<1> QED
  BY <1>1 DEF Decides, DecidesUpTo

LEMMA AssessDecides == IInv /\ Assess => Decisions' /\ Progress'
<1> SUFFICES ASSUME IInv, Assess PROVE Decisions' /\ Progress'
  OBVIOUS
<1>1. /\ stage = "screen" /\ stage' = "screen" /\ handled \in Nat /\ handled < Len(Kept)
      /\ UNCHANGED <<input, canonical>>
  BY DEF IInv, Progress, Assess
<1>2. events' = events /\ Kept' = Kept
  BY <1>1, KeptStays
<1>3. PICK K, batch : K = Kept /\ batch = BatchAt(K, ScreenBatch)
  OBVIOUS
<1>4. PICK C \in Nat :
         /\ IsList(K) /\ Len(K) = C /\ DOMAIN K = 1 .. C /\ C <= Len(events)
         /\ \A k, l \in 1 .. C : K[k] = K[l] => k = l
  BY <1>3, KeptAre DEF IInv, Inputs, Represented
<1>5. /\ IsList(batch) /\ handled + Len(batch) <= C
      /\ \A k \in DOMAIN batch : k \in 1 .. Len(batch) /\ handled + k \in DOMAIN K /\ batch[k] = K[handled + k]
  BY <1>1, <1>3, <1>4, BatchIs, DecisionsAssumption
<1>6. PICK m \in Nat : m = Len(batch) /\ DOMAIN batch = 1 .. m
  BY <1>5, ListIsSeq
<1>7. handled' = handled + m
  BY <1>3, <1>6 DEF Assess
<1>8. Progress'
  <2>1. handled' \in Nat /\ handled' <= C
    BY <1>1, <1>5, <1>6, <1>7
  <2>2. Len(events) \in Nat
    BY EventsAre DEF IInv, Inputs
  <2>3. handled' <= Len(events) /\ handled' <= Len(Kept)
    BY <1>3, <1>4, <2>1, <2>2
  <2> QED
    BY <1>1, <1>2, <2>1, <2>3 DEF Progress
<1>9. PICK h \in Nat : h = handled
  BY <1>1
<1>10. PICK d, all : d = decisions /\ all = decisions'
  OBVIOUS
<1>11. PICK items \in Assessments : all = IF items = None THEN d ELSE d \o Decided(items, batch)
  BY <1>3, <1>9, <1>10 DEF Assess
<1>12. PICK g \in Nat : g = h + m
  BY <1>6, <1>9
<1>13. DOMAIN K \subseteq Nat /\ (\A k \in DOMAIN K : k > 0) /\ \A k, l \in DOMAIN K : K[k] = K[l] => k = l
  BY <1>4
<1>14. DecidesUpTo(d, K, 0, h)
  <2>1. /\ IsList(d) /\ \A n \in DOMAIN d : Sound(d[n]) /\ \E k \in DOMAIN K : k <= h /\ d[n].event = K[k]
        /\ \A i, n \in DOMAIN d : d[i].event = d[n].event => i = n
    BY <1>1, <1>3, <1>9, <1>10 DEF IInv, Decisions
  <2> QED
    BY <1>13, <2>1 DEF DecidesUpTo
<1>15. DecidesUpTo(all, K, 0, g)
  <2>1. CASE items = None
    <3>1. all = d
      BY <1>11, <2>1
    <3>2. \A k \in DOMAIN K : k <= h => k <= g
      BY <1>12, <1>13
    <3> QED
      BY <1>14, <3>1, <3>2 DEF DecidesUpTo
  <2>2. CASE items # None
    <3>1. PICK new : new = Decided(items, batch)
      OBVIOUS
    <3>2. all = d \o new
      BY <1>11, <2>2, <3>1
    <3>3. items \in Assessments \ {None}
      BY <1>11, <2>2
    <3>4. \A k \in DOMAIN batch : k \in Nat /\ k > 0 /\ h + k <= g /\ h + k \in DOMAIN K /\ batch[k] = K[h + k]
      <4>1. \A k \in 1 .. m : k \in Nat /\ k > 0 /\ h + k <= g
        BY <1>12
      <4> QED
        BY <1>5, <1>6, <1>9, <4>1
    <3>5. ASSUME NEW k \in DOMAIN batch, NEW l \in DOMAIN batch, batch[k] = batch[l] PROVE k = l
      <4>1. h + k \in DOMAIN K /\ h + l \in DOMAIN K /\ K[h + k] = K[h + l] /\ k \in Nat /\ l \in Nat
        BY <3>4, <3>5
      <4>2. h + k = h + l
        BY <1>13, <4>1
      <4> QED
        BY <4>1, <4>2
    <3>6. Decides(new, batch)
      BY <1>5, <3>1, <3>3, DecidedAre
    <3>7. DecidesUpTo(new, K, h, g)
      BY <3>4, <3>5, <3>6, DecidedOfNext
    <3>8. h <= g
      BY <1>12
    <3> QED
      BY <1>13, <1>14, <3>2, <3>7, <3>8, DecisionsGrow
  <2> QED
    BY <2>1, <2>2
<1>16. g = handled'
  BY <1>7, <1>9, <1>12
<1>17. Decisions'
  BY <1>1, <1>2, <1>3, <1>9, <1>10, <1>15, <1>16 DEF Decisions, DecidesUpTo
<1> QED
  BY <1>8, <1>17

LEMMA DecisionsKept == IInv /\ [Next]_vars => Decisions'
<1> SUFFICES ASSUME IInv, [Next]_vars PROVE Decisions'
  OBVIOUS
<1>1. CASE Deduplicate
  <2>1. decisions' = <<>>
    BY <1>1 DEF IInv, Decisions, Deduplicate
  <2> QED
    BY <2>1, EmptyIsList DEF Decisions
<1>2. CASE Assess
  BY <1>2, AssessDecides
<1>3. CASE /\ UNCHANGED <<input, canonical, decisions>> /\ (stage' = "deduplicate" => stage = "deduplicate")
           /\ (stage' = "screen" => stage = "screen" /\ handled' = handled)
  <2>1. Kept' = Kept
    BY <1>3, KeptStays
  <2> QED
    BY <1>3, <2>1 DEF IInv, Decisions
<1> QED
  BY <1>1, <1>2, <1>3
     DEF Next, vars, Screened, CrossValidate, Validated, CallFails, ResolveEvents, Analyze, Aggregate, Recommend,
         SelectCandidates

LEMMA ProgressKept == IInv /\ [Next]_vars => Progress'
<1> SUFFICES ASSUME IInv, [Next]_vars PROVE Progress'
  OBVIOUS
<1>1. Len(events) \in Nat
  BY EventsAre DEF IInv, Inputs
<1>2. CASE Deduplicate
  <2>1. handled' = 0 /\ events' = events /\ stage' = "screen"
    BY <1>2 DEF Deduplicate, events
  <2>2. Len(Kept') \in Nat
    <3>1. PICK can, S : can = canonical' /\ S = DOMAIN events
      OBVIOUS
    <3>2. can \in [S -> S]
      BY <1>2, <2>1, <3>1, DeduplicateRepresents DEF Represented
    <3>3. PICK N \in Nat : S = 1 .. N
      BY <3>1, EventsAre DEF IInv, Inputs
    <3> DEFINE T == {can[e] : e \in S}
    <3>4. T \in SUBSET (1 .. N)
      BY <3>2, <3>3
    <3>5. Kept' = Ascending(T)
      BY <2>1, <3>1 DEF Kept
    <3> HIDE DEF T
    <3>6. InOrder(Ascending(T), T, N)
      BY <3>4, AscendingIsList
    <3> QED
      BY <3>5, <3>6 DEF InOrder
  <2> QED
    BY <1>1, <2>1, <2>2 DEF Progress
<1>3. CASE Assess
  BY <1>3, AssessDecides
<1>4. CASE Screened
  <2>1. handled' = 0 /\ stage' # "screen" /\ UNCHANGED <<input, decisions>>
    BY <1>4 DEF Screened
  <2>2. events' = events /\ Targets' = Targets
    BY <2>1, TargetsStay
  <2>3. Len(Targets) \in Nat
    BY TargetsAre, ListIsSeq DEF IInv, Decisions
  <2> QED
    BY <1>1, <2>1, <2>2, <2>3 DEF Progress
<1>5. CASE CrossValidate
  <2>1. /\ stage = "cross_validate" /\ handled \in Nat /\ handled <= Len(Targets)
        /\ UNCHANGED <<stage, input, decisions>> /\ handled' = handled + Len(BatchAt(Targets, ReviewBatch))
    BY <1>5 DEF IInv, Progress, CrossValidate
  <2>2. events' = events /\ Targets' = Targets
    BY <2>1, TargetsStay
  <2>3. PICK t, batch : t = Targets /\ batch = BatchAt(t, ReviewBatch)
    OBVIOUS
  <2>4. IsList(t) /\ Len(t) <= Len(decisions)
    BY <2>3, TargetsAre DEF IInv, Decisions
  <2>5. IsList(batch) /\ handled + Len(batch) <= Len(t)
    BY <2>1, <2>3, <2>4, BatchIs, DecisionsAssumption
  <2>6. Len(batch) \in Nat /\ Len(t) \in Nat /\ Len(decisions) \in Nat
    BY <2>4, <2>5, ListIsSeq DEF IInv, Decisions
  <2>7. Len(decisions) <= Len(events)
    BY DecisionsAreFew
  <2> QED
    BY <1>1, <2>1, <2>2, <2>3, <2>4, <2>5, <2>6, <2>7 DEF Progress
<1>6. CASE UNCHANGED <<input, handled>> /\ stage' \notin {"screen", "cross_validate"}
  <2>1. events' = events
    BY <1>6 DEF events
  <2> QED
    BY <1>6, <2>1 DEF IInv, Progress
<1>7. CASE UNCHANGED vars
  <2>1. events' = events /\ Targets' = Targets /\ Kept' = Kept
    BY <1>7, KeptStays, TargetsStay DEF vars
  <2> QED
    BY <1>7, <2>1 DEF IInv, Progress, vars
<1> QED
  BY <1>2, <1>3, <1>4, <1>5, <1>6, <1>7
     DEF Next, Validated, CallFails, ResolveEvents, Analyze, Aggregate, Recommend, SelectCandidates

LEMMA RelatedIs ==
    ASSUME IInv, NEW e \in DOMAIN events
    PROVE  IsList(RelatedTo(e)) /\ events[e].article \notin ToSet(RelatedTo(e))
<1>1. IsFiniteSet(input.articles) /\ input.articles \subseteq DOMAIN Articles
  BY EventsAre DEF IInv, Inputs
<1>2. PICK v, s, r : v = events[e] /\ s = input.articles /\ r = RelatedTo(e)
  OBVIOUS
<1>3. IsList(Related(v, s)) /\ \A k \in DOMAIN Related(v, s) : Related(v, s)[k] \in s \ {v.article}
  BY <1>1, <1>2, RelatedAre
<1>4. r = Related(v, s)
  BY <1>2 DEF RelatedTo
<1>5. IsList(r) /\ v.article \notin ToSet(r)
  BY <1>3, <1>4 DEF ToSet
<1> QED
  BY <1>2, <1>5

\* Nobody else reported it.
LEMMA ScreenedValidates == IInv /\ Screened => Validations'
<1> SUFFICES ASSUME IInv, Screened PROVE Validations'
  OBVIOUS
<1>1. UNCHANGED <<input, decisions>>
  BY DEF Screened
<1>2. events' = events /\ \A e : RelatedTo(e)' = RelatedTo(e)
  BY <1>1, TargetsStay
<1>3. PICK S : S = {d.event : d \in ToSet(Reviewed)} \ {d.event : d \in ToSet(Targets)}
  OBVIOUS
<1>4. validations' = [e \in S |-> Insufficient]
  BY <1>3 DEF Screened
<1>5. ASSUME NEW e \in S PROVE e \in DOMAIN events
  <2>1. PICK k \in DOMAIN Reviewed : e = Reviewed[k].event
    BY <1>3 DEF ToSet
  <2>2. PICK m \in DOMAIN decisions : Reviewed[k] = decisions[m]
    BY TargetsAre DEF IInv, Decisions
  <2>3. decisions[m].event \in DOMAIN events
    BY DecisionsAreFew
  <2> QED
    BY <2>1, <2>2, <2>3
<1>6. ASSUME NEW e \in DOMAIN validations'
      PROVE  e \in DOMAIN events /\ Founded(validations'[e], RelatedTo(e))
  <2>1. e \in S /\ validations'[e] = Insufficient
    BY <1>4
  <2>2. PICK r : r = RelatedTo(e)
    OBVIOUS
  <2>3. Founded(Insufficient, r)
    BY InsufficientIsFounded
  <2> QED
    BY <1>5, <2>1, <2>2, <2>3
<1> QED
  BY <1>2, <1>6 DEF Validations

LEMMA CrossValidateValidates == IInv /\ CrossValidate => Validations'
<1> SUFFICES ASSUME IInv, CrossValidate PROVE Validations'
  OBVIOUS
<1>1. UNCHANGED <<input, decisions>> /\ handled \in Nat /\ handled <= Len(Targets)
  BY DEF IInv, Progress, CrossValidate
<1>2. events' = events /\ \A e : RelatedTo(e)' = RelatedTo(e)
  BY <1>1, TargetsStay
<1> DEFINE batch == BatchAt(Targets, ReviewBatch)
           verdict(items, k) == IF items = None THEN Insufficient
                                ELSE Verdict(items, k, Len(batch), RelatedTo(batch[k].event))
           position(e) == CHOOSE k \in DOMAIN batch : batch[k].event = e
           answered(items) == {batch[k].event : k \in {j \in DOMAIN batch : verdict(items, j) # None}}
<1>3. PICK items \in Verdicts :
         validations' = [e \in DOMAIN validations \cup answered(items) |->
                IF e \in DOMAIN validations THEN validations[e] ELSE verdict(items, position(e))]
  BY DEF CrossValidate
<1> HIDE DEF batch
<1>4. PICK t : t = Targets /\ batch = BatchAt(t, ReviewBatch)
  BY DEF batch
<1>5. /\ IsList(t) /\ \A n \in DOMAIN t : \E m \in DOMAIN decisions : t[n] = decisions[m]
      /\ \A m, n \in DOMAIN t : t[m].event = t[n].event => m = n
  BY <1>4, TargetsAre DEF IInv, Decisions
<1>6. \A k \in DOMAIN batch : k \in 1 .. Len(batch) /\ handled + k \in DOMAIN t /\ batch[k] = t[handled + k]
  BY <1>1, <1>4, <1>5, BatchIs, DecisionsAssumption
<1>7. ASSUME NEW k \in DOMAIN batch PROVE batch[k].event \in DOMAIN events
  <2>1. PICK n \in DOMAIN t : batch[k] = t[n]
    BY <1>6
  <2>2. PICK m \in DOMAIN decisions : t[n] = decisions[m]
    BY <1>5
  <2>3. decisions[m].event \in DOMAIN events
    BY DecisionsAreFew
  <2> QED
    BY <2>1, <2>2, <2>3
<1>8. ASSUME NEW k \in DOMAIN batch, NEW l \in DOMAIN batch, batch[k].event = batch[l].event PROVE k = l
  <2>1. PICK h \in Nat : h = handled
    BY <1>1
  <2>2. /\ h + k \in DOMAIN t /\ h + l \in DOMAIN t /\ t[h + k].event = t[h + l].event
        /\ k \in 1 .. Len(batch) /\ l \in 1 .. Len(batch)
    BY <1>6, <1>8, <2>1
  <2>3. h + k = h + l
    BY <1>5, <2>2
  <2>4. PICK a \in Int, b \in Int : a = k /\ b = l
    BY <2>2
  <2>5. h + a = h + b
    BY <2>3, <2>4
  <2>6. a = b
    BY <2>5
  <2> QED
    BY <2>4, <2>6
<1>9. ASSUME NEW k \in DOMAIN batch, verdict(items, k) # None
      PROVE  Founded(verdict(items, k), RelatedTo(batch[k].event))
  <2>1. PICK r, n : r = RelatedTo(batch[k].event) /\ n = Len(batch)
    OBVIOUS
  <2>2. IsList(r)
    BY <1>7, <2>1, RelatedIs
  <2>3. CASE items = None
    <3>1. Founded(Insufficient, r)
      BY InsufficientIsFounded
    <3> QED
      BY <2>1, <2>3, <3>1
  <2>4. CASE items # None
    <3>1. verdict(items, k) = Verdict(items, k, n, r)
      BY <2>1, <2>4
    <3>2. Founded(Verdict(items, k, n, r), r)
      BY <1>9, <2>2, <3>1, VerdictIsFounded
    <3> HIDE DEF verdict
    <3> QED
      BY <2>1, <3>1, <3>2
  <2> HIDE DEF verdict
  <2> QED
    BY <2>3, <2>4
<1> HIDE DEF verdict
<1>10. ASSUME NEW e \in answered(items)
       PROVE  e \in DOMAIN events /\ Founded(verdict(items, position(e)), RelatedTo(e))
  <2>1. PICK k \in DOMAIN batch : verdict(items, k) # None /\ e = batch[k].event
    OBVIOUS
  <2>2. position(e) = k
    BY <1>8, <2>1
  <2> HIDE DEF position
  <2> QED
    BY <1>7, <1>9, <2>1, <2>2
<1> HIDE DEF position
<1> HIDE DEF answered
<1>11. ASSUME NEW e \in DOMAIN validations'
       PROVE  e \in DOMAIN events /\ Founded(validations'[e], RelatedTo(e))
  <2>1. CASE e \in DOMAIN validations
    <3>1. validations'[e] = validations[e]
      BY <1>3, <2>1
    <3> QED
      BY <2>1, <3>1 DEF IInv, Validations
  <2>2. CASE e \notin DOMAIN validations
    <3>1. e \in answered(items) /\ validations'[e] = verdict(items, position(e))
      BY <1>3, <2>2
    <3> QED
      BY <1>10, <3>1
  <2> QED
    BY <2>1, <2>2
<1> QED
  BY <1>2, <1>11 DEF Validations

LEMMA ValidationsKept == IInv /\ [Next]_vars => Validations'
<1> SUFFICES ASSUME IInv, [Next]_vars PROVE Validations'
  OBVIOUS
<1>1. CASE Screened
  BY <1>1, ScreenedValidates
<1>2. CASE CrossValidate
  BY <1>2, CrossValidateValidates
<1>3. CASE UNCHANGED <<input, validations>>
  <2>1. events' = events /\ \A e : RelatedTo(e)' = RelatedTo(e)
    BY <1>3 DEF events, RelatedTo
  <2> QED
    BY <1>3, <2>1 DEF IInv, Validations
<1> QED
  BY <1>1, <1>2, <1>3
     DEF Next, vars, Deduplicate, Assess, Validated, CallFails, ResolveEvents, Analyze, Aggregate, Recommend,
         SelectCandidates

LEMMA ConclusionsKept == IInv /\ [Next]_vars => Conclusions'
<1> SUFFICES ASSUME IInv, [Next]_vars PROVE Conclusions'
  OBVIOUS
<1> USE DEF IInv, Conclusions
<1>1. CASE Deduplicate
  BY <1>1 DEF Deduplicate
<1>2. CASE Assess
  BY <1>2 DEF Assess
<1>3. CASE Screened
  BY <1>3 DEF Screened
<1>4. CASE CrossValidate
  BY <1>4 DEF CrossValidate
<1>5. CASE Validated
  BY <1>5 DEF Validated
<1>6. CASE CallFails
  BY <1>6 DEF CallFails
<1>7. CASE ResolveEvents
  <2>1. /\ stage = "resolve" /\ stage' = "analyze" /\ resolved' = Resolutions
        /\ UNCHANGED <<input, directory, decisions, validations, advice, selection>>
    BY <1>7 DEF ResolveEvents, Resolutions
  <2>2. Resolutions' = Resolutions
    BY <2>1 DEF Resolutions, events
  <2> QED
    BY <2>1, <2>2
<1>8. CASE Analyze
  <2>1. /\ stage = "analyze" /\ stage' = "aggregate" /\ impacts' = Impacts(resolved)
        /\ UNCHANGED <<input, directory, decisions, validations, resolved, advice, selection>>
    BY <1>8 DEF Analyze
  <2>2. Resolutions' = Resolutions
    BY <2>1 DEF Resolutions, events
  <2> QED
    BY <2>1, <2>2
<1>9. CASE Aggregate
  <2>1. /\ stage = "aggregate" /\ stage' = "score" /\ groups' = Grouped(impacts)
        /\ UNCHANGED <<input, directory, decisions, validations, resolved, impacts, advice, selection>>
    BY <1>9 DEF Aggregate
  <2>2. Resolutions' = Resolutions
    BY <2>1 DEF Resolutions, events
  <2> QED
    BY <2>1, <2>2
<1>10. CASE Recommend
  <2>1. /\ stage = "score" /\ stage' = "select_candidates" /\ advice' = Advised
        /\ UNCHANGED <<input, directory, decisions, validations, resolved, impacts, groups, selection>>
    BY <1>10 DEF Recommend, Advised
  <2>2. Resolutions' = Resolutions /\ Advised' = Advised
    BY <2>1 DEF Resolutions, events, Advised
  <2> QED
    BY <2>1, <2>2
<1>11. CASE SelectCandidates
  <2>1. /\ stage = "select_candidates" /\ stage' = "done" /\ selection' = Chosen
        /\ UNCHANGED <<input, directory, decisions, validations, resolved, impacts, groups, advice>>
    BY <1>11 DEF SelectCandidates, Chosen
  <2>2. Resolutions' = Resolutions /\ Advised' = Advised /\ Chosen' = Chosen
    BY <2>1 DEF Resolutions, events, Advised, Chosen
  <2> QED
    BY <2>1, <2>2
<1>12. CASE UNCHANGED vars
  <2>1. Resolutions' = Resolutions /\ Advised' = Advised /\ Chosen' = Chosen
    BY <1>12 DEF vars, Resolutions, events, Advised, Chosen
  <2> QED
    BY <1>12, <2>1 DEF vars
<1> QED
  BY <1>1, <1>2, <1>3, <1>4, <1>5, <1>6, <1>7, <1>8, <1>9, <1>10, <1>11, <1>12 DEF Next

LEMMA Invariant == Spec => []IInv
<1>1. IInv /\ [Next]_vars => IInv'
  BY InputsKept, RepresentedKept, DecisionsKept, ProgressKept, ValidationsKept, ConclusionsKept DEF IInv
<1> QED
  BY <1>1, InitHolds, PTL DEF Spec

----------------------------------------------------------------------------
(* The reports of one incident are joined.                                 *)

LEMMA JoinedIs == IInv => IncidentsAreJoined
<1> SUFFICES ASSUME IInv PROVE IncidentsAreJoined
  OBVIOUS
<1>1. PICK can, evs, S : can = canonical /\ evs = events /\ S = DOMAIN events
  OBVIOUS
<1>2. can \in [S -> S] /\ Representing(can, evs, S, same)
  BY <1>1 DEF IInv, Represented
<1>3. \A e, f \in DOMAIN events :
         canonical[e] = canonical[f] <=>
             \A cut \in SUBSET DOMAIN events : e \in cut /\ f \notin cut =>
                 \E p \in ToSet(same) : (p[1] \in cut) # (p[2] \in cut)
  BY <1>1, <1>2 DEF Representing
<1>4. \A e \in DOMAIN events : canonical[canonical[e]] = canonical[e]
  BY <1>1, <1>2 DEF Representing
<1>5. \A e \in DOMAIN events : ~Before(Rank(events, e), Rank(events, canonical[e]))
  BY <1>1, <1>2 DEF Representing
<1>6. ASSUME NEW n \in DOMAIN decisions PROVE canonical[decisions[n].event] = decisions[n].event
  <2>1. PICK k \in DOMAIN Kept : decisions[n].event = Kept[k]
    BY DEF IInv, Decisions
  <2>2. PICK C \in Nat :
           DOMAIN Kept = 1 .. C /\ \A l \in 1 .. C : \E e \in DOMAIN events : Kept[l] = canonical[e]
    BY KeptAre DEF IInv, Inputs, Represented
  <2>3. PICK e \in DOMAIN events : Kept[k] = canonical[e]
    BY <2>2
  <2> QED
    BY <1>4, <2>1, <2>3
<1>7. \A d \in ToSet(decisions) : canonical[d.event] = d.event
  BY <1>6 DEF ToSet
<1>8. \A m, n \in DOMAIN decisions : decisions[m].event = decisions[n].event => m = n
  BY DEF IInv, Decisions
<1> QED
  BY <1>3, <1>4, <1>5, <1>7, <1>8 DEF IncidentsAreJoined

\* Two reports stand for one incident exactly when a chain of pairs found to be the same
\* joins them, and of all reports of an incident one that none is ranked before is decided
\* on, once (EventDeduplicator, CanonicalEventSelector).
THEOREM ReportsAreJoined == Spec => []IncidentsAreJoined
BY Invariant, JoinedIs, PTL

----------------------------------------------------------------------------
(* Verified events.                                                        *)

LEMMA VerifiedIs == IInv => VerifiedIndependently
<1> SUFFICES ASSUME IInv, NEW e \in DOMAIN validations, validations[e].status = "verified"
             PROVE  /\ events[e].article \notin ToSet(validations[e].supporting)
                    /\ Independent(ToSet(validations[e].supporting))
  BY DEF VerifiedIndependently, Independent
<1>1. PICK v, related, a : v = validations[e] /\ related = RelatedTo(e) /\ a = events[e].article
  OBVIOUS
<1>2. e \in DOMAIN events /\ Founded(v, related)
  BY <1>1 DEF IInv, Validations
<1>3. IsList(related) /\ a \notin ToSet(related)
  BY <1>1, <1>2, RelatedIs
<1>4. v.status = "verified"
  BY <1>1
<1>5. a \notin ToSet(v.supporting) /\ Independent(ToSet(v.supporting))
  BY <1>2, <1>3, <1>4, FoundedIsIndependent
<1> QED
  BY <1>1, <1>5

\* A verified event is supported by two reports at least, none of them its own, that are
\* not joined by a chain of common sources (DefaultCrossValidationPolicy).
THEOREM VerificationIsIndependent == Spec => []VerifiedIndependently
BY Invariant, VerifiedIs, PTL

----------------------------------------------------------------------------
(* What became of the decisions.                                           *)

\* The directory knows one company by that name.
Means(dir, company, id) == {d.id : d \in {x \in dir : company.name \in x.names}} = {id}

\* A company is resolved to the only one it can mean.
LEMMA ResolutionIs ==
    ASSUME NEW dir, IsFiniteSet(dir), NEW company, NEW r, r = Resolution(dir, company), r.id # None
    PROVE  r.status = "resolved" /\ Means(dir, company, r.id)
<1> DEFINE T == {x \in dir : company.name \in x.names}
           ids == {d.id : d \in T}
           f == [d \in T |-> d.id]
<1>1. IsFiniteSet(ids)
  <2>1. IsFiniteSet(T)
    BY FS_Subset
  <2> HIDE DEF T
  <2>2. f \in Surjection(T, ids)
    BY DEF Surjection
  <2> HIDE DEF f, ids
  <2> QED
    BY <2>1, <2>2, FS_Surjection
<1>2. ids = {c.id : c \in {d \in dir : company.name \in d.names}}
  OBVIOUS
<1> HIDE DEF ids
<1>3. r = [name |-> company.name, direct |-> company.direct,
           status |-> IF ids = {} THEN "unresolved"
                      ELSE IF Cardinality(ids) = 1 THEN "resolved" ELSE "ambiguous",
           id |-> IF Cardinality(ids) = 1 THEN CHOOSE id \in ids : TRUE ELSE None]
  BY <1>2 DEF Resolution
<1>4. Cardinality(ids) = 1 /\ r.id = CHOOSE id \in ids : TRUE
  BY <1>3
<1>5. PICK id : ids = {id}
  BY <1>1, <1>4, FS_Singleton
<1>6. r.id = id
  BY <1>4, <1>5
<1>7. r.status = "resolved"
  BY <1>3, <1>4, <1>5
<1>8. {d.id : d \in {x \in dir : company.name \in x.names}} = {r.id}
  BY <1>2, <1>5, <1>6
<1> QED
  BY <1>7, <1>8 DEF Means

LEMMA ResolutionKeepsDirect ==
    ASSUME NEW dir, NEW company
    PROVE  Resolution(dir, company).direct = company.direct
BY DEF Resolution

\* What counts was not rejected, and was accepted or verified by others.
LEMMA CountsWhen ==
    ASSUME NEW rating \in Rating, NEW validation, validation = None \/ validation \in Verdicts3,
           NEW r, r.validation = validation, r.decision = Resolve(rating, validation)
    PROVE  /\ r.decision \in Rating
           /\ Counts(r) => rating # "reject" /\ (rating = "accept" \/ validation \in {"verified", "partially_verified"})
<1>1. None # "verified" /\ None # "partially_verified"
  BY RulesAssumption
<1>2. CASE rating = "reject" \/ validation \in {None, "insufficient_evidence"}
  <2>1. r.decision = rating
    BY <1>2 DEF Resolve
  <2> QED
    BY <1>1, <1>2, <2>1 DEF Counts, Rating
<1>3. CASE rating # "reject" /\ validation = "verified"
  <2>1. r.decision = "accept"
    BY <1>1, <1>3 DEF Resolve
  <2> QED
    BY <1>3, <2>1 DEF Rating
<1>4. CASE rating # "reject" /\ validation = "partially_verified"
  <2>1. r.decision = "review"
    BY <1>1, <1>4 DEF Resolve
  <2> QED
    BY <1>4, <2>1 DEF Rating
<1>5. CASE rating # "reject" /\ validation = "conflicted" /\ validation # None
  <2>1. r.decision = "reject"
    BY <1>5 DEF Resolve
  <2> QED
    BY <2>1 DEF Rating, Counts
<1> QED
  BY <1>2, <1>3, <1>4, <1>5 DEF Verdicts3

ValidationOf(e) == IF e \in DOMAIN validations THEN validations[e].status ELSE None

LEMMA ResolvedAre ==
    ASSUME IInv, resolved = Resolutions
    PROVE  /\ IsList(resolved) /\ DOMAIN resolved = DOMAIN decisions
           /\ \A n \in DOMAIN decisions : LET e == decisions[n].event IN
                 /\ resolved[n].event = e /\ e \in DOMAIN events
                 /\ resolved[n].validation = ValidationOf(e)
                 /\ resolved[n].decision = Resolve(decisions[n].decision, ValidationOf(e))
                 /\ resolved[n].facts = events[e].facts
                 /\ resolved[n].companies =
                       [c \in DOMAIN events[e].companies |-> Resolution(directory, events[e].companies[c])]
<1>1. PICK L \in Nat : DOMAIN decisions = 1 .. L
  BY ListIsSeq DEF IInv, Decisions
<1>2. resolved = [n \in 1 .. L |-> resolved[n]]
  BY <1>1 DEF Resolutions
<1>3. IsList(resolved) /\ DOMAIN resolved = 1 .. L
  BY <1>2, FunctionIsList
<1>4. ASSUME NEW n \in DOMAIN decisions
      PROVE  LET e == decisions[n].event IN
                 /\ resolved[n].event = e /\ e \in DOMAIN events
                 /\ resolved[n].validation = ValidationOf(e)
                 /\ resolved[n].decision = Resolve(decisions[n].decision, ValidationOf(e))
                 /\ resolved[n].facts = events[e].facts
                 /\ resolved[n].companies =
                       [c \in DOMAIN events[e].companies |-> Resolution(directory, events[e].companies[c])]
  <2>1. PICK e : e = decisions[n].event
    OBVIOUS
  <2> DEFINE cs == [c \in DOMAIN events[e].companies |-> Resolution(directory, events[e].companies[c])]
  <2>2. resolved[n] = [event |-> e, facts |-> events[e].facts, validation |-> ValidationOf(e), companies |-> cs,
                       decision |-> Resolve(decisions[n].decision, ValidationOf(e))]
    BY <2>1 DEF Resolutions, ValidationOf
  <2>3. e \in DOMAIN events
    BY <2>1, DecisionsAreFew
  <2> HIDE DEF cs
  <2>4. /\ resolved[n].event = e /\ resolved[n].validation = ValidationOf(e) /\ resolved[n].facts = events[e].facts
        /\ resolved[n].decision = Resolve(decisions[n].decision, ValidationOf(e)) /\ resolved[n].companies = cs
    BY <2>2
  <2> QED
    BY <2>1, <2>3, <2>4 DEF cs
<1> QED
  BY <1>1, <1>3, <1>4

LEMMA ValidationOfIs ==
    ASSUME IInv, NEW e
    PROVE  ValidationOf(e) = None \/ ValidationOf(e) \in Verdicts3
<1>1. CASE e \in DOMAIN validations
  <2>1. PICK v, related : v = validations[e] /\ related = RelatedTo(e)
    OBVIOUS
  <2>2. Founded(v, related)
    BY <1>1, <2>1 DEF IInv, Validations
  <2>3. v.status \in Verdicts3
    BY <2>2 DEF Founded
  <2> QED
    BY <1>1, <2>1, <2>3 DEF ValidationOf
<1>2. CASE e \notin DOMAIN validations
  BY <1>2 DEF ValidationOf
<1> QED
  BY <1>1, <1>2

\* Each event with its companies, as the last stages need them.
LEMMA ResolvedIs ==
    ASSUME IInv, resolved = Resolutions, NEW n \in DOMAIN decisions
    PROVE  /\ Resolved(resolved[n])
           /\ Counts(resolved[n]) =>
                 /\ decisions[n].decision # "reject"
                 /\ decisions[n].decision = "accept" \/
                    ValidationOf(decisions[n].event) \in {"verified", "partially_verified"}
<1>1. PICK e, v, rating, r :
         e = decisions[n].event /\ v = ValidationOf(e) /\ rating = decisions[n].decision /\ r = resolved[n]
  OBVIOUS
<1>2. /\ e \in DOMAIN events /\ r.validation = v /\ r.decision = Resolve(rating, v) /\ r.facts = events[e].facts
      /\ r.companies = [c \in DOMAIN events[e].companies |-> Resolution(directory, events[e].companies[c])]
  BY <1>1, ResolvedAre
<1>3. v = None \/ v \in Verdicts3
  BY <1>1, ValidationOfIs
<1>4. rating \in Rating
  <2>1. PICK d : d = decisions[n]
    OBVIOUS
  <2>2. Sound(d)
    BY <2>1 DEF IInv, Decisions
  <2> QED
    BY <1>1, <2>1, <2>2 DEF Sound
<1>5. /\ r.decision \in Rating
      /\ Counts(r) => rating # "reject" /\ (rating = "accept" \/ v \in {"verified", "partially_verified"})
  BY <1>2, <1>3, <1>4, CountsWhen
<1>6. PICK cs, fs : cs = events[e].companies /\ fs = events[e].facts
  OBVIOUS
<1>7. IsList(cs) /\ IsList(fs)
  BY <1>2, <1>6, EventsAre DEF IInv, Inputs
<1>8. PICK N \in Nat : DOMAIN cs = 1 .. N
  BY <1>7, ListIsSeq
<1>9. PICK rc, dir : rc = r.companies /\ dir = directory
  OBVIOUS
<1>10. rc = [c \in 1 .. N |-> Resolution(dir, cs[c])]
  BY <1>2, <1>6, <1>8, <1>9
<1>11. IsList(rc) /\ DOMAIN rc = 1 .. N
  <2>1. rc = [c \in 1 .. N |-> rc[c]]
    BY <1>10
  <2> QED
    BY <1>10, <2>1, FunctionIsList
<1>12. ASSUME NEW c \in 1 .. N, rc[c].id # None PROVE rc[c].status = "resolved"
  <2>1. PICK company, one : company = cs[c] /\ one = rc[c] /\ one = Resolution(dir, company)
    BY <1>10
  <2>2. IsFiniteSet(dir)
    BY <1>9 DEF IInv, Inputs
  <2>3. one.status = "resolved"
    BY <1>12, <2>1, <2>2, ResolutionIs
  <2> QED
    BY <2>1, <2>3
<1>13. Resolved(r)
  BY <1>2, <1>5, <1>6, <1>7, <1>9, <1>11, <1>12 DEF Resolved
<1> QED
  BY <1>1, <1>5, <1>13

----------------------------------------------------------------------------
(* The advice.                                                             *)

LEMMA AdviceIs ==
    ASSUME IInv
    PROVE  IF stage \in {"select_candidates", "done"}
           THEN resolved = Resolutions /\ groups = Grouped(Impacts(resolved)) /\ advice = Advised
           ELSE advice = <<>> /\ selection = <<>>
BY DEF IInv, Conclusions

LEMMA GroupsListed ==
    ASSUME IInv, stage \in {"select_candidates", "done"}
    PROVE  /\ IsList(resolved) /\ \A n \in DOMAIN resolved : Resolved(resolved[n])
           /\ IsList(groups) /\ \A g, h \in DOMAIN groups : groups[g].id = groups[h].id => g = h
<1>1. resolved = Resolutions /\ groups = Grouped(Impacts(resolved))
  BY AdviceIs
<1>2. PICK rs, gs : rs = resolved /\ gs = groups
  OBVIOUS
<1>3. IsList(rs) /\ \A n \in DOMAIN rs : Resolved(rs[n])
  BY <1>1, <1>2, ResolvedAre, ResolvedIs
<1>4. PICK s : s = Impacts(rs)
  OBVIOUS
<1>5. IsList(s)
  BY <1>3, <1>4, ImpactsAreListed
<1>6. gs = Grouped(s)
  BY <1>1, <1>2, <1>4
<1>7. IsList(gs) /\ \A g, h \in DOMAIN gs : gs[g].id = gs[h].id => g = h
  BY <1>5, <1>6, GroupsAre
<1> QED
  BY <1>2, <1>3, <1>7

LEMMA AdviceIsListed == IInv => IsList(advice)
<1> SUFFICES ASSUME IInv PROVE IsList(advice)
  OBVIOUS
<1>1. CASE stage \in {"select_candidates", "done"}
  <2>1. advice = Advised /\ IsList(groups)
    BY <1>1, AdviceIs, GroupsListed
  <2>2. PICK N \in Nat : DOMAIN groups = 1 .. N
    BY <2>1, ListIsSeq
  <2>3. advice = [g \in 1 .. N |-> advice[g]]
    BY <2>1, <2>2 DEF Advised
  <2> QED
    BY <2>3, FunctionIsList
<1>2. CASE stage \notin {"select_candidates", "done"}
  BY <1>2, AdviceIs, EmptyIsList
<1> QED
  BY <1>1, <1>2

LEMMA AdvicesAre ==
    ASSUME IInv, NEW i \in DOMAIN advice
    PROVE  LET positive == News(resolved, advice[i].id, "positive")
               negative == News(resolved, advice[i].id, "negative")
           IN  /\ resolved = Resolutions
               /\ \E n \in DOMAIN resolved : \E c \in DOMAIN resolved[n].companies :
                     advice[i].id = resolved[n].companies[c].id
               /\ advice[i].id # None /\ advice[i].action = ActionOf(advice[i].score) /\ advice[i].score \in Int
               /\ IsFiniteSet(positive) /\ IsFiniteSet(negative)
               /\ advice[i].score = Cardinality(positive) - Cardinality(negative)
               /\ \A j \in DOMAIN advice : advice[j].id = advice[i].id => j = i
<1>1. stage \in {"select_candidates", "done"}
  BY AdviceIs
<1>2. resolved = Resolutions /\ groups = Grouped(Impacts(resolved)) /\ advice = Advised
  BY <1>1, AdviceIs
<1>3. PICK rs, gs : rs = resolved /\ gs = groups
  OBVIOUS
<1>4. IsList(rs) /\ (\A n \in DOMAIN rs : Resolved(rs[n])) /\ \A g, h \in DOMAIN gs : gs[g].id = gs[h].id => g = h
  BY <1>1, <1>3, GroupsListed
<1>5. gs = Grouped(Impacts(rs)) /\ i \in DOMAIN gs
  BY <1>2, <1>3 DEF Advised
<1>6. PICK id, score : id = gs[i].id /\ score = Score(gs[i])
  OBVIOUS
<1>7. /\ id # None
      /\ \E n \in DOMAIN rs : \E c \in DOMAIN rs[n].companies : id = rs[n].companies[c].id
      /\ IsFiniteSet(News(rs, id, "positive")) /\ IsFiniteSet(News(rs, id, "negative"))
      /\ score = Cardinality(News(rs, id, "positive")) - Cardinality(News(rs, id, "negative"))
      /\ score \in Int
  BY <1>4, <1>5, <1>6, ScoresAre
<1>8. DOMAIN advice = DOMAIN gs /\ \A j \in DOMAIN gs : advice[j].id = gs[j].id
  BY <1>2, <1>3 DEF Advised
<1>9. advice[i].id = id /\ advice[i].score = score /\ advice[i].action = ActionOf(score)
  BY <1>2, <1>3, <1>5, <1>6 DEF Advised
<1>10. \A j \in DOMAIN advice : advice[j].id = advice[i].id => j = i
  BY <1>4, <1>5, <1>8
<1> QED
  BY <1>2, <1>3, <1>7, <1>9, <1>10

LEMMA NetIs == IInv => ScoresAreNet
<1> SUFFICES ASSUME IInv PROVE ScoresAreNet
  OBVIOUS
<1> DEFINE counts(r) == r.decision = "accept" \/
                        (r.decision = "review" /\ r.validation \in {"verified", "partially_verified"})
           news(id, direction) ==
               UNION {{n} \X {p \in (DOMAIN resolved[n].facts) \X (DOMAIN resolved[n].companies) :
                                 /\ resolved[n].companies[p[2]].direct /\ resolved[n].companies[p[2]].id = id
                                 /\ Direction(resolved[n].facts[p[1]]) = direction} :
                      n \in {m \in DOMAIN resolved : counts(resolved[m])}}
<1>1. ASSUME NEW id, NEW direction PROVE news(id, direction) = News(resolved, id, direction)
  BY DEF News, NewsOf, Counts
<1>2. ASSUME NEW i \in DOMAIN advice
      PROVE  /\ \A j \in DOMAIN advice : advice[j].id = advice[i].id => j = i
             /\ advice[i].score = Cardinality(news(advice[i].id, "positive"))
                                  - Cardinality(news(advice[i].id, "negative"))
  <2>1. PICK id : id = advice[i].id
    OBVIOUS
  <2>2. /\ advice[i].score = Cardinality(News(resolved, id, "positive")) - Cardinality(News(resolved, id, "negative"))
        /\ \A j \in DOMAIN advice : advice[j].id = id => j = i
    BY <2>1, AdvicesAre
  <2>3. news(id, "positive") = News(resolved, id, "positive") /\ news(id, "negative") = News(resolved, id, "negative")
    BY <1>1
  <2> HIDE DEF news
  <2> QED
    BY <2>1, <2>2, <2>3
<1> QED
  BY <1>2 DEF ScoresAreNet

\* Each company is scored once, with its good news less its bad news in the events that
\* count (DefaultAggregationStrategy, EvidenceAwareScoringStrategy).
THEOREM ScoresAreNetted == Spec => []ScoresAreNet
BY Invariant, NetIs, PTL

----------------------------------------------------------------------------
(* The candidates.                                                         *)

LEMMA SelectionIs ==
    ASSUME IInv, NEW i \in DOMAIN selection
    PROVE  /\ i \in DOMAIN advice /\ selection[i].status = CandidateStatus(advice, i)
           /\ selection[i].rank = IF i \in ToSet(Selected(advice))
                                  THEN CHOOSE n \in DOMAIN Selected(advice) : Selected(advice)[n] = i ELSE 0
<1>1. stage = "done"
  BY DEF IInv, Conclusions
<1>2. selection = Chosen
  BY <1>1 DEF IInv, Conclusions
<1> QED
  BY <1>2 DEF Chosen

\* Good news of a company is told by an event that counts, of a company it names.
LEMMA NewsIsTold ==
    ASSUME NEW rs, NEW id, NEW direction, News(rs, id, direction) # {}
    PROVE  \E n \in DOMAIN rs : Counts(rs[n]) /\ \E c \in DOMAIN rs[n].companies :
               rs[n].companies[c].direct /\ rs[n].companies[c].id = id
<1>1. PICK n \in {m \in DOMAIN rs : Counts(rs[m])} : \E x : x \in {n} \X NewsOf(rs[n], id, direction)
  BY DEF News
<1>2. PICK p : p \in NewsOf(rs[n], id, direction)
  BY <1>1
<1>3. p[2] \in DOMAIN rs[n].companies /\ rs[n].companies[p[2]].direct /\ rs[n].companies[p[2]].id = id
  BY <1>2 DEF NewsOf
<1> QED
  BY <1>3

LEMMA BuyIsPositive ==
    ASSUME NEW score \in Int, Eligible(ActionOf(score)), NEW positive, NEW negative,
           IsFiniteSet(positive), IsFiniteSet(negative), score = Cardinality(positive) - Cardinality(negative)
    PROVE  positive # {}
<1>1. score >= 1
  BY DEF Eligible, ActionOf
<1>2. Cardinality(positive) \in Nat /\ Cardinality(negative) \in Nat
  BY FS_CardinalityType
<1>3. Cardinality(positive) # 0
  BY <1>1, <1>2
<1> QED
  BY <1>3, FS_EmptySet

LEMMA PickIs == IInv => PickIsSupported
<1> SUFFICES ASSUME IInv, NEW i \in DOMAIN selection, selection[i].status = "selected"
             PROVE  \E n \in DOMAIN resolved : LET r == resolved[n] IN
                        /\ canonical[r.event] = r.event
                        /\ decisions[n].scores.relevance >= 40 /\ decisions[n].scores.importance >= 40
                        /\ \/ decisions[n].decision = "accept"
                           \/ r.event \in DOMAIN validations
                              /\ validations[r.event].status \in {"verified", "partially_verified"}
                        /\ \E c \in ToSet(events[r.event].companies) :
                              /\ c.direct
                              /\ {d.id : d \in {x \in directory : c.name \in x.names}} = {advice[i].id}
  BY DEF PickIsSupported
<1>1. i \in DOMAIN advice /\ Eligible(advice[i].action)
  BY SelectionIs DEF CandidateStatus
<1>2. PICK id, score : id = advice[i].id /\ score = advice[i].score
  OBVIOUS
<1>3. PICK positive, negative : positive = News(resolved, id, "positive") /\ negative = News(resolved, id, "negative")
  OBVIOUS
<1>4. /\ resolved = Resolutions /\ id # None /\ advice[i].action = ActionOf(score) /\ score \in Int
      /\ IsFiniteSet(positive) /\ IsFiniteSet(negative) /\ score = Cardinality(positive) - Cardinality(negative)
  BY <1>1, <1>2, <1>3, AdvicesAre
<1>5. positive # {}
  <2>1. Eligible(ActionOf(score))
    BY <1>1, <1>4
  <2> QED
    BY <1>4, <2>1, BuyIsPositive
<1>6. PICK n \in DOMAIN resolved : Counts(resolved[n]) /\ \E c \in DOMAIN resolved[n].companies :
          resolved[n].companies[c].direct /\ resolved[n].companies[c].id = id
  <2>1. News(resolved, id, "positive") # {}
    BY <1>3, <1>5
  <2> QED
    BY <2>1, NewsIsTold
<1>7. n \in DOMAIN decisions
  BY <1>4, ResolvedAre
<1>8. PICK e, v, cs : e = decisions[n].event /\ v = ValidationOf(e) /\ cs = events[e].companies
  OBVIOUS
<1>9. /\ e \in DOMAIN events /\ resolved[n].event = e
      /\ resolved[n].companies = [c \in DOMAIN cs |-> Resolution(directory, cs[c])]
  BY <1>4, <1>7, <1>8, ResolvedAre
<1>10. decisions[n].decision # "reject" /\ (decisions[n].decision = "accept" \/ v \in {"verified", "partially_verified"})
  BY <1>4, <1>6, <1>7, <1>8, ResolvedIs
<1>11. canonical[e] = e
  <2>1. decisions[n] \in ToSet(decisions)
    BY <1>7 DEF ToSet
  <2>2. stage # "deduplicate"
    BY <1>7 DEF IInv, Decisions
  <2> QED
    BY <1>8, <2>1, <2>2, JoinedIs DEF IncidentsAreJoined
<1>12. decisions[n].scores.relevance >= 40 /\ decisions[n].scores.importance >= 40
  <2>1. PICK d : d = decisions[n]
    OBVIOUS
  <2>2. Sound(d)
    BY <1>7, <2>1 DEF IInv, Decisions
  <2> QED
    BY <1>10, <2>1, <2>2 DEF Sound
<1>13. \/ decisions[n].decision = "accept"
       \/ e \in DOMAIN validations /\ validations[e].status \in {"verified", "partially_verified"}
  <2>1. None # "verified" /\ None # "partially_verified"
    BY RulesAssumption
  <2> QED
    BY <1>8, <1>10, <2>1 DEF ValidationOf
<1>14. \E c \in ToSet(cs) : c.direct /\ {d.id : d \in {x \in directory : c.name \in x.names}} = {id}
  <2>1. PICK c \in DOMAIN resolved[n].companies : resolved[n].companies[c].direct /\ resolved[n].companies[c].id = id
    BY <1>6
  <2>2. c \in DOMAIN cs /\ resolved[n].companies[c] = Resolution(directory, cs[c])
    BY <1>9, <2>1
  <2>3. PICK company, dir, r : company = cs[c] /\ dir = directory /\ r = Resolution(dir, company)
    OBVIOUS
  <2>4. r.direct /\ r.id = id
    BY <2>1, <2>2, <2>3
  <2>5. company.direct
    BY <2>3, <2>4, ResolutionKeepsDirect
  <2>6. IsFiniteSet(dir)
    BY <2>3 DEF IInv, Inputs
  <2>7. {d.id : d \in {x \in dir : company.name \in x.names}} = {id}
    <3>1. r.id # None
      BY <1>4, <2>4
    <3>2. r.status = "resolved" /\ Means(dir, company, r.id)
      BY <2>3, <2>6, <3>1, ResolutionIs
    <3> QED
      BY <2>4, <3>2 DEF Means
  <2>8. company \in ToSet(cs)
    BY <2>2, <2>3 DEF ToSet
  <2> QED
    BY <2>3, <2>5, <2>7, <2>8
<1>15. \E c \in ToSet(events[resolved[n].event].companies) :
          c.direct /\ {d.id : d \in {x \in directory : c.name \in x.names}} = {advice[i].id}
  BY <1>2, <1>8, <1>9, <1>14
<1> QED
  BY <1>9, <1>11, <1>12, <1>13, <1>15

\* A stock that is picked rests on an event that stands for its incident, was rated
\* relevant and important, is accepted or confirmed by others, and names the one company
\* it can mean (RuleCandidateSelectionPolicy and all that it relies on).
THEOREM PicksAreSupported == Spec => []PickIsSupported
BY Invariant, PickIs, PTL

----------------------------------------------------------------------------
(* Types.                                                                  *)

LEMMA AdviceIsKnown ==
    ASSUME IInv, NEW i \in DOMAIN advice
    PROVE  advice[i].id \in {c.id : c \in directory} /\ advice[i].score \in Int
<1>1. PICK id : id = advice[i].id
  OBVIOUS
<1>2. /\ resolved = Resolutions /\ id # None /\ advice[i].score \in Int
      /\ \E n \in DOMAIN resolved : \E c \in DOMAIN resolved[n].companies : id = resolved[n].companies[c].id
  BY <1>1, AdvicesAre
<1>3. PICK n \in DOMAIN resolved : \E c \in DOMAIN resolved[n].companies : id = resolved[n].companies[c].id
  BY <1>2
<1>4. PICK c \in DOMAIN resolved[n].companies : id = resolved[n].companies[c].id
  BY <1>3
<1>5. PICK cs : cs = events[decisions[n].event].companies
  OBVIOUS
<1>6. n \in DOMAIN decisions
  BY <1>2, ResolvedAre
<1>7. resolved[n].companies = [k \in DOMAIN cs |-> Resolution(directory, cs[k])]
  BY <1>2, <1>5, <1>6, ResolvedAre
<1>8. PICK company, dir, r : company = cs[c] /\ dir = directory /\ r = Resolution(dir, company)
  OBVIOUS
<1>9. r.id = id
  BY <1>4, <1>7, <1>8
<1>10. {d.id : d \in {x \in dir : company.name \in x.names}} = {id}
  <2>1. IsFiniteSet(dir)
    BY <1>8 DEF IInv, Inputs
  <2>2. r.id # None
    BY <1>2, <1>9
  <2>3. r.status = "resolved" /\ Means(dir, company, r.id)
    BY <1>8, <2>1, <2>2, ResolutionIs
  <2> QED
    BY <1>9, <2>3 DEF Means
<1>11. PICK d \in dir : d.id = id
  BY <1>10
<1> QED
  BY <1>1, <1>2, <1>8, <1>11

LEMMA RankIsFew ==
    ASSUME IInv, NEW i \in DOMAIN selection
    PROVE  selection[i].rank \in 0 .. MaxPicks
<1>1. PICK advs : advs = advice
  OBVIOUS
<1>2. IsList(advs) /\ \A k \in DOMAIN advs : advs[k].score \in Int
  BY <1>1, AdviceIsListed, AdviceIsKnown
<1>3. PICK C \in Nat : C <= MaxPicks /\ DOMAIN Selected(advs) = 1 .. C
  BY <1>2, SelectedAre
<1>4. MaxPicks \in Nat
  BY RulesAssumption
<1>5. CASE i \in ToSet(Selected(advs))
  <2>1. selection[i].rank = CHOOSE n \in DOMAIN Selected(advs) : Selected(advs)[n] = i
    BY <1>1, <1>5, SelectionIs
  <2>2. \E n \in DOMAIN Selected(advs) : Selected(advs)[n] = i
    BY <1>5 DEF ToSet
  <2>3. selection[i].rank \in DOMAIN Selected(advs)
    BY <2>1, <2>2
  <2> QED
    BY <1>3, <1>4, <2>3
<1>6. CASE i \notin ToSet(Selected(advs))
  <2>1. selection[i].rank = 0
    BY <1>1, <1>6, SelectionIs
  <2> QED
    BY <1>4, <2>1
<1> QED
  BY <1>5, <1>6

LEMMA TypesAre == IInv => TypeOK
<1> SUFFICES ASSUME IInv PROVE TypeOK
  OBVIOUS
<1>1. stage \in Stages /\ canonical \in [DOMAIN events -> DOMAIN events]
  BY DEF IInv, Inputs, Represented
<1>2. handled \in 0 .. Len(events)
  <2>1. Len(events) \in Nat
    BY EventsAre DEF IInv, Inputs
  <2> QED
    BY <2>1 DEF IInv, Progress
<1>3. ASSUME NEW d \in ToSet(decisions)
      PROVE  /\ d.event \in DOMAIN events /\ d.decision \in {"accept", "review", "reject"}
             /\ \A s \in {d.scores.relevance, d.scores.importance, d.scores.credibility} : s \in 0 .. 100
  <2>1. PICK n \in DOMAIN decisions : d = decisions[n]
    BY DEF ToSet
  <2>2. Sound(d)
    BY <2>1 DEF IInv, Decisions
  <2>3. d.event \in DOMAIN events
    BY <2>1, DecisionsAreFew
  <2> QED
    BY <2>2, <2>3 DEF Sound, Rating
<1>4. ASSUME NEW e \in DOMAIN validations PROVE e \in DOMAIN events /\ validations[e].status \in Verdicts3
  <2>1. PICK v, related : v = validations[e] /\ related = RelatedTo(e)
    OBVIOUS
  <2>2. e \in DOMAIN events /\ Founded(v, related)
    BY <2>1 DEF IInv, Validations
  <2>3. v.status \in Verdicts3
    BY <2>2 DEF Founded
  <2> QED
    BY <2>1, <2>2, <2>3
<1>5. \A a \in ToSet(advice) : a.id \in {c.id : c \in directory} /\ a.score \in Int
  BY AdviceIsKnown DEF ToSet
<1>6. \A s \in ToSet(selection) : s.rank \in 0 .. MaxPicks
  BY RankIsFew DEF ToSet
<1> QED
  BY <1>1, <1>2, <1>3, <1>4, <1>5, <1>6 DEF TypeOK

\* Every decision is of an event of this screening, every verdict too, every advice of a
\* company of its directory, and no more are picked than may be.
THEOREM TypeCorrect == Spec => []TypeOK
BY Invariant, TypesAre, PTL

=============================================================================
