----------------------------- MODULE FindingProofs -----------------------------
(***************************************************************************)
(* Module Finding for all vaults, questions and limits: breadth-first      *)
(* search finds the notes at their distances and a shortest path, a search *)
(* answers with what the caller may read and ranks it, and a query has the *)
(* first notes in the order asked for.                                     *)
(***************************************************************************)
EXTENDS Finding, FiniteSetTheorems, FunctionTheorems, WellFoundedInduction, TLAPS

-----------------------------------------------------------------------------
(* Numbers, and functions defined by recursion on them.                     *)

LEMMA LeastNat ==
  ASSUME NEW S \in SUBSET Nat, S # {}
  PROVE  \E m \in S : \A n \in S : m <= n
<1> DEFINE R == OpToRel(<, Nat)
<1>1. IsWellFoundedOn(R, Nat)
  BY NatLessThanWellFounded
<1>2. \A m, n \in S : <<n, m>> \in R <=> n < m
  BY DEF OpToRel
<1> HIDE DEF R
<1>3. PICK m \in S : \A n \in S : ~ (<<n, m>> \in R)
  BY <1>1, WFMin
<1>4. \A n \in S : ~ (n < m)
  BY <1>2, <1>3
<1> QED
  BY <1>4

\* A set of numbers with zero that is closed under successors.
LEMMA AllNat ==
  ASSUME NEW S, 0 \in S, \A k \in Nat : k \in S => k + 1 \in S
  PROVE  \A k \in Nat : k \in S
<1> SUFFICES ASSUME NEW j \in Nat, j \notin S
             PROVE  FALSE
  OBVIOUS
<1>1. Nat \ S # {} /\ Nat \ S \in SUBSET Nat
  OBVIOUS
<1>2. PICK m \in Nat \ S : \A n \in Nat \ S : m <= n
  BY <1>1, LeastNat
<1>3. m # 0 /\ m - 1 \in Nat /\ m - 1 + 1 = m
  BY <1>2
<1>4. m - 1 \in S
  BY <1>2, <1>3
<1> QED
  BY <1>2, <1>3, <1>4

Iterates(V, a, s) == \E f \in [Nat -> V] : f[0] = a /\ \A k \in Nat : f[k + 1] = s[<<k, f[k]>>]

\* A function is defined by its first value and a step.
LEMMA Iteration ==
  ASSUME NEW V, NEW a \in V, NEW s \in [Nat \X V -> V]
  PROVE  Iterates(V, a, s)
<1> DEFINE Part(n, f) == f[0] = a /\ \A k \in Nat : k < n => f[k + 1] = s[<<k, f[k]>>]
           Has == {n \in Nat : \E f \in [Nat -> V] : Part(n, f)}
<1>1. 0 \in Has
  <2>1. Part(0, [k \in Nat |-> a])
    OBVIOUS
  <2> QED
    BY <2>1
<1>2. ASSUME NEW n \in Nat, n \in Has
      PROVE  n + 1 \in Has
  <2>1. PICK f \in [Nat -> V] : Part(n, f)
    BY <1>2
  <2> DEFINE g == [k \in Nat |-> IF k = n + 1 THEN s[<<n, f[n]>>] ELSE f[k]]
  <2>2. <<n, f[n]>> \in Nat \X V
    OBVIOUS
  <2>3. g \in [Nat -> V]
    BY <2>2
  <2>4. g[0] = a /\ g[n + 1] = s[<<n, f[n]>>] /\ \A k \in Nat : k <= n => g[k] = f[k]
    BY <2>1
  <2> HIDE DEF g
  <2>5. ASSUME NEW k \in Nat, k < n + 1
        PROVE  g[k + 1] = s[<<k, g[k]>>]
    <3>1. CASE k = n
      BY <2>4, <3>1
    <3>2. CASE k < n
      <4>1. g[k] = f[k] /\ g[k + 1] = f[k + 1]
        BY <2>4, <3>2
      <4> QED
        BY <2>1, <3>2, <4>1
    <3> QED
      BY <2>5, <3>1, <3>2
  <2>6. Part(n + 1, g)
    BY <2>4, <2>5
  <2> QED
    BY <2>3, <2>6
<1>3. \A n \in Nat : \E f \in [Nat -> V] : Part(n, f)
  <2> HIDE DEF Part
  <2>1. \A n \in Nat : n \in Has
    <3> HIDE DEF Has
    <3> QED
      BY <1>1, <1>2, AllNat
  <2> QED
    BY <2>1
<1> DEFINE p == [n \in Nat |-> CHOOSE f \in [Nat -> V] : Part(n, f)]
<1>4. \A n \in Nat : p[n] \in [Nat -> V] /\ Part(n, p[n])
  <2> HIDE DEF Part
  <2> QED
    BY <1>3
<1> HIDE DEF p

\* Two parts agree as far as both go.
<1>5. ASSUME NEW m \in Nat, NEW n \in Nat, m <= n
      PROVE  \A k \in Nat : k <= m => p[m][k] = p[n][k]
  <2> DEFINE S == {k \in Nat : k <= m => p[m][k] = p[n][k]}
  <2>1. 0 \in S
    BY <1>4
  <2>2. ASSUME NEW k \in Nat, k \in S
        PROVE  k + 1 \in S
    <3> SUFFICES ASSUME k + 1 <= m
                 PROVE  p[m][k + 1] = p[n][k + 1]
      OBVIOUS
    <3>1. p[m][k] = p[n][k] /\ k < m /\ k < n
      BY <1>5, <2>2
    <3>2. p[m][k + 1] = s[<<k, p[m][k]>>]
      BY <1>4, <3>1
    <3>3. p[n][k + 1] = s[<<k, p[n][k]>>]
      BY <1>4, <3>1
    <3> QED
      BY <3>1, <3>2, <3>3
  <2>3. \A k \in Nat : k \in S
    <3> HIDE DEF S
    <3> QED
      BY <2>1, <2>2, AllNat
  <2> QED
    BY <2>3
<1> DEFINE h == [k \in Nat |-> p[k][k]]
<1>6. h \in [Nat -> V]
  BY <1>4
<1>7. h[0] = a
  BY <1>4
<1>8. ASSUME NEW k \in Nat
      PROVE  h[k + 1] = s[<<k, h[k]>>]
  <2>1. p[k + 1][k + 1] = s[<<k, p[k + 1][k]>>]
    BY <1>4
  <2>2. p[k + 1][k] = p[k][k]
    BY <1>5
  <2> QED
    BY <2>1, <2>2
<1> HIDE DEF h
<1> QED
  BY <1>6, <1>7, <1>8 DEF Iterates

-----------------------------------------------------------------------------
(* Sets in order.                                                           *)

OrderedBy(S, R) ==
  [i \in 1..Cardinality(S) |-> CHOOSE x \in S : Cardinality({y \in S : <<y, x>> \in R}) = i - 1]

StrictOrder(S, R) ==
  /\ \A x \in S : <<x, x>> \notin R
  /\ \A x, y, z \in S : <<x, y>> \in R /\ <<y, z>> \in R => <<x, z>> \in R
  /\ \A x, y \in S : x = y \/ <<x, y>> \in R \/ <<y, x>> \in R

\* s lists the members of S, each once and as R has them.
Lists(s, S, R) ==
  /\ s \in [1..Cardinality(S) -> S] /\ Cardinality(S) \in Nat
  /\ \A x \in S : \E i \in 1..Cardinality(S) : s[i] = x
  /\ \A i, j \in 1..Cardinality(S) : i < j <=> <<s[i], s[j]>> \in R

LEMMA OrderedLists ==
  ASSUME NEW S, IsFiniteSet(S), NEW R, StrictOrder(S, R)
  PROVE  Lists(OrderedBy(S, R), S, R)
<1> DEFINE n == Cardinality(S)
           Below(x) == {y \in S : <<y, x>> \in R}
           s == OrderedBy(S, R)
<1>1. n \in Nat
  BY FS_CardinalityType
<1>2. ASSUME NEW x \in S
      PROVE  IsFiniteSet(Below(x)) /\ Cardinality(Below(x)) \in 0..(n - 1)
  <2>1. IsFiniteSet(S \ {x}) /\ Cardinality(S \ {x}) = n - 1
    BY FS_RemoveElement
  <2>2. Below(x) \in SUBSET (S \ {x})
    BY DEF StrictOrder
  <2>3. IsFiniteSet(Below(x)) /\ Cardinality(Below(x)) <= n - 1
    <3> HIDE DEF Below
    <3> QED
      BY <2>1, <2>2, FS_Subset
  <2>4. Cardinality(Below(x)) \in Nat
    BY <2>3, FS_CardinalityType
  <2> QED
    BY <1>1, <2>3, <2>4
<1>3. ASSUME NEW x \in S, NEW y \in S, <<x, y>> \in R
      PROVE  Cardinality(Below(x)) < Cardinality(Below(y))
  <2>1. Below(x) \in SUBSET Below(y) /\ x \in Below(y) /\ x \notin Below(x)
    BY <1>3 DEF StrictOrder
  <2>2. IsFiniteSet(Below(y)) /\ Cardinality(Below(x)) \in Nat /\ Cardinality(Below(y)) \in Nat
    BY <1>1, <1>2
  <2> HIDE DEF Below
  <2>3. /\ Cardinality(Below(x)) <= Cardinality(Below(y))
        /\ Cardinality(Below(y)) = Cardinality(Below(x)) => Below(y) = Below(x)
    BY <2>1, <2>2, FS_Subset
  <2>4. Cardinality(Below(x)) # Cardinality(Below(y))
    BY <2>1, <2>3
  <2> QED
    BY <2>2, <2>3, <2>4
<1> DEFINE rank == [x \in S |-> Cardinality(Below(x)) + 1]
<1> HIDE DEF Below
<1>4. rank \in [S -> 1..n]
  BY <1>1, <1>2
<1>5. \A x, y \in S : <<x, y>> \in R <=> rank[x] < rank[y]
  <2> SUFFICES ASSUME NEW x \in S, NEW y \in S
               PROVE  <<x, y>> \in R <=> rank[x] < rank[y]
    OBVIOUS
  <2>1. <<x, y>> \in R => rank[x] < rank[y]
    BY <1>2, <1>3
  <2>2. <<y, x>> \in R => rank[y] < rank[x]
    BY <1>2, <1>3
  <2>3. rank[x] \in Nat /\ rank[y] \in Nat
    BY <1>4
  <2> QED
    BY <2>1, <2>2, <2>3 DEF StrictOrder
<1>6. \A x, y \in S : rank[x] = rank[y] => x = y
  <2> HIDE DEF rank
  <2> QED
    BY <1>4, <1>5 DEF StrictOrder
<1>7. \A i \in 1..n : \E x \in S : rank[x] = i
  <2>1. IsFiniteSet(1..n) /\ Cardinality(1..n) = n
    BY <1>1, FS_Interval
  <2> HIDE DEF rank
  <2>2. rank \in Injection(S, 1..n)
    BY <1>4, <1>6 DEF Injection, IsInjective
  <2>3. rank \in Surjection(S, 1..n)
    <3>1. Cardinality(S) = Cardinality(1..n)
      BY <2>1
    <3> QED
      BY <2>1, <2>2, <3>1, FS_Injection
  <2> QED
    BY <2>3 DEF Surjection
<1>8. \A i \in 1..n : s[i] \in S /\ rank[s[i]] = i
  <2> SUFFICES ASSUME NEW i \in 1..n
               PROVE  s[i] \in S /\ rank[s[i]] = i
    OBVIOUS
  <2>1. s[i] = CHOOSE x \in S : Cardinality(Below(x)) = i - 1
    BY DEF OrderedBy, Below
  <2>2. PICK x \in S : rank[x] = i
    BY <1>7
  <2>3. Cardinality(Below(x)) = i - 1
    BY <1>2, <2>2
  <2>4. s[i] \in S /\ Cardinality(Below(s[i])) = i - 1
    <3> HIDE DEF s
    <3> QED
      BY <2>1, <2>3
  <2> QED
    BY <2>4
<1>9. s \in [1..n -> S]
  <2>1. s = [i \in 1..n |-> CHOOSE x \in S : Cardinality({y \in S : <<y, x>> \in R}) = i - 1]
    BY DEF OrderedBy
  <2>2. DOMAIN s = 1..n /\ s = [i \in DOMAIN s |-> s[i]]
    BY <2>1
  <2> QED
    BY <1>8, <2>2
<1> HIDE DEF rank, s
<1>10. \A x \in S : \E i \in 1..n : s[i] = x
  BY <1>4, <1>6, <1>8
<1>11. \A i, j \in 1..n : i < j <=> <<s[i], s[j]>> \in R
  BY <1>5, <1>8
<1> QED
  BY <1>1, <1>9, <1>10, <1>11 DEF Lists, s

LEMMA ListsAreSequences ==
  ASSUME NEW S, NEW R, NEW s, StrictOrder(S, R), Lists(s, S, R)
  PROVE  s \in Seq(S) /\ Len(s) = Cardinality(S) /\ DOMAIN s = 1..Len(s) /\ ToSet(s) = S /\ IsInjective(s)
<1>1. s \in Seq(S) /\ Len(s) = Cardinality(S) /\ DOMAIN s = 1..Len(s)
  BY DEF Lists
<1>2. ToSet(s) = S
  BY <1>1 DEF Lists, ToSet
<1>3. ASSUME NEW i \in DOMAIN s, NEW j \in DOMAIN s, s[i] = s[j]
      PROVE  i = j
  <2>1. ~ (i < j) /\ ~ (j < i)
    BY <1>1, <1>3 DEF Lists, StrictOrder
  <2> QED
    BY <1>1, <2>1 DEF Lists
<1> QED
  BY <1>1, <1>2, <1>3 DEF IsInjective

\* Where the members that are picked stand in the sequence.
PickedAt(at, s, K) ==
  /\ Cardinality(K) \in Nat /\ at \in [1..Cardinality(K) -> K]
  /\ Picked(s, K) = [n \in 1..Cardinality(K) |-> s[at[n]]]
  /\ \A i, j \in 1..Cardinality(K) : i < j <=> at[i] < at[j]
  /\ \A k \in K : \E i \in 1..Cardinality(K) : at[i] = k

LEMMA PickedInPlace ==
  ASSUME NEW m \in Nat, NEW K \in SUBSET (1..m), NEW s
  PROVE  \E at : PickedAt(at, s, K)
<1> DEFINE R == {p \in K \X K : p[1] < p[2]}
           at == OrderedBy(K, R)
           n == Cardinality(K)
<1>1. IsFiniteSet(K)
  <2>1. IsFiniteSet(1..m)
    BY FS_Interval
  <2> QED
    BY <2>1, FS_Subset
<1>2. \A x, y \in K : <<x, y>> \in R <=> x < y
  OBVIOUS
<1>3. \A x, y \in K : x \in Nat /\ y \in Nat
  OBVIOUS
<1> HIDE DEF R
<1>4. StrictOrder(K, R)
  BY <1>2, <1>3 DEF StrictOrder
<1>5. Lists(at, K, R)
  BY <1>1, <1>4, OrderedLists
<1>6. n \in Nat
  BY <1>1, FS_CardinalityType
<1>7. ASSUME NEW k \in K
      PROVE  Cardinality(K \cap 1..k) = Cardinality({y \in K : <<y, k>> \in R}) + 1
  <2> DEFINE B == {y \in K : <<y, k>> \in R}
  <2>1. K \cap 1..k = B \cup {k} /\ k \notin B
    <3>1. \A y \in K : y \in 1..k <=> y < k \/ y = k
      <4>1. \A y \in K : y \in Int /\ 1 <= y
        OBVIOUS
      <4> QED
        BY <4>1
    <3>2. \A y : y \in B <=> y \in K /\ y < k
      BY <1>2
    <3>3. \A y \in K : y \in 1..k <=> y \in B \cup {k}
      BY <3>1, <3>2
    <3>4. B \cup {k} \subseteq K
      OBVIOUS
    <3> HIDE DEF B
    <3>5. K \cap 1..k = B \cup {k}
      BY <3>3, <3>4
    <3> QED
      BY <1>3, <3>2, <3>5
  <2>2. B \in SUBSET K
    OBVIOUS
  <2> HIDE DEF B
  <2>3. IsFiniteSet(B)
    BY <1>1, <2>2, FS_Subset
  <2> QED
    BY <2>1, <2>3, FS_AddElement DEF B
<1>8. ASSUME NEW i \in 1..n
      PROVE  (CHOOSE k \in K : Cardinality(K \cap 1..k) = i) = at[i]
  <2>1. at[i] \in K
    BY <1>5 DEF Lists
  <2>2. \A k \in K : Cardinality({y \in K : <<y, k>> \in R}) \in Nat
    <3> TAKE k \in K
    <3>1. IsFiniteSet({y \in K : <<y, k>> \in R})
      BY <1>1, FS_Subset
    <3> QED
      BY <3>1, FS_CardinalityType
  <2>3. \A k \in K : Cardinality(K \cap 1..k) = i <=> Cardinality({y \in K : <<y, k>> \in R}) = i - 1
    BY <1>6, <1>7, <2>2
  <2>4. at[i] = CHOOSE k \in K : Cardinality({y \in K : <<y, k>> \in R}) = i - 1
    BY DEF OrderedBy
  <2> HIDE DEF at
  <2>5. (CHOOSE k \in K : Cardinality(K \cap 1..k) = i)
          = CHOOSE k \in K : Cardinality({y \in K : <<y, k>> \in R}) = i - 1
    BY <2>3, Zenon
  <2> QED
    BY <2>4, <2>5
<1> HIDE DEF at
<1>9. Picked(s, K) = [i \in 1..n |-> s[at[i]]]
  <2>1. \A i \in 1..n : s[CHOOSE k \in K : Cardinality(K \cap 1..k) = i] = s[at[i]]
    BY <1>8
  <2> QED
    BY <2>1, Zenon DEF Picked
<1>10. at \in [1..n -> K]
  BY <1>5 DEF Lists
<1>11. \A i, j \in 1..n : i < j <=> at[i] < at[j]
  BY <1>2, <1>5, <1>10 DEF Lists
<1>12. \A k \in K : \E i \in 1..n : at[i] = k
  BY <1>5 DEF Lists
<1> QED
  BY <1>6, <1>9, <1>10, <1>11, <1>12 DEF PickedAt

\* What is picked from a sequence without repetitions.
LEMMA PickedSequence ==
  ASSUME NEW S, NEW s \in Seq(S), NEW K \in SUBSET DOMAIN s
  PROVE  /\ Picked(s, K) \in Seq(S) /\ Len(Picked(s, K)) = Cardinality(K) /\ Cardinality(K) \in Nat
         /\ ToSet(Picked(s, K)) = {s[k] : k \in K}
         /\ IsInjective(s) => IsInjective(Picked(s, K))
<1>1. Len(s) \in Nat /\ DOMAIN s = 1..Len(s) /\ \A i \in DOMAIN s : s[i] \in S
  OBVIOUS
<1>2. PICK at : PickedAt(at, s, K)
  BY <1>1, PickedInPlace
<1> DEFINE n == Cardinality(K)
           p == Picked(s, K)
<1>3. n \in Nat /\ at \in [1..n -> K] /\ p = [i \in 1..n |-> s[at[i]]]
  BY <1>2 DEF PickedAt
<1>4. \A i \in 1..n : s[at[i]] \in S
  BY <1>1, <1>3
<1> HIDE DEF n, p
<1>5. p \in Seq(S) /\ Len(p) = n /\ DOMAIN p = 1..n
  BY <1>3, <1>4
<1>6. ToSet(p) = {s[k] : k \in K}
  <2>1. \A k \in K : \E i \in 1..n : at[i] = k
    BY <1>2 DEF PickedAt, n
  <2>2. \A i \in 1..n : p[i] = s[at[i]] /\ at[i] \in K
    BY <1>3
  <2>3. ToSet(p) = {p[i] : i \in 1..n}
    BY <1>5 DEF ToSet
  <2> QED
    BY <2>1, <2>2, <2>3
<1>7. ASSUME IsInjective(s)
      PROVE  IsInjective(p)
  <2> SUFFICES ASSUME NEW i \in 1..n, NEW j \in 1..n, p[i] = p[j]
               PROVE  i = j
    BY <1>5 DEF IsInjective
  <2>1. at[i] \in DOMAIN s /\ at[j] \in DOMAIN s /\ s[at[i]] = s[at[j]]
    BY <1>3
  <2>2. at[i] = at[j]
    BY <1>7, <2>1 DEF IsInjective
  <2>3. ~ (i < j) /\ ~ (j < i)
    <3>1. at[i] \in Nat
      BY <1>1, <2>1
    <3> QED
      BY <1>2, <2>2, <3>1 DEF PickedAt, n
  <2> QED
    BY <1>3, <2>3
<1> QED
  BY <1>3, <1>5, <1>6, <1>7 DEF n, p

-----------------------------------------------------------------------------
(* Sequences without repetitions.                                           *)

LEMMA TailOfInjective ==
  ASSUME NEW S, NEW s \in Seq(S), s # <<>>, IsInjective(s)
  PROVE  /\ Head(s) = s[1] /\ 1 \in DOMAIN s /\ Head(s) \in S /\ Tail(s) \in Seq(S)
         /\ DOMAIN Tail(s) = 1..(Len(s) - 1) /\ \A i \in DOMAIN Tail(s) : i + 1 \in DOMAIN s /\ Tail(s)[i] = s[i + 1]
         /\ IsInjective(Tail(s))
         /\ ToSet(s) = {Head(s)} \cup ToSet(Tail(s)) /\ Head(s) \notin ToSet(Tail(s))
<1>1. Len(s) \in Nat \ {0} /\ DOMAIN s = 1..Len(s)
  OBVIOUS
<1>2. Head(s) = s[1] /\ 1 \in DOMAIN s /\ Head(s) \in S /\ Tail(s) \in Seq(S)
  BY <1>1
<1>3. DOMAIN Tail(s) = 1..(Len(s) - 1) /\ \A i \in DOMAIN Tail(s) : i + 1 \in DOMAIN s /\ Tail(s)[i] = s[i + 1]
  BY <1>1
<1>4. IsInjective(Tail(s))
  <2> SUFFICES ASSUME NEW i \in DOMAIN Tail(s), NEW j \in DOMAIN Tail(s), Tail(s)[i] = Tail(s)[j]
               PROVE  i = j
    BY DEF IsInjective
  <2>1. i + 1 \in DOMAIN s /\ j + 1 \in DOMAIN s /\ s[i + 1] = s[j + 1]
    BY <1>3
  <2>2. i + 1 = j + 1
    BY <2>1 DEF IsInjective
  <2> QED
    BY <1>1, <1>3, <2>2
<1>5. Head(s) \notin ToSet(Tail(s))
  <2> SUFFICES ASSUME NEW i \in DOMAIN Tail(s), Tail(s)[i] = Head(s)
               PROVE  FALSE
    BY DEF ToSet
  <2>1. i + 1 \in DOMAIN s /\ s[i + 1] = s[1]
    BY <1>2, <1>3
  <2>2. i + 1 = 1
    BY <1>2, <2>1 DEF IsInjective
  <2> QED
    BY <1>1, <1>3, <2>2
<1>6. ASSUME NEW x \in ToSet(s)
      PROVE  x \in {Head(s)} \cup ToSet(Tail(s))
  <2>1. PICK i \in DOMAIN s : s[i] = x
    BY DEF ToSet
  <2>2. CASE i = 1
    BY <1>2, <2>1, <2>2
  <2>3. CASE i # 1
    <3>1. i - 1 \in DOMAIN Tail(s) /\ i - 1 + 1 = i
      BY <1>1, <1>3, <2>3
    <3>2. Tail(s)[i - 1] = x
      BY <1>3, <2>1, <3>1
    <3> QED
      BY <3>1, <3>2 DEF ToSet
  <2> QED
    BY <2>2, <2>3
<1>7. ASSUME NEW x \in {Head(s)} \cup ToSet(Tail(s))
      PROVE  x \in ToSet(s)
  <2>1. CASE x = Head(s)
    BY <1>2, <2>1 DEF ToSet
  <2>2. CASE x \in ToSet(Tail(s))
    <3>1. PICK i \in DOMAIN Tail(s) : Tail(s)[i] = x
      BY <2>2 DEF ToSet
    <3> QED
      BY <1>3, <3>1 DEF ToSet
  <2> QED
    BY <1>7, <2>1, <2>2
<1>8. ToSet(s) = {Head(s)} \cup ToSet(Tail(s))
  BY <1>6, <1>7
<1> QED
  BY <1>2, <1>3, <1>4, <1>5, <1>8

LEMMA JoinOfInjectives ==
  ASSUME NEW S, NEW s \in Seq(S), NEW t \in Seq(S), IsInjective(s), IsInjective(t), ToSet(s) \cap ToSet(t) = {}
  PROVE  /\ s \o t \in Seq(S) /\ IsInjective(s \o t) /\ ToSet(s \o t) = ToSet(s) \cup ToSet(t)
         /\ DOMAIN (s \o t) = 1..(Len(s) + Len(t)) /\ Len(s) \in Nat /\ Len(t) \in Nat
         /\ \A i \in 1..Len(s) : i \in DOMAIN s /\ (s \o t)[i] = s[i]
         /\ \A i \in (Len(s) + 1)..(Len(s) + Len(t)) : i - Len(s) \in DOMAIN t /\ (s \o t)[i] = t[i - Len(s)]
<1> DEFINE m == Len(s)
           n == Len(t)
           u == s \o t
<1>1. m \in Nat /\ n \in Nat /\ DOMAIN s = 1..m /\ DOMAIN t = 1..n
  OBVIOUS
<1>2. u \in Seq(S) /\ DOMAIN u = 1..(m + n)
  BY <1>1
<1>3. \A i \in 1..m : i \in DOMAIN s /\ u[i] = s[i]
  BY <1>1
<1>4. \A i \in (m + 1)..(m + n) : i - m \in DOMAIN t /\ u[i] = t[i - m]
  BY <1>1
<1> HIDE DEF m, n, u
<1>5. \A i \in DOMAIN u : i \in 1..m \/ i \in (m + 1)..(m + n)
  BY <1>1, <1>2
<1>6. \A i \in 1..m : u[i] \in ToSet(s)
  BY <1>3 DEF ToSet
<1>7. \A i \in (m + 1)..(m + n) : u[i] \in ToSet(t)
  BY <1>4 DEF ToSet
<1>8. ASSUME NEW i \in DOMAIN u, NEW j \in DOMAIN u, u[i] = u[j]
      PROVE  i = j
  <2>1. CASE i \in 1..m /\ j \in 1..m
    BY <1>3, <1>8, <2>1 DEF IsInjective
  <2>2. CASE i \in (m + 1)..(m + n) /\ j \in (m + 1)..(m + n)
    <3>1. i - m = j - m
      BY <1>4, <1>8, <2>2 DEF IsInjective
    <3> QED
      BY <1>1, <2>2, <3>1
  <2> QED
    BY <1>5, <1>6, <1>7, <1>8, <2>1, <2>2
<1>9. \A x \in ToSet(s) : x \in ToSet(u)
  <2> SUFFICES ASSUME NEW i \in DOMAIN s
               PROVE  s[i] \in ToSet(u)
    BY DEF ToSet
  <2>1. i \in DOMAIN u /\ u[i] = s[i]
    BY <1>1, <1>2, <1>3
  <2> QED
    BY <2>1 DEF ToSet
<1>10. \A x \in ToSet(t) : x \in ToSet(u)
  <2> SUFFICES ASSUME NEW i \in DOMAIN t
               PROVE  t[i] \in ToSet(u)
    BY DEF ToSet
  <2>1. i + m \in (m + 1)..(m + n) /\ i + m - m = i
    BY <1>1
  <2>2. i + m \in DOMAIN u /\ u[i + m] = t[i]
    BY <1>1, <1>2, <1>4, <2>1
  <2> QED
    BY <2>2 DEF ToSet
<1>11. \A x \in ToSet(u) : x \in ToSet(s) \cup ToSet(t)
  <2> SUFFICES ASSUME NEW i \in DOMAIN u
               PROVE  u[i] \in ToSet(s) \cup ToSet(t)
    BY DEF ToSet
  <2> QED
    BY <1>5, <1>6, <1>7
<1>12. ToSet(u) = ToSet(s) \cup ToSet(t)
  BY <1>9, <1>10, <1>11
<1>13. IsInjective(u)
  BY <1>8 DEF IsInjective
<1> QED
  BY <1>1, <1>2, <1>3, <1>4, <1>12, <1>13 DEF m, n, u

-----------------------------------------------------------------------------
(* Links in order.                                                          *)

LEMMA AscendingIsRight ==
  ASSUME NEW S \in SUBSET Notes
  PROVE  Ascending(S) \in Seq(S) /\ ToSet(Ascending(S)) = S /\ IsInjective(Ascending(S))
<1> DEFINE R == {p \in S \X S : p[1] < p[2]}
<1>1. IsFiniteSet(S)
  BY NotesAssumption, FS_Subset
<1>2. \A x, y \in S : <<x, y>> \in R <=> x < y
  OBVIOUS
<1>3. \A x \in S : x \in Nat
  BY NotesAssumption
<1> HIDE DEF R
<1>4. StrictOrder(S, R)
  BY <1>2, <1>3 DEF StrictOrder
<1>5. Ascending(S) = OrderedBy(S, R)
  <2>1. \A x \in S : {y \in S : y < x} = {y \in S : <<y, x>> \in R}
    BY <1>2
  <2>2. Ascending(S) = [i \in 1..Cardinality(S) |-> CHOOSE x \in S : Cardinality({y \in S : y < x}) = i - 1]
    BY DEF Ascending, Ordered
  <2>3. \A i : (CHOOSE x \in S : Cardinality({y \in S : y < x}) = i - 1)
                = CHOOSE x \in S : Cardinality({y \in S : <<y, x>> \in R}) = i - 1
    BY <2>1, Zenon
  <2> QED
    BY <2>2, <2>3, Zenon DEF OrderedBy
<1> QED
  BY <1>1, <1>4, <1>5, OrderedLists, ListsAreSequences

\* What a caller sees of the links.
IsGraph(g) == g.readable \subseteq Notes /\ \A l \in g.links : l.from \in g.readable /\ l.to \in g.readable

LEMMA GraphOfIsGraph ==
  ASSUME NEW links, NEW readable \in SUBSET Notes
  PROVE  IsGraph(GraphOf(links, readable))
BY DEF GraphOf, IsGraph

Targets(g, n) == {l.to : l \in {k \in g.links : k.from = n}}
Sources(g, n) == {l.from : l \in {k \in g.links : k.to = n}}

\* Links lead to readable notes only, each listed once.
LEMMA NeighborsAreTargets ==
  ASSUME NEW g, IsGraph(g), NEW n
  PROVE  /\ GetNeighbors(g, n) \in Seq(g.readable) /\ ToSet(GetNeighbors(g, n)) = Targets(g, n)
         /\ IsInjective(GetNeighbors(g, n))
         /\ GetBacklinks(g, n) \in Seq(g.readable) /\ ToSet(GetBacklinks(g, n)) = Sources(g, n)
         /\ IsInjective(GetBacklinks(g, n))
<1>1. Targets(g, n) \subseteq g.readable /\ Sources(g, n) \subseteq g.readable /\ g.readable \subseteq Notes
  BY DEF IsGraph, Targets, Sources
<1>2. GetNeighbors(g, n) = Ascending(Targets(g, n)) /\ GetBacklinks(g, n) = Ascending(Sources(g, n))
  BY DEF GetNeighbors, GetBacklinks, Targets, Sources
<1>3. Targets(g, n) \in SUBSET Notes /\ Sources(g, n) \in SUBSET Notes
  BY <1>1
<1>4. /\ GetNeighbors(g, n) \in Seq(Targets(g, n)) /\ ToSet(GetNeighbors(g, n)) = Targets(g, n)
      /\ IsInjective(GetNeighbors(g, n))
  BY <1>2, <1>3, AscendingIsRight
<1>5. /\ GetBacklinks(g, n) \in Seq(Sources(g, n)) /\ ToSet(GetBacklinks(g, n)) = Sources(g, n)
      /\ IsInjective(GetBacklinks(g, n))
  BY <1>2, <1>3, AscendingIsRight
<1>6. Seq(Targets(g, n)) \subseteq Seq(g.readable) /\ Seq(Sources(g, n)) \subseteq Seq(g.readable)
  <2>1. \A A, B : A \subseteq B => Seq(A) \subseteq Seq(B)
    OBVIOUS
  <2> QED
    BY <1>1, <2>1
<1> QED
  BY <1>4, <1>5, <1>6

\* A step of a traversal goes along the links, against them or both ways.
LEMMA TraversalStep ==
  ASSUME NEW g, IsGraph(g), NEW n, NEW direction \in Directions
  PROVE  LET t == TraversalNeighbors(g, n, direction)
         IN /\ t \in Seq(g.readable) /\ IsInjective(t)
            /\ ToSet(t) = (IF direction = "incoming" THEN {} ELSE Targets(g, n))
                            \cup (IF direction = "outgoing" THEN {} ELSE Sources(g, n))
<1> DEFINE out == IF direction = "incoming" THEN <<>> ELSE GetNeighbors(g, n)
           in == IF direction = "outgoing" THEN <<>> ELSE GetBacklinks(g, n)
           K == {i \in DOMAIN in : in[i] \notin ToSet(out)}
           t == TraversalNeighbors(g, n, direction)
<1>1. <<>> \in Seq(g.readable) /\ ToSet(<<>>) = {} /\ IsInjective(<<>>)
  BY DEF ToSet, IsInjective
<1>2. out \in Seq(g.readable) /\ IsInjective(out)
      /\ ToSet(out) = IF direction = "incoming" THEN {} ELSE Targets(g, n)
  BY <1>1, NeighborsAreTargets
<1>3. in \in Seq(g.readable) /\ IsInjective(in)
      /\ ToSet(in) = IF direction = "outgoing" THEN {} ELSE Sources(g, n)
  BY <1>1, NeighborsAreTargets
<1>4. t = out \o Picked(in, K)
  BY DEF TraversalNeighbors
<1>5. K \in SUBSET DOMAIN in
  OBVIOUS
<1>6. {in[k] : k \in K} = ToSet(in) \ ToSet(out)
  BY DEF ToSet
<1> HIDE DEF out, in, K
<1>7. /\ Picked(in, K) \in Seq(g.readable) /\ IsInjective(Picked(in, K))
      /\ ToSet(Picked(in, K)) = ToSet(in) \ ToSet(out)
  BY <1>3, <1>5, <1>6, PickedSequence
<1>8. ToSet(out) \cap ToSet(Picked(in, K)) = {}
  BY <1>7
<1>9. t \in Seq(g.readable) /\ IsInjective(t) /\ ToSet(t) = ToSet(out) \cup ToSet(Picked(in, K))
  BY <1>2, <1>4, <1>7, <1>8, JoinOfInjectives
<1> HIDE DEF t
<1>10. ToSet(t) = ToSet(out) \cup ToSet(in)
  BY <1>7, <1>9
<1> QED
  BY <1>2, <1>3, <1>9, <1>10 DEF t

-----------------------------------------------------------------------------
(* Breadth first.                                                           *)

Maps(T) == UNION {[S -> T] : S \in SUBSET Notes}
Searches == [queue : Seq(Notes), depth : Maps(Nat), parent : Maps(Notes)]

\* Where each note leads.
NextOK(next) == next \in [Notes -> Seq(Notes)] /\ \A n \in Notes : IsInjective(next[n])

Done(w) == DOMAIN w.depth \ ToSet(w.queue)

\* Each note is queued once, with its depth; the depths of the queue ascend and
\* differ by one at most.
QueueOK(w) ==
  /\ IsInjective(w.queue) /\ ToSet(w.queue) \subseteq DOMAIN w.depth
  /\ \A i, j \in DOMAIN w.queue : i <= j =>
       w.depth[w.queue[i]] <= w.depth[w.queue[j]] /\ w.depth[w.queue[j]] <= w.depth[w.queue[i]] + 1

\* A note that was found is one link and one step away from its parent.
ParentsOK(w, starts, next, max) ==
  /\ ToSet(starts) \subseteq DOMAIN w.depth /\ \A n \in ToSet(starts) : w.depth[n] = 0
  /\ DOMAIN w.parent = DOMAIN w.depth \ ToSet(starts)
  /\ \A n \in DOMAIN w.parent :
       /\ w.parent[n] \in DOMAIN w.depth /\ n \in ToSet(next[w.parent[n]])
       /\ w.depth[n] = w.depth[w.parent[n]] + 1 /\ w.depth[n] <= max

\* What was visited is no deeper than what is queued, and all it leads to was
\* found, one step further at most.
DoneOK(w, next, max) ==
  /\ \A n \in Done(w) : \A i \in DOMAIN w.queue : w.depth[n] <= w.depth[w.queue[i]]
  /\ \A n \in Done(w) : w.depth[n] < max =>
       \A m \in ToSet(next[n]) : m \in DOMAIN w.depth /\ w.depth[m] <= w.depth[n] + 1

SearchOK(w, starts, next, max) ==
  w \in Searches /\ QueueOK(w) /\ ParentsOK(w, starts, next, max) /\ DoneOK(w, next, max)

LEMMA MapsType ==
  ASSUME NEW T, NEW f
  PROVE  f \in Maps(T) <=> f \in [DOMAIN f -> T] /\ DOMAIN f \subseteq Notes
BY DEF Maps

LEMMA SearchStarts ==
  ASSUME NEW starts \in Seq(Notes), IsInjective(starts), NEW next, NEW max \in Nat
  PROVE  SearchOK(AtStart(starts), starts, next, max)
<1> DEFINE w == AtStart(starts)
<1>1. /\ w.queue = starts /\ w.depth = [n \in ToSet(starts) |-> 0] /\ w.parent = <<>>
      /\ w = [queue |-> w.queue, depth |-> w.depth, parent |-> w.parent]
  BY DEF AtStart
<1> HIDE DEF w
<1>2. ToSet(starts) \subseteq Notes /\ \A i \in DOMAIN starts : starts[i] \in ToSet(starts)
  BY DEF ToSet
<1>3. w.depth \in Maps(Nat) /\ DOMAIN w.depth = ToSet(starts)
  BY <1>1, <1>2, MapsType
<1>4. w.parent \in Maps(Notes) /\ DOMAIN w.parent = {}
  <2>1. DOMAIN <<>> = {} /\ <<>> = [x \in {} |-> 0]
    OBVIOUS
  <2>2. <<>> \in [{} -> Notes]
    BY <2>1
  <2> QED
    BY <1>1, <2>1, <2>2 DEF Maps
<1>5. w \in Searches
  BY <1>1, <1>3, <1>4 DEF Searches
<1>6. QueueOK(w)
  BY <1>1, <1>2, <1>3 DEF QueueOK
<1>7. ParentsOK(w, starts, next, max)
  BY <1>1, <1>3, <1>4 DEF ParentsOK
<1>8. Done(w) = {}
  BY <1>1, <1>3 DEF Done
<1>9. DoneOK(w, next, max)
  BY <1>8 DEF DoneOK
<1> QED
  BY <1>5, <1>6, <1>7, <1>9 DEF SearchOK, w

\* The first of the queue is visited.
LEMMA HeadIsDone ==
  ASSUME NEW w, w \in Searches, QueueOK(w), w.queue # <<>>
  PROVE  /\ Head(w.queue) = w.queue[1] /\ Head(w.queue) \in Notes \cap DOMAIN w.depth
         /\ Head(w.queue) \notin Done(w)
         /\ Done(w) \cup {Head(w.queue)} = DOMAIN w.depth \ ToSet(Tail(w.queue))
         /\ w.depth \in [DOMAIN w.depth -> Nat] /\ w.parent \in [DOMAIN w.parent -> Notes]
         /\ DOMAIN w.depth \subseteq Notes /\ DOMAIN w.parent \subseteq Notes
         /\ w.queue \in Seq(Notes) /\ IsInjective(w.queue) /\ \A i \in DOMAIN w.queue : w.queue[i] \in DOMAIN w.depth
<1>1. w.queue \in Seq(Notes) /\ w.depth \in Maps(Nat) /\ w.parent \in Maps(Notes)
  BY DEF Searches
<1>2. /\ w.depth \in [DOMAIN w.depth -> Nat] /\ DOMAIN w.depth \subseteq Notes
      /\ w.parent \in [DOMAIN w.parent -> Notes] /\ DOMAIN w.parent \subseteq Notes
  BY <1>1, MapsType
<1>3. IsInjective(w.queue) /\ ToSet(w.queue) \subseteq DOMAIN w.depth
  BY DEF QueueOK
<1>4. /\ Head(w.queue) = w.queue[1] /\ Head(w.queue) \in Notes
      /\ ToSet(w.queue) = {Head(w.queue)} \cup ToSet(Tail(w.queue)) /\ Head(w.queue) \notin ToSet(Tail(w.queue))
  BY <1>1, <1>3, TailOfInjective
<1>5. \A i \in DOMAIN w.queue : w.queue[i] \in DOMAIN w.depth
  BY <1>3 DEF ToSet
<1> QED
  BY <1>1, <1>2, <1>3, <1>4, <1>5 DEF Done

LEMMA TooFarKeeps ==
  ASSUME NEW starts, NEW next, NEW max \in Nat, NEW w, SearchOK(w, starts, next, max), w.queue # <<>>,
         w.depth[Head(w.queue)] >= max
  PROVE  LET v == [w EXCEPT !.queue = Tail(@)]
         IN SearchOK(v, starts, next, max) /\ Done(v) = Done(w) \cup {Head(w.queue)}
<1> DEFINE v == [w EXCEPT !.queue = Tail(@)]
           q == w.queue
           n == Head(w.queue)
<1>1. w \in Searches /\ QueueOK(w) /\ ParentsOK(w, starts, next, max) /\ DoneOK(w, next, max)
  BY DEF SearchOK
<1>2. v.queue = Tail(q) /\ v.depth = w.depth /\ v.parent = w.parent
  BY <1>1 DEF Searches
<1>3. v = [queue |-> Tail(q), depth |-> w.depth, parent |-> w.parent]
  BY <1>1 DEF Searches
<1> HIDE DEF v
<1>4. /\ n = q[1] /\ n \in DOMAIN w.depth /\ n \notin Done(w)
      /\ Done(w) \cup {n} = DOMAIN w.depth \ ToSet(Tail(q)) /\ w.depth \in [DOMAIN w.depth -> Nat]
      /\ q \in Seq(Notes) /\ IsInjective(q)
      /\ \A i \in DOMAIN q : q[i] \in DOMAIN w.depth
  BY <1>1, HeadIsDone
<1>5. /\ Tail(q) \in Seq(Notes) /\ DOMAIN Tail(q) = 1..(Len(q) - 1)
      /\ \A i \in DOMAIN Tail(q) : i + 1 \in DOMAIN q /\ Tail(q)[i] = q[i + 1]
      /\ IsInjective(Tail(q)) /\ ToSet(Tail(q)) \subseteq ToSet(q) /\ 1 \in DOMAIN q
  BY <1>4, TailOfInjective
<1>6. v \in Searches
  BY <1>1, <1>3, <1>5 DEF Searches
<1>7. QueueOK(v)
  <2>1. \A i \in DOMAIN Tail(q) : i \in Nat
    BY <1>5
  <2>2. ASSUME NEW i \in DOMAIN Tail(q), NEW j \in DOMAIN Tail(q), i <= j
        PROVE  w.depth[Tail(q)[i]] <= w.depth[Tail(q)[j]] /\ w.depth[Tail(q)[j]] <= w.depth[Tail(q)[i]] + 1
    <3>1. i + 1 \in DOMAIN q /\ j + 1 \in DOMAIN q /\ i + 1 <= j + 1
      BY <1>5, <2>1, <2>2
    <3>2. w.depth[q[i + 1]] <= w.depth[q[j + 1]] /\ w.depth[q[j + 1]] <= w.depth[q[i + 1]] + 1
      BY <1>1, <3>1 DEF QueueOK
    <3> QED
      BY <1>5, <3>2
  <2>3. ToSet(Tail(q)) \subseteq DOMAIN w.depth
    BY <1>1, <1>5 DEF QueueOK
  <2> QED
    BY <1>2, <1>5, <2>2, <2>3 DEF QueueOK
<1>8. ParentsOK(v, starts, next, max)
  BY <1>1, <1>2 DEF ParentsOK
<1>9. Done(v) = Done(w) \cup {n}
  BY <1>2, <1>4 DEF Done
<1>10. DoneOK(v, next, max)
  <2>1. ASSUME NEW m \in Done(v), NEW i \in DOMAIN Tail(q)
        PROVE  w.depth[m] <= w.depth[Tail(q)[i]]
    <3>1. i + 1 \in DOMAIN q /\ Tail(q)[i] = q[i + 1] /\ 1 <= i + 1
      BY <1>5
    <3>2. CASE m \in Done(w)
      BY <1>1, <3>1, <3>2 DEF DoneOK
    <3>3. CASE m = n
      BY <1>1, <1>4, <1>5, <3>1, <3>3 DEF QueueOK
    <3> QED
      BY <1>9, <3>2, <3>3
  <2>2. ASSUME NEW m \in Done(v), w.depth[m] < max
        PROVE  \A k \in ToSet(next[m]) : k \in DOMAIN w.depth /\ w.depth[k] <= w.depth[m] + 1
    <3>1. m # n
      BY <1>4, <2>2
    <3>2. m \in Done(w)
      BY <1>9, <3>1
    <3> QED
      BY <1>1, <2>2, <3>2 DEF DoneOK
  <2> QED
    BY <1>2, <2>1, <2>2 DEF DoneOK
<1> QED
  BY <1>6, <1>7, <1>8, <1>9, <1>10 DEF SearchOK, v

LEMMA QueuedKeeps ==
  ASSUME NEW starts, NEW next, NextOK(next), NEW max \in Nat, NEW w, SearchOK(w, starts, next, max),
         w.queue # <<>>, w.depth[Head(w.queue)] < max
  PROVE  LET v == Queued(w, Tail(w.queue), Head(w.queue), next)
         IN SearchOK(v, starts, next, max) /\ Done(v) = Done(w) \cup {Head(w.queue)}
<1> DEFINE q == w.queue
           n == Head(w.queue)
           K == {i \in DOMAIN next[n] : next[n][i] \notin DOMAIN w.depth}
           found == Picked(next[n], K)
           new == ToSet(found)
           v == Queued(w, Tail(w.queue), Head(w.queue), next)
<1>1. w \in Searches /\ QueueOK(w) /\ ParentsOK(w, starts, next, max) /\ DoneOK(w, next, max)
  BY DEF SearchOK
<1>2. /\ v.queue = Tail(q) \o found
      /\ v.depth = [m \in new \cup DOMAIN w.depth |-> IF m \in new THEN w.depth[n] + 1 ELSE w.depth[m]]
      /\ v.parent = [m \in new \cup DOMAIN w.parent |-> IF m \in new THEN n ELSE w.parent[m]]
      /\ v = [queue |-> v.queue, depth |-> v.depth, parent |-> v.parent]
  BY DEF Queued
<1>3. /\ n = q[1] /\ n \in Notes /\ n \in DOMAIN w.depth /\ n \notin Done(w)
      /\ Done(w) \cup {n} = DOMAIN w.depth \ ToSet(Tail(q)) /\ w.depth \in [DOMAIN w.depth -> Nat]
      /\ w.parent \in [DOMAIN w.parent -> Notes] /\ DOMAIN w.depth \subseteq Notes /\ DOMAIN w.parent \subseteq Notes
      /\ q \in Seq(Notes) /\ IsInjective(q)
      /\ \A i \in DOMAIN q : q[i] \in DOMAIN w.depth
  BY <1>1, HeadIsDone
<1>4. /\ Tail(q) \in Seq(Notes) /\ DOMAIN Tail(q) = 1..(Len(q) - 1) /\ Len(Tail(q)) = Len(q) - 1
      /\ \A i \in DOMAIN Tail(q) : i + 1 \in DOMAIN q /\ Tail(q)[i] = q[i + 1]
      /\ IsInjective(Tail(q)) /\ ToSet(Tail(q)) \subseteq ToSet(q) /\ 1 \in DOMAIN q
  BY <1>3, TailOfInjective
<1>5. next[n] \in Seq(Notes) /\ IsInjective(next[n])
  BY <1>3 DEF NextOK
<1>6. K \in SUBSET DOMAIN next[n] /\ {next[n][k] : k \in K} = ToSet(next[n]) \ DOMAIN w.depth
  BY DEF ToSet
<1> HIDE DEF K
<1>7. found \in Seq(Notes) /\ IsInjective(found) /\ new = ToSet(next[n]) \ DOMAIN w.depth
  BY <1>5, <1>6, PickedSequence
<1>8. ToSet(next[n]) \subseteq Notes
  BY <1>5 DEF ToSet
<1> HIDE DEF found, v
<1>9. ToSet(Tail(q)) \subseteq DOMAIN w.depth
  BY <1>1, <1>4 DEF QueueOK
<1>10. ToSet(Tail(q)) \cap ToSet(found) = {}
  BY <1>7, <1>9
<1> DEFINE m == Len(Tail(q))
<1>11. /\ v.queue \in Seq(Notes) /\ IsInjective(v.queue) /\ ToSet(v.queue) = ToSet(Tail(q)) \cup new
       /\ m \in Nat /\ Len(found) \in Nat /\ DOMAIN v.queue = 1..(m + Len(found))
       /\ \A i \in 1..m : i \in DOMAIN Tail(q) /\ v.queue[i] = Tail(q)[i]
       /\ \A i \in (m + 1)..(m + Len(found)) : i - m \in DOMAIN found /\ v.queue[i] = found[i - m]
  <2> DEFINE t == Tail(q)
  <2>1. /\ t \in Seq(Notes) /\ IsInjective(t) /\ v.queue = t \o found /\ ToSet(t) \cap ToSet(found) = {}
        /\ m = Len(t)
    BY <1>2, <1>4, <1>10
  <2> HIDE DEF t
  <2>2. /\ v.queue \in Seq(Notes) /\ IsInjective(v.queue) /\ ToSet(v.queue) = ToSet(t) \cup ToSet(found)
        /\ Len(t) \in Nat /\ Len(found) \in Nat /\ DOMAIN v.queue = 1..(Len(t) + Len(found))
        /\ \A i \in 1..Len(t) : i \in DOMAIN t /\ v.queue[i] = t[i]
        /\ \A i \in (Len(t) + 1)..(Len(t) + Len(found)) :
             i - Len(t) \in DOMAIN found /\ v.queue[i] = found[i - Len(t)]
    BY <1>7, <2>1, JoinOfInjectives
  <2> QED
    BY <2>2 DEF t
<1>12. DOMAIN v.depth = DOMAIN w.depth \cup new /\ DOMAIN v.parent = DOMAIN w.parent \cup new
  BY <1>2
<1>13. /\ \A x \in DOMAIN w.depth : x \notin new /\ v.depth[x] = w.depth[x]
       /\ \A x \in new : v.depth[x] = w.depth[n] + 1 /\ v.parent[x] = n
  BY <1>2, <1>7
<1>14. w.depth[n] \in Nat /\ \A x \in DOMAIN w.depth : w.depth[x] \in Nat
  BY <1>3
<1>15. v.depth \in Maps(Nat)
  <2>1. DOMAIN v.depth \subseteq Notes
    BY <1>3, <1>7, <1>8, <1>12
  <2>2. v.depth \in [DOMAIN v.depth -> Nat]
    BY <1>2, <1>12, <1>14
  <2> QED
    BY <2>1, <2>2, MapsType
<1>16. v.parent \in Maps(Notes)
  <2>1. DOMAIN v.parent \subseteq Notes
    BY <1>3, <1>7, <1>8, <1>12
  <2>2. v.parent \in [DOMAIN v.parent -> Notes]
    BY <1>2, <1>3, <1>12
  <2> QED
    BY <2>1, <2>2, MapsType
<1>17. v \in Searches
  BY <1>2, <1>11, <1>15, <1>16 DEF Searches

\* Each member of the queue was queued before or is new.
<1>18. ASSUME NEW i \in DOMAIN v.queue
       PROVE  \/ /\ i \in 1..m /\ i + 1 \in DOMAIN q /\ v.queue[i] = q[i + 1] /\ q[i + 1] \in DOMAIN w.depth
                 /\ v.depth[v.queue[i]] = w.depth[q[i + 1]]
                 /\ w.depth[n] <= w.depth[q[i + 1]] /\ w.depth[q[i + 1]] <= w.depth[n] + 1
              \/ i > m /\ v.depth[v.queue[i]] = w.depth[n] + 1
  <2>1. CASE i \in 1..m
    <3>1. i + 1 \in DOMAIN q /\ v.queue[i] = q[i + 1] /\ q[i + 1] \in DOMAIN w.depth
      BY <1>3, <1>4, <1>11, <2>1
    <3>2. 1 <= i + 1
      BY <2>1
    <3>3. w.depth[q[1]] <= w.depth[q[i + 1]] /\ w.depth[q[i + 1]] <= w.depth[q[1]] + 1
      BY <1>1, <1>4, <3>1, <3>2 DEF QueueOK
    <3> QED
      BY <1>3, <1>13, <2>1, <3>1, <3>3
  <2>2. CASE i \in (m + 1)..(m + Len(found))
    <3>1. v.queue[i] \in new
      BY <1>11, <2>2 DEF ToSet
    <3> QED
      BY <1>11, <1>13, <2>2, <3>1
  <2> QED
    BY <1>11, <2>1, <2>2
<1>19. QueueOK(v)
  <2>1. ASSUME NEW i \in DOMAIN v.queue, NEW j \in DOMAIN v.queue, i <= j
        PROVE  v.depth[v.queue[i]] <= v.depth[v.queue[j]] /\ v.depth[v.queue[j]] <= v.depth[v.queue[i]] + 1
    <3>1. i \in Nat /\ j \in Nat
      BY <1>11
    <3>2. CASE i \in 1..m /\ j \in 1..m
      <4>1. /\ i + 1 \in DOMAIN q /\ v.depth[v.queue[i]] = w.depth[q[i + 1]]
            /\ j + 1 \in DOMAIN q /\ v.depth[v.queue[j]] = w.depth[q[j + 1]]
        BY <1>18, <3>2
      <4>2. i + 1 <= j + 1
        BY <2>1, <3>1
      <4> QED
        BY <1>1, <4>1, <4>2 DEF QueueOK
    <3>3. CASE ~ (i \in 1..m) /\ j \in 1..m
      BY <1>11, <2>1, <3>1, <3>3
    <3>4. CASE i \in 1..m /\ ~ (j \in 1..m)
      <4>1. /\ v.depth[v.queue[i]] = w.depth[q[i + 1]] /\ q[i + 1] \in DOMAIN w.depth
            /\ w.depth[n] <= w.depth[q[i + 1]] /\ w.depth[q[i + 1]] <= w.depth[n] + 1
        BY <1>18, <3>4
      <4>2. v.depth[v.queue[j]] = w.depth[n] + 1
        BY <1>18, <3>4
      <4> QED
        BY <1>14, <4>1, <4>2
    <3>5. CASE ~ (i \in 1..m) /\ ~ (j \in 1..m)
      <4>1. v.depth[v.queue[i]] = w.depth[n] + 1 /\ v.depth[v.queue[j]] = w.depth[n] + 1
        BY <1>18, <3>5
      <4> QED
        BY <1>14, <4>1
    <3> QED
      BY <3>2, <3>3, <3>4, <3>5
  <2>2. ToSet(v.queue) \subseteq DOMAIN v.depth
    BY <1>9, <1>11, <1>12
  <2> QED
    BY <1>11, <2>1, <2>2 DEF QueueOK
<1>20. ParentsOK(v, starts, next, max)
  <2>1. ToSet(starts) \subseteq DOMAIN v.depth /\ \A x \in ToSet(starts) : v.depth[x] = 0
    BY <1>1, <1>12, <1>13 DEF ParentsOK
  <2>2. DOMAIN v.parent = DOMAIN v.depth \ ToSet(starts)
    BY <1>1, <1>12, <1>13 DEF ParentsOK
  <2>3. ASSUME NEW x \in DOMAIN v.parent
        PROVE  /\ v.parent[x] \in DOMAIN v.depth /\ x \in ToSet(next[v.parent[x]])
               /\ v.depth[x] = v.depth[v.parent[x]] + 1 /\ v.depth[x] <= max
    <3>1. CASE x \in new
      <4>1. v.parent[x] = n /\ v.depth[x] = w.depth[n] + 1 /\ v.depth[n] = w.depth[n] /\ x \in ToSet(next[n])
        BY <1>3, <1>7, <1>13, <3>1
      <4> QED
        BY <1>3, <1>12, <1>14, <4>1
    <3>2. CASE x \notin new
      <4>1. x \in DOMAIN w.parent /\ v.parent[x] = w.parent[x]
        BY <1>2, <1>12, <3>2
      <4>2. /\ w.parent[x] \in DOMAIN w.depth /\ x \in ToSet(next[w.parent[x]])
            /\ w.depth[x] = w.depth[w.parent[x]] + 1 /\ w.depth[x] <= max /\ x \in DOMAIN w.depth
        BY <1>1, <4>1 DEF ParentsOK
      <4> QED
        BY <1>12, <1>13, <4>1, <4>2
    <3> QED
      BY <3>1, <3>2
  <2> QED
    BY <2>1, <2>2, <2>3 DEF ParentsOK
<1>21. Done(v) = Done(w) \cup {n}
  BY <1>3, <1>7, <1>11, <1>12, <1>13 DEF Done
<1>22. DoneOK(v, next, max)
  <2>1. ASSUME NEW x \in Done(v)
        PROVE  x \in DOMAIN w.depth /\ v.depth[x] = w.depth[x] /\ w.depth[x] <= w.depth[n]
    <3>1. CASE x = n
      BY <1>3, <1>13, <1>14, <3>1
    <3>2. CASE x \in Done(w)
      <4>1. w.depth[x] <= w.depth[q[1]]
        BY <1>1, <1>4, <3>2 DEF DoneOK
      <4> QED
        BY <1>3, <1>13, <3>2, <4>1 DEF Done
    <3> QED
      BY <1>21, <3>1, <3>2
  <2>2. ASSUME NEW x \in Done(v), NEW i \in DOMAIN v.queue
        PROVE  v.depth[x] <= v.depth[v.queue[i]]
    <3>1. x \in DOMAIN w.depth /\ v.depth[x] = w.depth[x] /\ w.depth[x] <= w.depth[n] /\ w.depth[x] \in Nat
      BY <1>14, <2>1
    <3>2. CASE i \in 1..m
      <4>1. /\ v.depth[v.queue[i]] = w.depth[q[i + 1]] /\ q[i + 1] \in DOMAIN w.depth
            /\ w.depth[n] <= w.depth[q[i + 1]]
        BY <1>18, <3>2
      <4>2. w.depth[q[i + 1]] \in Nat
        BY <1>14, <4>1
      <4> QED
        BY <1>14, <3>1, <4>1, <4>2
    <3>3. CASE ~ (i \in 1..m)
      <4>1. v.depth[v.queue[i]] = w.depth[n] + 1
        BY <1>18, <3>3
      <4> QED
        BY <1>14, <3>1, <4>1
    <3> QED
      BY <3>2, <3>3
  <2>3. ASSUME NEW x \in Done(v), v.depth[x] < max, NEW y \in ToSet(next[x])
        PROVE  y \in DOMAIN v.depth /\ v.depth[y] <= v.depth[x] + 1
    <3>1. CASE x = n
      <4>1. CASE y \in new
        BY <1>3, <1>12, <1>13, <1>14, <3>1, <4>1
      <4>2. CASE y \in DOMAIN w.depth
        <5>1. CASE y \in Done(w)
          <6>1. y \in Done(v)
            BY <1>21, <5>1
          <6>2. v.depth[y] = w.depth[y] /\ w.depth[y] <= w.depth[n] /\ w.depth[y] \in Nat
            BY <1>14, <2>1, <6>1
          <6> QED
            BY <1>3, <1>12, <1>13, <1>14, <3>1, <4>2, <6>2
        <5>2. CASE y \in ToSet(q)
          <6>1. PICK i \in DOMAIN q : q[i] = y
            BY <5>2 DEF ToSet
          <6>2. 1 <= i
            BY <1>3, <6>1
          <6>3. w.depth[q[i]] <= w.depth[q[1]] + 1
            BY <1>1, <1>4, <6>2 DEF QueueOK
          <6> QED
            BY <1>3, <1>12, <1>13, <3>1, <4>2, <6>1, <6>3
        <5> QED
          BY <4>2, <5>1, <5>2 DEF Done
      <4> QED
        BY <1>7, <2>3, <3>1, <4>1, <4>2
    <3>2. CASE x \in Done(w)
      <4>1. x \in DOMAIN w.depth /\ v.depth[x] = w.depth[x]
        BY <2>1
      <4>2. y \in DOMAIN w.depth /\ w.depth[y] <= w.depth[x] + 1
        BY <1>1, <2>3, <3>2, <4>1 DEF DoneOK
      <4> QED
        BY <1>12, <1>13, <4>1, <4>2
    <3> QED
      BY <1>21, <3>1, <3>2
  <2> QED
    BY <2>2, <2>3 DEF DoneOK
<1> QED
  BY <1>17, <1>19, <1>20, <1>21, <1>22 DEF SearchOK, v

\* A visit keeps the search in order and one more note is visited.
VisitsHead(w, starts, next, max) ==
  LET v == Visit(w, next, max)
  IN SearchOK(v, starts, next, max) /\ Done(v) = Done(w) \cup {Head(w.queue)}

LEMMA VisitKeeps ==
  ASSUME NEW starts, NEW next, NextOK(next), NEW max \in Nat, NEW w, SearchOK(w, starts, next, max), w.queue # <<>>
  PROVE  VisitsHead(w, starts, next, max)
<1>1. w.depth[Head(w.queue)] \in Nat
  <2>1. w \in Searches /\ QueueOK(w)
    BY DEF SearchOK
  <2> QED
    BY <2>1, HeadIsDone
<1>2. CASE w.depth[Head(w.queue)] >= max
  BY <1>2, TooFarKeeps DEF Visit, VisitsHead
<1>3. CASE ~ (w.depth[Head(w.queue)] >= max)
  <2>1. w.depth[Head(w.queue)] < max
    BY <1>1, <1>3
  <2>2. LET v == Queued(w, Tail(w.queue), Head(w.queue), next)
        IN SearchOK(v, starts, next, max) /\ Done(v) = Done(w) \cup {Head(w.queue)}
    BY <2>1, QueuedKeeps
  <2>3. Visit(w, next, max) = Queued(w, Tail(w.queue), Head(w.queue), next)
    BY <1>3 DEF Visit
  <2> QED
    BY <2>2, <2>3 DEF VisitsHead
<1> QED
  BY <1>2, <1>3

LEMMA WalkGoesOn ==
  ASSUME NEW starts \in Seq(Notes), IsInjective(starts), NEW next, NextOK(next), NEW max \in Nat
  PROVE  LET W == Walk(starts, next, max)
         IN /\ W[0] = AtStart(starts)
            /\ \A k \in Nat : /\ SearchOK(W[k], starts, next, max)
                              /\ W[k + 1] = IF W[k].queue = <<>> THEN W[k] ELSE Visit(W[k], next, max)
<1> DEFINE V == {w \in Searches : SearchOK(w, starts, next, max)}
           step(w) == IF w.queue = <<>> THEN w ELSE Visit(w, next, max)
           E(f) == [k \in Nat |-> IF k = 0 THEN AtStart(starts) ELSE LET w == f[k - 1] IN step(w)]
           s == [p \in Nat \X V |-> step(p[2])]
           W == Walk(starts, next, max)
<1>1. AtStart(starts) \in V
  BY SearchStarts DEF SearchOK
<1>2. \A w \in V : step(w) \in V
  BY VisitKeeps DEF VisitsHead, SearchOK
<1> HIDE DEF V, step
<1>3. s \in [Nat \X V -> V]
  BY <1>2
<1>4. \A k \in Nat : \A w \in V : s[<<k, w>>] = step(w)
  OBVIOUS
<1> HIDE DEF s
<1>5. PICK f \in [Nat -> V] : f[0] = AtStart(starts) /\ \A k \in Nat : f[k + 1] = s[<<k, f[k]>>]
  <2> DEFINE a == AtStart(starts)
  <2>1. a \in V
    BY <1>1
  <2> HIDE DEF a
  <2>2. Iterates(V, a, s)
    BY <1>3, <2>1, Iteration
  <2> QED
    BY <2>2 DEF a, Iterates
<1>6. f = E(f)
  <2>1. ASSUME NEW k \in Nat
        PROVE  f[k] = IF k = 0 THEN AtStart(starts) ELSE step(f[k - 1])
    <3>1. CASE k = 0
      BY <1>5, <3>1
    <3>2. CASE k # 0
      <4>1. k - 1 \in Nat /\ k - 1 + 1 = k /\ f[k - 1] \in V
        BY <3>2
      <4>2. f[k - 1 + 1] = s[<<k - 1, f[k - 1]>>]
        BY <1>5, <4>1
      <4> QED
        BY <1>4, <3>2, <4>1, <4>2
    <3> QED
      BY <3>1, <3>2
  <2>2. f = [k \in Nat |-> f[k]]
    OBVIOUS
  <2> QED
    BY <2>1, <2>2
<1>7. W = CHOOSE g : g = E(g)
  BY DEF Walk, step
<1>8. W = E(W)
  <2> HIDE DEF E, W
  <2> QED
    BY <1>6, <1>7
<1> HIDE DEF W
<1>9. W[0] = AtStart(starts) /\ \A k \in Nat : W[k + 1] = step(W[k])
  <2>1. \A k \in Nat : W[k] = IF k = 0 THEN AtStart(starts) ELSE step(W[k - 1])
    BY <1>8
  <2>2. \A k \in Nat : k + 1 \in Nat /\ k + 1 # 0 /\ k + 1 - 1 = k
    OBVIOUS
  <2> QED
    BY <2>1, <2>2
<1>10. \A k \in Nat : W[k] \in V
  <2> DEFINE S == {k \in Nat : W[k] \in V}
  <2>1. 0 \in S
    BY <1>1, <1>9
  <2>2. ASSUME NEW k \in Nat, k \in S
        PROVE  k + 1 \in S
    <3>1. W[k] \in V /\ W[k + 1] = step(W[k])
      BY <1>9, <2>2
    <3>2. step(W[k]) \in V
      BY <1>2, <3>1
    <3> QED
      BY <3>1, <3>2
  <2> HIDE DEF S
  <2>3. \A k \in Nat : k \in S
    BY <2>1, <2>2, AllNat
  <2> QED
    BY <2>3 DEF S
<1> QED
  BY <1>9, <1>10 DEF V, step, W

\* In as many steps as there are notes the queue is empty.
LEMMA ExploreEnds ==
  ASSUME NEW starts \in Seq(Notes), IsInjective(starts), NEW next, NextOK(next), NEW max \in Nat
  PROVE  LET w == Explore(starts, next, max) IN SearchOK(w, starts, next, max) /\ w.queue = <<>>
<1> DEFINE W == Walk(starts, next, max)
           N == Cardinality(Notes)
<1>1. N \in Nat
  BY NotesAssumption, FS_CardinalityType
<1>2. \A k \in Nat : /\ SearchOK(W[k], starts, next, max)
                     /\ W[k + 1] = IF W[k].queue = <<>> THEN W[k] ELSE Visit(W[k], next, max)
  BY WalkGoesOn
<1> HIDE DEF W
<1>3. \A k \in Nat : IsFiniteSet(Done(W[k])) /\ Cardinality(Done(W[k])) \in Nat /\ Done(W[k]) \subseteq Notes
  <2> TAKE k \in Nat
  <2>1. W[k].depth \in Maps(Nat)
    BY <1>2 DEF SearchOK, Searches
  <2>2. Done(W[k]) \in SUBSET Notes
    BY <2>1, MapsType DEF Done
  <2>3. IsFiniteSet(Done(W[k]))
    BY <2>2, NotesAssumption, FS_Subset
  <2> QED
    BY <2>2, <2>3, FS_CardinalityType
<1> DEFINE S == {k \in Nat : W[k].queue = <<>> \/ Cardinality(Done(W[k])) >= k}
<1>4. 0 \in S
  BY <1>3
<1>5. ASSUME NEW k \in Nat, k \in S
      PROVE  k + 1 \in S
  <2>1. CASE W[k].queue = <<>>
    <3>1. W[k + 1] = W[k]
      BY <1>2, <2>1
    <3> QED
      BY <2>1, <3>1
  <2>2. CASE W[k].queue # <<>>
    <3> DEFINE h == Head(W[k].queue)
    <3>1. Done(W[k + 1]) = Done(W[k]) \cup {h}
      <4>1. SearchOK(W[k], starts, next, max) /\ W[k].queue # <<>> /\ W[k + 1] = Visit(W[k], next, max)
        BY <1>2, <2>2
      <4>2. VisitsHead(W[k], starts, next, max)
        BY <4>1, VisitKeeps
      <4> QED
        BY <4>1, <4>2 DEF VisitsHead
    <3>2. h \notin Done(W[k])
      <4>1. W[k] \in Searches /\ QueueOK(W[k])
        BY <1>2 DEF SearchOK
      <4> QED
        BY <2>2, <4>1, HeadIsDone
    <3> HIDE DEF h
    <3>3. Cardinality(Done(W[k + 1])) = Cardinality(Done(W[k])) + 1
      BY <1>3, <3>1, <3>2, FS_AddElement
    <3>4. Cardinality(Done(W[k])) >= k
      BY <1>5, <2>2
    <3> QED
      BY <1>3, <3>3, <3>4
  <2> QED
    BY <2>1, <2>2
<1>6. N \in S
  <2> HIDE DEF S
  <2> QED
    BY <1>1, <1>4, <1>5, AllNat
<1>7. W[N].queue = <<>>
  <2> SUFFICES ASSUME W[N].queue # <<>>
               PROVE  FALSE
    OBVIOUS
  <2> DEFINE h == Head(W[N].queue)
  <2>1. W[N] \in Searches /\ QueueOK(W[N])
    BY <1>1, <1>2 DEF SearchOK
  <2>2. h \in Notes /\ h \notin Done(W[N])
    BY <2>1, HeadIsDone
  <2> HIDE DEF h, N
  <2>3. Done(W[N]) \in SUBSET (Notes \ {h})
    BY <1>1, <1>3, <2>2
  <2>4. IsFiniteSet(Notes \ {h}) /\ Cardinality(Notes \ {h}) = N - 1
    BY <2>2, NotesAssumption, FS_RemoveElement DEF N
  <2>5. Cardinality(Done(W[N])) <= N - 1
    BY <2>3, <2>4, FS_Subset
  <2>6. Cardinality(Done(W[N])) >= N
    BY <1>6
  <2> QED
    BY <1>1, <1>3, <2>5, <2>6
<1> QED
  BY <1>1, <1>2, <1>7 DEF Explore, W

-----------------------------------------------------------------------------
(* The search and the reference.                                            *)

LEMMA BallsGrow ==
  ASSUME NEW g, NEW S, NEW direction
  PROVE  LET B == Balls(g, S, direction)
         IN B[0] = S /\ \A i \in Nat : B[i + 1] = B[i] \cup Successors(g, B[i], direction)
<1> DEFINE V == SUBSET (S \cup {l.to : l \in g.links} \cup {l.from : l \in g.links})
           step(A) == A \cup Successors(g, A, direction)
           E(f) == [i \in Nat |-> IF i = 0 THEN S ELSE step(f[i - 1])]
           s == [p \in Nat \X V |-> step(p[2])]
           B == Balls(g, S, direction)
<1>1. S \in V
  OBVIOUS
<1>2. \A A \in V : step(A) \in V
  BY DEF Successors
<1>3. B = CHOOSE f : f = E(f)
  BY DEF Balls
<1> HIDE DEF V, step, B
<1>4. s \in [Nat \X V -> V]
  BY <1>2
<1>5. \A k \in Nat : \A A \in V : s[<<k, A>>] = step(A)
  OBVIOUS
<1> HIDE DEF s
<1>6. Iterates(V, S, s)
  BY <1>1, <1>4, Iteration
<1>7. PICK f \in [Nat -> V] : f[0] = S /\ \A k \in Nat : f[k + 1] = s[<<k, f[k]>>]
  BY <1>6 DEF Iterates
<1>8. f = E(f)
  <2>1. ASSUME NEW k \in Nat
        PROVE  f[k] = IF k = 0 THEN S ELSE step(f[k - 1])
    <3>1. CASE k = 0
      BY <1>7, <3>1
    <3>2. CASE k # 0
      <4>1. k - 1 \in Nat /\ k - 1 + 1 = k /\ f[k - 1] \in V
        BY <3>2
      <4>2. f[k - 1 + 1] = s[<<k - 1, f[k - 1]>>]
        BY <1>7, <4>1
      <4> QED
        BY <1>5, <3>2, <4>1, <4>2
    <3> QED
      BY <3>1, <3>2
  <2>2. f = [k \in Nat |-> f[k]]
    OBVIOUS
  <2> QED
    BY <2>1, <2>2
<1>9. B = E(B)
  <2> HIDE DEF E
  <2> QED
    BY <1>3, <1>8
<1>10. \A k \in Nat : B[k] = IF k = 0 THEN S ELSE step(B[k - 1])
  BY <1>9
<1>11. \A k \in Nat : k + 1 \in Nat /\ k + 1 # 0 /\ k + 1 - 1 = k
  OBVIOUS
<1>12. B[0] = S /\ \A k \in Nat : B[k + 1] = step(B[k])
  BY <1>10, <1>11
<1> QED
  BY <1>12 DEF step, B

\* A note leads to those one step away.
Leads(next, g, direction) == \A n \in Notes : ToSet(next[n]) = Successors(g, {n}, direction)

LEMMA SuccessorsOfEach ==
  ASSUME NEW g, NEW A, NEW direction
  PROVE  \A m : m \in Successors(g, A, direction) <=> \E n \in A : m \in Successors(g, {n}, direction)
BY DEF Successors

\* The notes within so many steps are those found with a depth of so many.
LEMMA BallsAreDepths ==
  ASSUME NEW starts, NEW next, NEW max \in Nat, NEW w, SearchOK(w, starts, next, max), w.queue = <<>>,
         NEW g, NEW direction, Leads(next, g, direction)
  PROVE  \A i \in Nat : i <= max =>
           Balls(g, ToSet(starts), direction)[i] = {n \in DOMAIN w.depth : w.depth[n] <= i}
<1> DEFINE B == Balls(g, ToSet(starts), direction)
           D == DOMAIN w.depth
           d == w.depth
           S == {i \in Nat : i <= max => B[i] = {n \in D : d[n] <= i}}
<1>1. w \in Searches /\ ParentsOK(w, starts, next, max) /\ DoneOK(w, next, max)
  BY DEF SearchOK
<1>2. d \in [D -> Nat] /\ D \subseteq Notes
  <2>1. w.depth \in Maps(Nat)
    BY <1>1 DEF Searches
  <2> QED
    BY <2>1, MapsType
<1>3. Done(w) = D
  BY DEF Done, ToSet
<1>4. B[0] = ToSet(starts) /\ \A i \in Nat : B[i + 1] = B[i] \cup Successors(g, B[i], direction)
  BY BallsGrow
<1>5. ToSet(starts) \subseteq D /\ \A n \in ToSet(starts) : d[n] = 0
  BY <1>1 DEF ParentsOK
<1>6. ASSUME NEW n \in D, n \notin ToSet(starts)
      PROVE  \E p \in D : n \in Successors(g, {p}, direction) /\ d[n] = d[p] + 1
  <2>1. n \in DOMAIN w.parent
    BY <1>1, <1>6 DEF ParentsOK
  <2>2. w.parent[n] \in D /\ n \in ToSet(next[w.parent[n]]) /\ d[n] = d[w.parent[n]] + 1
    BY <1>1, <2>1 DEF ParentsOK
  <2> QED
    BY <1>2, <2>2 DEF Leads
<1>7. ASSUME NEW n \in D, d[n] < max, NEW m \in Successors(g, {n}, direction)
      PROVE  m \in D /\ d[m] <= d[n] + 1
  <2>1. m \in ToSet(next[n])
    BY <1>2 DEF Leads
  <2> QED
    BY <1>1, <1>3, <1>7, <2>1 DEF DoneOK
<1> HIDE DEF B
<1>8. 0 \in S
  <2>1. ASSUME NEW n \in D, d[n] <= 0
        PROVE  n \in ToSet(starts)
    <3> SUFFICES ASSUME n \notin ToSet(starts)
                 PROVE  FALSE
      OBVIOUS
    <3>1. PICK p \in D : d[n] = d[p] + 1
      BY <1>6
    <3>2. d[p] \in Nat /\ d[n] \in Nat
      BY <1>2
    <3> QED
      BY <2>1, <3>1, <3>2
  <2>2. \A n \in ToSet(starts) : n \in D /\ d[n] <= 0
    BY <1>5
  <2>3. B[0] = {n \in D : d[n] <= 0}
    BY <1>4, <2>1, <2>2
  <2> QED
    BY <2>3
<1>9. ASSUME NEW i \in Nat, i \in S
      PROVE  i + 1 \in S
  <2> SUFFICES ASSUME i + 1 <= max
               PROVE  B[i + 1] = {n \in D : d[n] <= i + 1}
    OBVIOUS
  <2>1. B[i] = {n \in D : d[n] <= i}
    BY <1>9
  <2>2. \A m : m \in B[i + 1] <=> m \in B[i] \/ \E n \in B[i] : m \in Successors(g, {n}, direction)
    BY <1>4, SuccessorsOfEach
  <2>3. ASSUME NEW m \in B[i + 1]
        PROVE  m \in D /\ d[m] <= i + 1
    <3>1. CASE m \in B[i]
      BY <1>2, <2>1, <3>1
    <3>2. CASE \E n \in B[i] : m \in Successors(g, {n}, direction)
      <4>1. PICK n \in B[i] : m \in Successors(g, {n}, direction)
        BY <3>2
      <4>2. n \in D /\ d[n] \in Nat /\ d[n] <= i /\ d[n] < max
        BY <1>2, <2>1
      <4>3. m \in D /\ d[m] <= d[n] + 1 /\ d[m] \in Nat
        BY <1>2, <1>7, <4>1, <4>2
      <4> QED
        BY <4>2, <4>3
    <3> QED
      BY <2>2, <3>1, <3>2
  <2>4. ASSUME NEW m \in D, d[m] <= i + 1
        PROVE  m \in B[i + 1]
    <3>1. CASE d[m] <= i
      BY <2>1, <2>2, <3>1
    <3>2. CASE d[m] = i + 1
      <4>1. m \notin ToSet(starts)
        BY <1>5, <3>2
      <4>2. PICK p \in D : m \in Successors(g, {p}, direction) /\ d[m] = d[p] + 1
        BY <1>6, <4>1
      <4>3. d[p] \in Nat
        BY <1>2
      <4>4. d[p] <= i
        BY <3>2, <4>2, <4>3
      <4> QED
        BY <2>1, <2>2, <4>2, <4>4
    <3> QED
      BY <1>2, <2>4, <3>1, <3>2
  <2> QED
    BY <2>3, <2>4
<1>10. \A i \in Nat : i \in S
  <2> HIDE DEF S
  <2> QED
    BY <1>8, <1>9, AllNat
<1> QED
  BY <1>10 DEF B

\* What the search from one note has found.
Explored(w, center, max, g, direction) ==
  /\ w.depth \in [DOMAIN w.depth -> Nat] /\ DOMAIN w.depth \subseteq Notes
  /\ center \in DOMAIN w.depth /\ w.depth[center] = 0 /\ \A n \in DOMAIN w.depth : w.depth[n] <= max
  /\ DOMAIN w.parent = DOMAIN w.depth \ {center}
  /\ \A n \in DOMAIN w.parent :
       /\ w.parent[n] \in DOMAIN w.depth /\ w.depth[n] = w.depth[w.parent[n]] + 1
       /\ n \in Successors(g, {w.parent[n]}, direction)
  /\ \A i \in Nat : i <= max => Within(g, {center}, i, direction) = {n \in DOMAIN w.depth : w.depth[n] <= i}

LEMMA ExploreIsRight ==
  ASSUME NEW center \in Notes, NEW next, NextOK(next), NEW max \in Nat,
         NEW g, NEW direction, Leads(next, g, direction)
  PROVE  Explored(Explore(<<center>>, next, max), center, max, g, direction)
<1> DEFINE starts == <<center>>
           w == Explore(<<center>>, next, max)
<1>1. starts \in Seq(Notes) /\ IsInjective(starts) /\ ToSet(starts) = {center}
  BY DEF IsInjective, ToSet
<1> HIDE DEF starts
<1>2. SearchOK(Explore(starts, next, max), starts, next, max) /\ Explore(starts, next, max).queue = <<>>
  BY <1>1, ExploreEnds
<1>3. SearchOK(w, starts, next, max) /\ w.queue = <<>>
  BY <1>2 DEF starts
<1> HIDE DEF w
<1>4. \A i \in Nat : i <= max => Balls(g, ToSet(starts), direction)[i] = {n \in DOMAIN w.depth : w.depth[n] <= i}
  BY <1>3, BallsAreDepths
<1>5. w \in Searches /\ ParentsOK(w, starts, next, max)
  BY <1>3 DEF SearchOK
<1>6. w.depth \in [DOMAIN w.depth -> Nat] /\ DOMAIN w.depth \subseteq Notes
  <2>1. w.depth \in Maps(Nat)
    BY <1>5 DEF Searches
  <2> QED
    BY <2>1, MapsType
<1>7. center \in DOMAIN w.depth /\ w.depth[center] = 0 /\ DOMAIN w.parent = DOMAIN w.depth \ {center}
  BY <1>1, <1>5 DEF ParentsOK
<1>8. ASSUME NEW n \in DOMAIN w.parent
      PROVE  /\ w.parent[n] \in DOMAIN w.depth /\ w.depth[n] = w.depth[w.parent[n]] + 1 /\ w.depth[n] <= max
             /\ n \in Successors(g, {w.parent[n]}, direction)
  <2>1. /\ w.parent[n] \in DOMAIN w.depth /\ n \in ToSet(next[w.parent[n]])
        /\ w.depth[n] = w.depth[w.parent[n]] + 1 /\ w.depth[n] <= max
    BY <1>5 DEF ParentsOK
  <2> QED
    BY <1>6, <2>1 DEF Leads
<1>9. ASSUME NEW n \in DOMAIN w.depth
      PROVE  w.depth[n] <= max
  <2>1. CASE n = center
    BY <1>7, <2>1
  <2>2. CASE n # center
    BY <1>7, <1>8, <2>2
  <2> QED
    BY <2>1, <2>2
<1>10. \A i \in Nat : i <= max => Within(g, {center}, i, direction) = {n \in DOMAIN w.depth : w.depth[n] <= i}
  BY <1>1, <1>4 DEF Within
<1> QED
  BY <1>6, <1>7, <1>8, <1>9, <1>10 DEF Explored, w

LEMMA TraversalLeads ==
  ASSUME NEW g, IsGraph(g), NEW direction \in Directions
  PROVE  LET next == [n \in Notes |-> TraversalNeighbors(g, n, direction)]
         IN NextOK(next) /\ Leads(next, g, direction)
<1> DEFINE next == [n \in Notes |-> TraversalNeighbors(g, n, direction)]
<1>1. ASSUME NEW n \in Notes
      PROVE  next[n] \in Seq(Notes) /\ IsInjective(next[n]) /\ ToSet(next[n]) = Successors(g, {n}, direction)
  <2> DEFINE t == TraversalNeighbors(g, n, direction)
  <2>1. /\ t \in Seq(g.readable) /\ IsInjective(t)
        /\ ToSet(t) = (IF direction = "incoming" THEN {} ELSE Targets(g, n))
                        \cup (IF direction = "outgoing" THEN {} ELSE Sources(g, n))
    BY TraversalStep
  <2>2. g.readable \subseteq Notes
    BY DEF IsGraph
  <2>3. next[n] = t
    OBVIOUS
  <2> HIDE DEF next, t
  <2>4. t \in Seq(Notes)
    BY <2>1, <2>2
  <2>5. Successors(g, {n}, direction) = (IF direction = "incoming" THEN {} ELSE Targets(g, n))
                                          \cup (IF direction = "outgoing" THEN {} ELSE Sources(g, n))
    BY DEF Successors, Targets, Sources
  <2> QED
    BY <2>1, <2>3, <2>4, <2>5
<1>2. next = [n \in Notes |-> next[n]]
  OBVIOUS
<1> HIDE DEF next
<1>3. next \in [Notes -> Seq(Notes)]
  BY <1>1, <1>2
<1> QED
  BY <1>1, <1>3 DEF NextOK, Leads, next

\* Neighbours are the notes within the depth, each at its distance.
LEMMA NeighborsAreLevels ==
  ASSUME NEW g, IsGraph(g), NEW center, NEW depth \in Nat, NEW direction \in Directions
  PROVE  AreLevels(g, center, depth, direction, Neighbors(g, center, depth, direction))
<1>1. CASE center \notin g.readable
  BY <1>1 DEF AreLevels, Neighbors
<1>2. CASE center \in g.readable
  <2> DEFINE next == [n \in Notes |-> TraversalNeighbors(g, n, direction)]
             c == Clamp(depth)
             w == Explore(<<center>>, next, c)
             D == DOMAIN w.depth
             Linked(n) == [from |-> w.parent[n], to |-> n] \in {[from |-> l.from, to |-> l.to] : l \in g.links}
             Towards(n) == direction # "incoming" /\ Linked(n)
             nodes == [n \in DOMAIN w.parent |->
                        [depth |-> w.depth[n],
                         from |-> IF Towards(n) THEN w.parent[n] ELSE n,
                         to |-> IF Towards(n) THEN n ELSE w.parent[n]]]
             edges == {<<l.from, l.to>> : l \in {k \in g.links : {k.from, k.to} \subseteq D}}
             answer == [nodes |-> nodes, edges |-> edges]
  <2>1. Neighbors(g, center, depth, direction) = answer
    BY <1>2 DEF Neighbors
  <2>2. c \in Nat /\ center \in Notes
    BY <1>2, TraversalAssumption DEF Clamp, IsGraph
  <2>3. NextOK(next) /\ Leads(next, g, direction)
    BY TraversalLeads
  <2> HIDE DEF next, c
  <2>4. Explored(w, center, c, g, direction)
    BY <2>2, <2>3, ExploreIsRight
  <2> HIDE DEF w
  <2>5. /\ w.depth \in [D -> Nat] /\ D \subseteq Notes /\ center \in D /\ w.depth[center] = 0
        /\ DOMAIN w.parent = D \ {center} /\ \A n \in D : w.depth[n] <= c
        /\ \A i \in Nat : i <= c => Within(g, {center}, i, direction) = {n \in D : w.depth[n] <= i}
    BY <2>4 DEF Explored
  <2>6. ASSUME NEW n \in DOMAIN w.parent
        PROVE  /\ w.parent[n] \in D /\ w.parent[n] \in Notes /\ n \in Notes /\ w.parent[n] # n
               /\ w.depth[n] \in Nat /\ w.depth[n] - 1 \in Nat /\ w.depth[n] <= c /\ w.depth[w.parent[n]] = w.depth[n] - 1
    <3>1. w.parent[n] \in D /\ w.depth[n] = w.depth[w.parent[n]] + 1 /\ n \in D
      BY <2>4, <2>5 DEF Explored
    <3>2. w.depth[n] \in Nat /\ w.depth[w.parent[n]] \in Nat /\ w.depth[n] <= c
      BY <2>5, <3>1
    <3> QED
      BY <2>5, <3>1, <3>2
  <2>7. ASSUME NEW n \in DOMAIN w.parent
        PROVE  \E l \in g.links : l.from = nodes[n].from /\ l.to = nodes[n].to
    <3>1. n \in Successors(g, {w.parent[n]}, direction)
      BY <2>4 DEF Explored
    <3>2. CASE Towards(n)
      <4>1. nodes[n].from = w.parent[n] /\ nodes[n].to = n
        BY <3>2
      <4>2. \E l \in g.links : l.from = w.parent[n] /\ l.to = n
        BY <3>2
      <4> QED
        BY <4>1, <4>2
    <3>3. CASE ~ Towards(n)
      <4>1. nodes[n].from = n /\ nodes[n].to = w.parent[n]
        BY <3>3
      <4>2. \A l \in g.links : l.from = w.parent[n] /\ l.to = n => Linked(n)
        OBVIOUS
      <4>3. \E l \in g.links : l.from = n /\ l.to = w.parent[n]
        BY <3>1, <3>3, <4>2 DEF Successors
      <4> QED
        BY <4>1, <4>3
    <3> QED
      BY <3>2, <3>3
  <2>8. answer # NoAnswer
    <3>1. \A n \in DOMAIN w.parent : nodes[n] \in [depth : Nat, from : Notes, to : Notes]
      BY <2>6
    <3>2. nodes \in [DOMAIN w.parent -> [depth : Nat, from : Notes, to : Notes]]
      <4>1. nodes = [n \in DOMAIN w.parent |-> nodes[n]]
        OBVIOUS
      <4> HIDE DEF nodes
      <4> QED
        BY <3>1, <4>1
    <3>3. edges \in SUBSET (Notes \X Notes)
      BY <2>5
    <3>4. DOMAIN w.parent \in SUBSET Notes
      BY <2>5
    <3> DEFINE Answers == [nodes : [DOMAIN w.parent -> [depth : Nat, from : Notes, to : Notes]],
                           edges : SUBSET (Notes \X Notes)]
    <3>5. NoAnswer \notin Answers
      BY <3>4, NoAnswerAssumption
    <3> HIDE DEF nodes, edges
    <3>6. answer \in Answers
      BY <3>2, <3>3
    <3> QED
      BY <3>5, <3>6
  <2>9. D = {center} \cup DOMAIN w.parent /\ D = Within(g, {center}, c, direction)
    BY <2>2, <2>5
  <2>10. ASSUME NEW n \in DOMAIN w.parent
         PROVE  LET node == nodes[n]
                    other == IF node.to = n THEN node.from ELSE node.to
                IN /\ n \in Within(g, {center}, node.depth, direction)
                   /\ n \notin Within(g, {center}, node.depth - 1, direction)
                   /\ other \in Within(g, {center}, node.depth - 1, direction)
    <3> DEFINE k == w.depth[n]
    <3>1. k \in Nat /\ k - 1 \in Nat /\ k <= c /\ k - 1 <= c /\ n \in D
      BY <2>2, <2>6, <2>9
    <3>2. nodes[n].depth = k
      OBVIOUS
    <3>3. (IF nodes[n].to = n THEN nodes[n].from ELSE nodes[n].to) = w.parent[n]
      BY <2>6
    <3>4. w.parent[n] \in D /\ w.depth[w.parent[n]] = k - 1
      BY <2>6
    <3> HIDE DEF k, nodes
    <3>5. Within(g, {center}, k, direction) = {x \in D : w.depth[x] <= k}
      BY <2>5, <3>1
    <3>6. Within(g, {center}, k - 1, direction) = {x \in D : w.depth[x] <= k - 1}
      BY <2>5, <3>1
    <3>7. n \in Within(g, {center}, k, direction) /\ n \notin Within(g, {center}, k - 1, direction)
      <4>1. w.depth[n] <= k /\ ~ (w.depth[n] <= k - 1)
        BY <3>1 DEF k
      <4> QED
        BY <3>1, <3>5, <3>6, <4>1, Zenon
    <3>8. w.parent[n] \in Within(g, {center}, k - 1, direction)
      <4>1. w.depth[w.parent[n]] <= k - 1
        BY <3>1, <3>4
      <4> QED
        BY <3>4, <3>6, <4>1, Zenon
    <3> QED
      BY <3>2, <3>3, <3>7, <3>8
  <2>11. DOMAIN answer.nodes = DOMAIN w.parent /\ answer.nodes = nodes /\ answer.edges = edges
    OBVIOUS
  <2>12. DOMAIN w.parent = Within(g, {center}, Clamp(depth), direction) \ {center}
    BY <2>5, <2>9 DEF c
  <2>13. edges = {<<l.from, l.to>> : l \in {k \in g.links : {k.from, k.to} \subseteq DOMAIN w.parent \cup {center}}}
    BY <2>9
  <2> HIDE DEF answer, nodes, edges
  <2>14. AreLevels(g, center, depth, direction, answer)
    <3>1. DOMAIN answer.nodes = Within(g, {center}, Clamp(depth), direction) \ {center}
      BY <2>11, <2>12
    <3>2. ASSUME NEW n \in DOMAIN answer.nodes
          PROVE  LET node == answer.nodes[n]
                     other == IF node.to = n THEN node.from ELSE node.to
                 IN /\ n \in Within(g, {center}, node.depth, direction)
                    /\ n \notin Within(g, {center}, node.depth - 1, direction)
                    /\ other \in Within(g, {center}, node.depth - 1, direction)
                    /\ \E l \in g.links : l.from = node.from /\ l.to = node.to
      <4>1. n \in DOMAIN w.parent /\ answer.nodes[n] = nodes[n]
        BY <2>11
      <4> QED
        BY <2>7, <2>10, <4>1
    <3>3. answer.edges = {<<l.from, l.to>> : l \in {k \in g.links :
                            {k.from, k.to} \subseteq (DOMAIN answer.nodes) \cup {center}}}
      BY <2>11, <2>13
    <3> QED
      BY <2>8, <3>1, <3>2, <3>3, Zenon DEF AreLevels
  <2> QED
    BY <2>1, <2>14
<1> QED
  BY <1>1, <1>2

\* Back from the goal, one parent after another, until the start.
GoesBack(parent, from, to) ==
  LET S == Back(parent, from, to)
  IN /\ S[0] = <<to>>
     /\ \A k \in Nat : S[k + 1] = IF S[k][1] = from THEN S[k] ELSE <<parent[S[k][1]]>> \o S[k]

LEMMA BackGoesOn ==
  ASSUME NEW D, NEW from, NEW to \in D, NEW parent, DOMAIN parent = D \ {from}, \A n \in DOMAIN parent : parent[n] \in D
  PROVE  GoesBack(parent, from, to)
<1> DEFINE V == {p \in Seq(D) : p # <<>>}
           step(p) == IF p[1] = from THEN p ELSE <<parent[p[1]]>> \o p
           E(f) == [k \in Nat |-> IF k = 0 THEN <<to>> ELSE step(f[k - 1])]
           s == [p \in Nat \X V |-> step(p[2])]
           S == Back(parent, from, to)
           a == <<to>>
<1>1. a \in V
  OBVIOUS
<1>2. \A p \in V : step(p) \in V
  <2> TAKE p \in V
  <2>1. p \in Seq(D) /\ p # <<>> /\ p[1] \in D
    OBVIOUS
  <2>2. CASE p[1] = from
    BY <2>1, <2>2
  <2>3. CASE p[1] # from
    <3>1. parent[p[1]] \in D
      BY <2>1, <2>3
    <3>2. <<parent[p[1]]>> \o p \in Seq(D) /\ <<parent[p[1]]>> \o p # <<>>
      BY <2>1, <3>1
    <3> QED
      BY <2>3, <3>2
  <2> QED
    BY <2>2, <2>3
<1>3. S = CHOOSE f : f = E(f)
  BY DEF Back
<1> HIDE DEF V, step, S
<1>4. s \in [Nat \X V -> V]
  BY <1>2
<1>5. \A k \in Nat : \A p \in V : s[<<k, p>>] = step(p)
  OBVIOUS
<1> HIDE DEF s, a
<1>6. Iterates(V, a, s)
  BY <1>1, <1>4, Iteration
<1>7. PICK f \in [Nat -> V] : f[0] = a /\ \A k \in Nat : f[k + 1] = s[<<k, f[k]>>]
  BY <1>6 DEF Iterates
<1>8. f = E(f)
  <2>1. ASSUME NEW k \in Nat
        PROVE  f[k] = IF k = 0 THEN a ELSE step(f[k - 1])
    <3>1. CASE k = 0
      BY <1>7, <3>1
    <3>2. CASE k # 0
      <4>1. k - 1 \in Nat /\ k - 1 + 1 = k /\ f[k - 1] \in V
        BY <3>2
      <4>2. f[k - 1 + 1] = s[<<k - 1, f[k - 1]>>]
        BY <1>7, <4>1
      <4> QED
        BY <1>5, <3>2, <4>1, <4>2
    <3> QED
      BY <3>1, <3>2
  <2>2. f = [k \in Nat |-> f[k]]
    OBVIOUS
  <2> QED
    BY <2>1, <2>2 DEF a
<1>9. S = E(S)
  <2> HIDE DEF E
  <2> QED
    BY <1>3, <1>8
<1>10. \A k \in Nat : S[k] = IF k = 0 THEN a ELSE step(S[k - 1])
  BY <1>9 DEF a
<1>11. \A k \in Nat : k + 1 \in Nat /\ k + 1 # 0 /\ k + 1 - 1 = k
  OBVIOUS
<1>12. S[0] = a /\ \A k \in Nat : S[k + 1] = step(S[k])
  BY <1>10, <1>11
<1> QED
  BY <1>12 DEF GoesBack, step, a, S

\* What is left of a path from the start, as the search found it.
Trail(p, w, g, to) ==
  /\ p \in Seq(Notes) /\ p # <<>> /\ p[1] \in DOMAIN w.depth /\ p[Len(p)] = to
  /\ \A i \in 1..(Len(p) - 1) : \E l \in g.links : l.from = p[i] /\ l.to = p[i + 1]
  /\ w.depth[p[1]] + Len(p) = w.depth[to] + 1

LEMMA TrailGrows ==
  ASSUME NEW g, NEW from, NEW max, NEW w, Explored(w, from, max, g, "outgoing"), NEW to, to \in DOMAIN w.depth,
         NEW p, Trail(p, w, g, to), p[1] # from
  PROVE  Trail(<<w.parent[p[1]]>> \o p, w, g, to)
<1> DEFINE n == p[1]
           m == w.parent[n]
           q == <<m>> \o p
<1>1. n \in DOMAIN w.depth /\ p \in Seq(Notes) /\ Len(p) \in Nat \ {0} /\ DOMAIN p = 1..Len(p)
  BY DEF Trail
<1>2. n \in DOMAIN w.parent
  BY <1>1 DEF Explored
<1>3. m \in DOMAIN w.depth /\ w.depth[n] = w.depth[m] + 1 /\ n \in Successors(g, {m}, "outgoing") /\ m \in Notes
  BY <1>2 DEF Explored
<1>4. w.depth[n] \in Nat /\ w.depth[m] \in Nat /\ w.depth[to] \in Nat
  BY <1>1, <1>3 DEF Explored
<1>5. \E l \in g.links : l.from = m /\ l.to = n
  BY <1>3 DEF Successors
<1> HIDE DEF m
<1>6. /\ q \in Seq(Notes) /\ q # <<>> /\ Len(q) = Len(p) + 1 /\ q[1] = m
      /\ \A i \in 1..Len(p) : q[i + 1] = p[i]
  BY <1>1, <1>3
<1> HIDE DEF q
<1>7. q[Len(q)] = to
  BY <1>1, <1>6 DEF Trail
<1>8. ASSUME NEW i \in 1..(Len(q) - 1)
      PROVE  \E l \in g.links : l.from = q[i] /\ l.to = q[i + 1]
  <2>1. CASE i = 1
    BY <1>1, <1>5, <1>6, <2>1
  <2>2. CASE i # 1
    <3>1. i - 1 \in 1..(Len(p) - 1) /\ i - 1 + 1 = i
      BY <1>1, <1>6, <2>2
    <3>2. i - 1 \in 1..Len(p) /\ i \in 1..Len(p)
      BY <1>1, <3>1
    <3>3. \E l \in g.links : l.from = p[i - 1] /\ l.to = p[i - 1 + 1]
      BY <3>1 DEF Trail
    <3>4. q[i] = p[i - 1] /\ q[i + 1] = p[i]
      BY <1>6, <3>1, <3>2
    <3> QED
      BY <3>1, <3>3, <3>4
  <2> QED
    BY <2>1, <2>2
<1>9. w.depth[q[1]] + Len(q) = w.depth[to] + 1
  <2>1. w.depth[n] + Len(p) = w.depth[to] + 1
    BY DEF Trail
  <2> QED
    BY <1>1, <1>3, <1>4, <1>6, <2>1
<1> QED
  BY <1>3, <1>6, <1>7, <1>8, <1>9 DEF Trail, q, m

\* The path that is answered is one of the graph and none is shorter.
LEMMA PathIsShortest ==
  ASSUME NEW g, IsGraph(g), NEW from, NEW to
  PROVE  IsShortest(g, from, to, ShortestPath(g, from, to))
<1> DEFINE N == Cardinality(Notes)
           next == [n \in Notes |-> GetNeighbors(g, n)]
           w == Explore(<<from>>, next, N)
           D == DOMAIN w.depth
           S == Back(w.parent, from, to)
           path == ShortestPath(g, from, to)
<1>1. N \in Nat
  BY NotesAssumption, FS_CardinalityType
<1>2. path = IF ~ {from, to} \subseteq g.readable \/ to \notin D THEN NoAnswer ELSE S[N]
  BY DEF ShortestPath
<1>3. CASE ~ {from, to} \subseteq g.readable
  BY <1>2, <1>3 DEF IsShortest
<1>4. CASE {from, to} \subseteq g.readable
  <2>1. from \in Notes /\ to \in Notes
    BY <1>4 DEF IsGraph
  <2>2. NextOK(next) /\ Leads(next, g, "outgoing")
    <3>1. ASSUME NEW n \in Notes
          PROVE  /\ next[n] \in Seq(Notes) /\ IsInjective(next[n])
                 /\ ToSet(next[n]) = Successors(g, {n}, "outgoing")
      <4>1. /\ GetNeighbors(g, n) \in Seq(g.readable) /\ ToSet(GetNeighbors(g, n)) = Targets(g, n)
            /\ IsInjective(GetNeighbors(g, n))
        BY NeighborsAreTargets
      <4>2. Successors(g, {n}, "outgoing") = Targets(g, n)
        BY DEF Successors, Targets
      <4>3. g.readable \subseteq Notes
        BY DEF IsGraph
      <4>4. next[n] = GetNeighbors(g, n)
        OBVIOUS
      <4> HIDE DEF next
      <4>5. GetNeighbors(g, n) \in Seq(Notes)
        BY <4>1, <4>3
      <4> QED
        BY <4>1, <4>2, <4>4, <4>5
    <3>2. next = [n \in Notes |-> next[n]]
      OBVIOUS
    <3> HIDE DEF next
    <3>3. next \in [Notes -> Seq(Notes)]
      BY <3>1, <3>2
    <3> QED
      BY <3>1, <3>3 DEF NextOK, Leads
  <2> HIDE DEF next, N
  <2>3. Explored(w, from, N, g, "outgoing")
    BY <1>1, <2>1, <2>2, ExploreIsRight
  <2> HIDE DEF w
  <2>4. /\ w.depth \in [D -> Nat] /\ D \subseteq Notes /\ from \in D /\ w.depth[from] = 0
        /\ \A n \in D : w.depth[n] <= N
        /\ \A n \in DOMAIN w.parent : w.parent[n] \in D /\ w.depth[n] = w.depth[w.parent[n]] + 1
        /\ DOMAIN w.parent = D \ {from}
        /\ \A i \in Nat : i <= N => Within(g, {from}, i, "outgoing") = {n \in D : w.depth[n] <= i}
    BY <2>3 DEF Explored
  <2> DEFINE Near(i) == Within(g, {from}, i, "outgoing")
  <2>7. \A i \in Nat : i <= N => Near(i) = {n \in D : w.depth[n] <= i}
    BY <2>4
  <2> HIDE DEF Near
  <2>5. CASE to \notin D
    <3>1. Near(N) = D
      <4>1. Near(N) = {n \in D : w.depth[n] <= N}
        BY <1>1, <2>7
      <4>2. {n \in D : w.depth[n] <= N} = D
        BY <2>4
      <4> QED
        BY <4>1, <4>2
    <3>2. path = NoAnswer
      BY <1>2, <2>5
    <3> QED
      BY <2>5, <3>1, <3>2 DEF IsShortest, N, Near
  <2>6. CASE to \in D
    <3>1. /\ S[0] = <<to>>
          /\ \A k \in Nat : S[k + 1] = IF S[k][1] = from THEN S[k] ELSE <<w.parent[S[k][1]]>> \o S[k]
      <4> DEFINE parent == w.parent
                 found == D
      <4>1. to \in found /\ DOMAIN parent = found \ {from} /\ \A n \in DOMAIN parent : parent[n] \in found
        BY <2>4, <2>6
      <4> HIDE DEF parent, found
      <4>2. GoesBack(parent, from, to)
        BY <4>1, BackGoesOn
      <4> QED
        BY <4>2 DEF parent, GoesBack
    <3> HIDE DEF S
    <3> DEFINE T == {k \in Nat : Trail(S[k], w, g, to) /\ (S[k][1] = from \/ Len(S[k]) = k + 1)}
    <3>2. 0 \in T
      <4>1. w.depth[to] \in Nat
        BY <2>4, <2>6
      <4>2. Trail(<<to>>, w, g, to)
        BY <2>1, <2>6, <4>1 DEF Trail
      <4> QED
        BY <3>1, <4>2
    <3>3. ASSUME NEW k \in Nat, k \in T
          PROVE  k + 1 \in T
      <4>1. CASE S[k][1] = from
        <5>1. S[k + 1] = S[k]
          BY <3>1, <4>1
        <5> QED
          BY <3>3, <4>1, <5>1
      <4>2. CASE S[k][1] # from
        <5> DEFINE p == S[k]
        <5>1. Trail(p, w, g, to) /\ p[1] # from /\ Len(p) = k + 1 /\ S[k + 1] = <<w.parent[p[1]]>> \o p
          BY <3>1, <3>3, <4>2
        <5> HIDE DEF p
        <5>2. Trail(<<w.parent[p[1]]>> \o p, w, g, to)
          BY <2>3, <2>6, <5>1, TrailGrows
        <5>3. Len(<<w.parent[p[1]]>> \o p) = k + 1 + 1
          BY <5>1 DEF Trail
        <5> DEFINE r == <<w.parent[p[1]]>> \o p
        <5>4. S[k + 1] = r /\ Trail(r, w, g, to) /\ Len(r) = k + 1 + 1
          BY <5>1, <5>2, <5>3
        <5> HIDE DEF r
        <5> QED
          BY <5>4
      <4> QED
        BY <4>1, <4>2
    <3>4. N \in T
      <4> HIDE DEF T
      <4> QED
        BY <1>1, <3>2, <3>3, AllNat
    <3> DEFINE p == S[N]
    <3>5. Trail(p, w, g, to) /\ (p[1] = from \/ Len(p) = N + 1)
      BY <3>4
    <3> HIDE DEF p
    <3>6. /\ p \in Seq(Notes) /\ Len(p) \in Nat \ {0} /\ p[1] \in D /\ p[Len(p)] = to
          /\ w.depth[p[1]] + Len(p) = w.depth[to] + 1
      BY <3>5 DEF Trail
    <3>7. w.depth[p[1]] \in Nat /\ w.depth[to] \in Nat /\ w.depth[to] <= N
      BY <2>4, <2>6, <3>6
    <3>8. p[1] = from
      <4> SUFFICES ASSUME p[1] # from
                   PROVE  FALSE
        OBVIOUS
      <4>1. w.depth[p[1]] = 0
        BY <1>1, <3>5, <3>6, <3>7
      <4>2. p[1] \in DOMAIN w.parent
        BY <2>4, <3>6
      <4>3. w.parent[p[1]] \in D /\ w.depth[p[1]] = w.depth[w.parent[p[1]]] + 1
        BY <2>4, <4>2
      <4>4. w.depth[w.parent[p[1]]] \in Nat
        BY <2>4, <4>3
      <4> QED
        BY <4>1, <4>3, <4>4
    <3>9. Len(p) = w.depth[to] + 1
      BY <2>4, <3>6, <3>7, <3>8
    <3>10. ASSUME Len(p) > 1
           PROVE  to \notin Within(g, {from}, Len(p) - 2, "outgoing")
      <4> DEFINE k == Len(p) - 2
      <4>1. k \in Nat /\ k <= N /\ ~ (w.depth[to] <= k)
        <5> DEFINE n == Len(p)
                   d == w.depth[to]
        <5>1. n \in Nat /\ d \in Nat /\ d <= N /\ n = d + 1 /\ n > 1
          BY <3>6, <3>7, <3>9, <3>10
        <5> HIDE DEF n, d
        <5>2. n - 2 \in Nat /\ n - 2 <= N /\ ~ (d <= n - 2)
          BY <1>1, <5>1
        <5> QED
          BY <5>2 DEF n, d
      <4> HIDE DEF k
      <4>2. Near(k) = {n \in D : w.depth[n] <= k}
        BY <2>7, <4>1
      <4>3. to \notin Near(k)
        BY <4>1, <4>2, Zenon
      <4> QED
        BY <4>3 DEF k, Near
    <3>11. p # NoAnswer
      BY <3>6, NoAnswerAssumption
    <3>12. path = p
      BY <1>2, <1>4, <2>6 DEF p
    <3> HIDE DEF path
    <3>13. \A i \in 1..(Len(p) - 1) : \E l \in g.links : l.from = p[i] /\ l.to = p[i + 1]
      BY <3>5 DEF Trail
    <3>14. IsShortest(g, from, to, p)
      BY <3>6, <3>8, <3>10, <3>11, <3>13 DEF IsShortest
    <3> QED
      BY <3>12, <3>14 DEF path
  <2> QED
    BY <2>5, <2>6
<1> QED
  BY <1>3, <1>4

\* Paths and neighbours are right whatever was asked of whatever vault.
THEOREM GraphAnswersAreRight == FindingSpec => []GraphAnswersRight
<1>1. FindingInit => GraphAnswersRight
  BY DEF FindingInit, NoQuestion, GraphAnswersRight, Asked
<1>2. GraphAnswersRight /\ [Find]_question => GraphAnswersRight'
  <2> SUFFICES ASSUME GraphAnswersRight, [Find]_question
               PROVE  GraphAnswersRight'
    OBVIOUS
  <2>1. CASE AskPath
    <3>1. PICK q \in PathQuestions :
            question' = <<"path", q, ShortestPath(GraphOf(q.links, q.readable), q.from, q.to)>>
      BY <2>1 DEF AskPath, Answered
    <3>2. IsGraph(GraphOf(q.links, q.readable))
      BY GraphQuestionsAssumption, GraphOfIsGraph
    <3>3. IsShortest(GraphOf(q.links, q.readable), q.from, q.to,
                     ShortestPath(GraphOf(q.links, q.readable), q.from, q.to))
      BY <3>2, PathIsShortest
    <3> QED
      BY <3>1, <3>3 DEF GraphAnswersRight, Asked, Q, Answer
  <2>2. CASE AskLevels
    <3>1. PICK q \in LevelQuestions :
            question' = <<"levels", q, Neighbors(GraphOf(q.links, q.readable), q.center, q.depth, q.direction)>>
      BY <2>2 DEF AskLevels, Answered
    <3>2. q.depth \in Nat /\ q.direction \in Directions /\ IsGraph(GraphOf(q.links, q.readable))
      BY GraphQuestionsAssumption, GraphOfIsGraph
    <3>3. AreLevels(GraphOf(q.links, q.readable), q.center, q.depth, q.direction,
                    Neighbors(GraphOf(q.links, q.readable), q.center, q.depth, q.direction))
      BY <3>2, NeighborsAreLevels
    <3> QED
      BY <3>1, <3>3 DEF GraphAnswersRight, Asked, Q, Answer
  <2>3. CASE AskContext \/ AskSearch \/ AskQuery
    BY <2>3 DEF AskContext, AskSearch, AskQuery, Answered, GraphAnswersRight, Asked
  <2>4. CASE question' = question
    BY <2>4 DEF GraphAnswersRight, Asked, Q, Answer
  <2> QED
    BY <2>1, <2>2, <2>3, <2>4 DEF Find
<1> QED
  BY <1>1, <1>2, PTL DEF FindingSpec

-----------------------------------------------------------------------------
(* Rankings.                                                                *)

Row == [id : Ids, score : Int]
IdsOf(s) == {s[i].id : i \in DOMAIN s}

\* Rows of different notes.
Once(s) == s \in Seq(Row) /\ \A i, j \in DOMAIN s : s[i].id = s[j].id => i = j

\* Where both are, a comes first; and where b is, so is a.
Ahead(s, a, b) == \A i, j \in DOMAIN s : s[i].id = a /\ s[j].id = b => i < j
Prefers(s, a, b) == Ahead(s, a, b) /\ (b \in IdsOf(s) => a \in IdsOf(s))

LEMMA RowsCounted ==
  ASSUME NEW s, Once(s)
  PROVE  /\ Len(s) = Cardinality(IdsOf(s)) /\ Len(s) \in Nat /\ DOMAIN s = 1..Len(s) /\ IsFiniteSet(IdsOf(s))
         /\ IdsOf(s) \subseteq Ids /\ \A i \in DOMAIN s : s[i] \in Row /\ s[i].id \in IdsOf(s)
<1> DEFINE n == Len(s)
           f == [i \in 1..n |-> s[i].id]
<1>1. n \in Nat /\ DOMAIN s = 1..n /\ \A i \in 1..n : s[i] \in Row /\ s[i].id \in Ids
  <2>1. n \in Nat /\ DOMAIN s = 1..n /\ \A i \in 1..n : s[i] \in Row
    BY DEF Once
  <2> QED
    BY <2>1 DEF Row
<1> HIDE DEF n
<1>2. f \in Bijection(1..n, IdsOf(s))
  <2>1. f \in [1..n -> IdsOf(s)]
    BY <1>1 DEF IdsOf
  <2>2. \A i, j \in 1..n : f[i] = f[j] => i = j
    BY <1>1 DEF Once
  <2>3. \A x \in IdsOf(s) : \E i \in 1..n : f[i] = x
    BY <1>1 DEF IdsOf
  <2> HIDE DEF f
  <2> QED
    BY <2>1, <2>2, <2>3, Fun_IsBij
<1>3. ExistsBijection(1..n, IdsOf(s))
  BY <1>2 DEF ExistsBijection
<1>4. Cardinality(IdsOf(s)) = n
  BY <1>1, <1>3, FS_CountingElements
<1>5. IsFiniteSet(IdsOf(s))
  BY <1>1, <1>3, FS_NatBijection
<1> QED
  BY <1>1, <1>4, <1>5 DEF IdsOf, n

\* A cut keeps the first rows.
LEMMA CutKeeps ==
  ASSUME NEW S, NEW s \in Seq(S), NEW n \in Nat
  PROVE  /\ Cut(s, n) \in Seq(S) /\ Len(Cut(s, n)) = Smaller(n, Len(s)) /\ DOMAIN Cut(s, n) = 1..Smaller(n, Len(s))
         /\ Smaller(n, Len(s)) \in Nat /\ Smaller(n, Len(s)) <= n /\ Smaller(n, Len(s)) <= Len(s)
         /\ \A i \in DOMAIN Cut(s, n) : i \in DOMAIN s /\ Cut(s, n)[i] = s[i]
         /\ Len(s) <= n => Cut(s, n) = s
<1> DEFINE m == Smaller(n, Len(s))
           c == SubSeq(s, 1, m)
<1>1. Cut(s, n) = c
  BY DEF Cut
<1>2. m \in Nat /\ m <= n /\ m <= Len(s) /\ (Len(s) <= n => m = Len(s)) /\ Len(s) \in Nat
  BY DEF Smaller
<1> HIDE DEF m
<1>3. c \in Seq(S) /\ Len(c) = m /\ DOMAIN c = 1..m /\ \A i \in 1..m : i \in DOMAIN s /\ c[i] = s[i]
  BY <1>2
<1>4. Len(s) <= n => c = s
  <2> SUFFICES ASSUME Len(s) <= n
               PROVE  c = s
    OBVIOUS
  <2>1. m = Len(s)
    BY <1>2
  <2> QED
    BY <1>2, <1>3, <2>1
<1> QED
  BY <1>1, <1>2, <1>3, <1>4 DEF m

LEMMA CutOfRows ==
  ASSUME NEW s, Once(s), NEW n \in Nat
  PROVE  /\ Once(Cut(s, n)) /\ IdsOf(Cut(s, n)) \subseteq IdsOf(s) /\ Len(Cut(s, n)) <= n
         /\ Len(Cut(s, n)) < n => Cut(s, n) = s
         /\ Cardinality(IdsOf(s)) <= n => Cut(s, n) = s
         /\ \A a, b : Ahead(s, a, b) => Ahead(Cut(s, n), a, b)
         /\ \A a, b : Prefers(s, a, b) => Prefers(Cut(s, n), a, b)
<1> DEFINE c == Cut(s, n)
           m == Smaller(n, Len(s))
<1>1. Len(s) = Cardinality(IdsOf(s)) /\ Len(s) \in Nat /\ DOMAIN s = 1..Len(s) /\ s \in Seq(Row)
  BY RowsCounted DEF Once
<1>2. /\ c \in Seq(Row) /\ Len(c) = m /\ DOMAIN c = 1..m /\ m \in Nat /\ m <= n /\ m <= Len(s)
      /\ \A i \in DOMAIN c : i \in DOMAIN s /\ c[i] = s[i]
      /\ Len(s) <= n => c = s
  BY <1>1, CutKeeps
<1>3. Len(c) < n => c = s
  <2> SUFFICES ASSUME Len(c) < n
               PROVE  c = s
    OBVIOUS
  <2>1. Len(s) <= n
    BY <1>1, <1>2 DEF Smaller
  <2> QED
    BY <1>2, <2>1
<1> HIDE DEF c, m
<1>4. Once(c)
  BY <1>2 DEF Once
<1>5. IdsOf(c) \subseteq IdsOf(s)
  BY <1>2 DEF IdsOf
<1>6. ASSUME NEW a, NEW b, Ahead(s, a, b)
      PROVE  Ahead(c, a, b)
  BY <1>2, <1>6 DEF Ahead
<1>7. ASSUME NEW a, NEW b, Prefers(s, a, b)
      PROVE  Prefers(c, a, b)
  <2>1. Ahead(c, a, b)
    BY <1>6, <1>7 DEF Prefers
  <2>2. ASSUME b \in IdsOf(c)
        PROVE  a \in IdsOf(c)
    <3>1. PICK j \in DOMAIN c : c[j].id = b
      BY <2>2 DEF IdsOf
    <3>2. j \in DOMAIN s /\ s[j].id = b
      BY <1>2, <3>1
    <3>3. PICK i \in DOMAIN s : s[i].id = a
      BY <1>7, <3>2 DEF Prefers, IdsOf
    <3>4. i < j
      BY <1>7, <3>2, <3>3 DEF Prefers, Ahead
    <3>5. i \in DOMAIN c
      BY <1>1, <1>2, <3>1, <3>4
    <3> QED
      BY <1>2, <3>3, <3>5 DEF IdsOf
  <2> QED
    BY <2>1, <2>2 DEF Prefers
<1> QED
  BY <1>1, <1>2, <1>3, <1>4, <1>5, <1>6, <1>7 DEF c

\* What the caller may read keeps its order.
LEMMA ReadableRows ==
  ASSUME NEW s, Once(s), NEW A
  PROVE  /\ Once(Readable(s, A)) /\ IdsOf(Readable(s, A)) = IdsOf(s) \cap A
         /\ \A a, b : Ahead(s, a, b) => Ahead(Readable(s, A), a, b)
<1> DEFINE K == {i \in DOMAIN s : s[i].id \in A}
           r == Readable(s, A)
           n == Cardinality(K)
<1>1. s \in Seq(Row) /\ Len(s) \in Nat /\ DOMAIN s = 1..Len(s)
  BY RowsCounted DEF Once
<1>2. r = Picked(s, K) /\ K \in SUBSET DOMAIN s
  BY DEF Readable
<1> HIDE DEF K
<1>3. r \in Seq(Row) /\ Len(r) = n /\ n \in Nat /\ ToSet(r) = {s[k] : k \in K}
  BY <1>1, <1>2, PickedSequence
<1>4. PICK at : PickedAt(at, s, K)
  BY <1>1, <1>2, PickedInPlace
<1>5. at \in [1..n -> K] /\ r = [i \in 1..n |-> s[at[i]]] /\ \A i, j \in 1..n : i < j <=> at[i] < at[j]
  BY <1>2, <1>4 DEF PickedAt
<1> HIDE DEF r, n
<1>6. DOMAIN r = 1..n /\ \A i \in 1..n : at[i] \in DOMAIN s /\ r[i] = s[at[i]]
  BY <1>2, <1>5
<1>7. Once(r)
  <2>1. ASSUME NEW i \in 1..n, NEW j \in 1..n, r[i].id = r[j].id
        PROVE  i = j
    <3>1. at[i] = at[j] /\ at[i] \in Nat
      BY <1>1, <1>6, <2>1 DEF Once
    <3>2. ~ (i < j) /\ ~ (j < i)
      BY <1>5, <3>1
    <3> QED
      BY <1>3, <3>2
  <2> QED
    BY <1>3, <1>6, <2>1 DEF Once
<1>8. IdsOf(r) = IdsOf(s) \cap A
  <2>1. IdsOf(r) = {x.id : x \in ToSet(r)}
    BY DEF IdsOf, ToSet
  <2>2. IdsOf(r) = {s[k].id : k \in K}
    BY <1>3, <2>1
  <2> QED
    BY <2>2 DEF IdsOf, K
<1>9. ASSUME NEW a, NEW b, Ahead(s, a, b)
      PROVE  Ahead(r, a, b)
  <2> SUFFICES ASSUME NEW i \in 1..n, NEW j \in 1..n, r[i].id = a, r[j].id = b
               PROVE  i < j
    BY <1>6 DEF Ahead
  <2>1. at[i] < at[j]
    BY <1>6, <1>9 DEF Ahead
  <2> QED
    BY <1>5, <2>1
<1> QED
  BY <1>7, <1>8, <1>9 DEF r

\* Rows are ranked by their score.
LEMMA RankedRows ==
  ASSUME NEW A \in SUBSET Ids, NEW f \in [A -> Int]
  PROVE  LET s == Ranked({[id |-> n, score |-> f[n]] : n \in A})
         IN /\ Once(s) /\ IdsOf(s) = A /\ \A i \in DOMAIN s : s[i].score = f[s[i].id]
            /\ \A a, b \in A : f[a] > f[b] => Prefers(s, a, b)
<1> DEFINE S == {[id |-> n, score |-> f[n]] : n \in A}
           s == Ranked(S)
           Above(a, b) == a.score > b.score \/ (a.score = b.score /\ a.id < b.id)
           R == {p \in S \X S : Above(p[1], p[2])}
<1>1. A \subseteq Ids /\ IsFiniteSet(A) /\ \A n \in A : n \in Nat
  BY IdsAssumption, FS_Subset
<1>2. \A x \in S : x \in Row /\ x.id \in A /\ x.id \in Nat /\ x.score = f[x.id] /\ x.score \in Int
  BY <1>1 DEF Row
<1>3. \A n \in A : [id |-> n, score |-> f[n]] \in S
  OBVIOUS
<1>4. \A x, y \in S : x.id = y.id => x = y
  OBVIOUS
<1>5. IsFiniteSet(S)
  <2> DEFINE g == [n \in A |-> [id |-> n, score |-> f[n]]]
  <2>1. g \in [A -> S] /\ \A x \in S : \E n \in A : g[n] = x
    OBVIOUS
  <2> HIDE DEF g, S
  <2>2. g \in Surjection(A, S)
    BY <2>1, Fun_IsSurj
  <2> QED
    BY <1>1, <2>2, FS_Surjection
<1> HIDE DEF S
<1>6. \A x, y \in S : <<x, y>> \in R <=> Above(x, y)
  OBVIOUS
<1> HIDE DEF R
<1>7. StrictOrder(S, R)
  <2>1. \A x \in S : <<x, x>> \notin R
    BY <1>2, <1>6
  <2>2. \A x, y, z \in S : <<x, y>> \in R /\ <<y, z>> \in R => <<x, z>> \in R
    BY <1>2, <1>6
  <2>3. ASSUME NEW x \in S, NEW y \in S
        PROVE  x = y \/ <<x, y>> \in R \/ <<y, x>> \in R
    <3>1. x.id = y.id \/ x.id < y.id \/ y.id < x.id
      BY <1>2
    <3>2. x.score = y.score \/ x.score > y.score \/ y.score > x.score
      BY <1>2
    <3> QED
      BY <1>4, <1>6, <3>1, <3>2
  <2> QED
    BY <2>1, <2>2, <2>3 DEF StrictOrder
<1>8. s = OrderedBy(S, R)
  <2>1. \A x \in S : {y \in S : Above(y, x)} = {y \in S : <<y, x>> \in R}
    BY <1>6
  <2>2. s = [i \in 1..Cardinality(S) |-> CHOOSE x \in S : Cardinality({y \in S : Above(y, x)}) = i - 1]
    BY DEF Ranked, Ordered
  <2>3. \A i : (CHOOSE x \in S : Cardinality({y \in S : Above(y, x)}) = i - 1)
                = CHOOSE x \in S : Cardinality({y \in S : <<y, x>> \in R}) = i - 1
    BY <2>1, Zenon
  <2> QED
    BY <2>2, <2>3, Zenon DEF OrderedBy
<1> HIDE DEF s
<1>9. Lists(s, S, R)
  BY <1>5, <1>7, <1>8, OrderedLists
<1> DEFINE n == Cardinality(S)
<1>10. n \in Nat /\ s \in [1..n -> S] /\ (\A x \in S : \E i \in 1..n : s[i] = x)
       /\ \A i, j \in 1..n : i < j <=> <<s[i], s[j]>> \in R
  BY <1>9 DEF Lists
<1> HIDE DEF n
<1>11. s \in Seq(Row) /\ DOMAIN s = 1..n /\ \A i \in 1..n : s[i] \in S
  <2>1. \A i \in 1..n : s[i] \in Row
    BY <1>2, <1>10
  <2> QED
    BY <1>10, <2>1
<1>12. Once(s)
  <2> SUFFICES ASSUME NEW i \in 1..n, NEW j \in 1..n, s[i].id = s[j].id
               PROVE  i = j
    BY <1>11 DEF Once
  <2>1. s[i] = s[j]
    BY <1>4, <1>11
  <2>2. ~ (i < j) /\ ~ (j < i)
    BY <1>7, <1>10, <1>11, <2>1 DEF StrictOrder
  <2> QED
    BY <1>10, <2>2
<1>13. IdsOf(s) = A
  <2>1. \A x \in IdsOf(s) : x \in A
    BY <1>2, <1>11 DEF IdsOf
  <2>2. ASSUME NEW a \in A
        PROVE  a \in IdsOf(s)
    <3>1. PICK i \in 1..n : s[i] = [id |-> a, score |-> f[a]]
      BY <1>3, <1>10
    <3> QED
      BY <1>11, <3>1 DEF IdsOf
  <2> QED
    BY <2>1, <2>2
<1>14. \A i \in DOMAIN s : s[i].score = f[s[i].id]
  BY <1>2, <1>11
<1>15. ASSUME NEW a \in A, NEW b \in A, f[a] > f[b]
       PROVE  Prefers(s, a, b)
  <2> SUFFICES ASSUME NEW i \in 1..n, NEW j \in 1..n, s[i].id = a, s[j].id = b
               PROVE  i < j
    BY <1>11, <1>13 DEF Prefers, Ahead
  <2>1. Above(s[i], s[j])
    BY <1>2, <1>11, <1>15
  <2> QED
    BY <1>6, <1>10, <1>11, <2>1
<1> QED
  BY <1>12, <1>13, <1>14, <1>15 DEF s, S

\* The rows of blocks are among the blocks, and all of them unless cut.
LEMMA BlocksRanked ==
  ASSUME NEW q, Scored(q), NEW n \in Nat
  PROVE  /\ BlockRows(q, n) \in Seq(q.blocks)
         /\ Cardinality(q.blocks) <= n => ToSet(BlockRows(q, n)) = q.blocks
<1> DEFINE S == q.blocks
           Above(a, b) == \/ a.score > b.score
                          \/ (a.score = b.score /\ (a.id < b.id \/ (a.id = b.id /\ a.at < b.at)))
           R == {p \in S \X S : Above(p[1], p[2])}
           s == Ordered(S, Above)
<1>1. IsFiniteSet(S) /\ S \subseteq [id : Ids, at : Int, score : Int]
  BY DEF Scored
<1>2. \A x \in S : /\ x.id \in Nat /\ x.at \in Int /\ x.score \in Int
                   /\ x = [id |-> x.id, at |-> x.at, score |-> x.score]
  BY <1>1, IdsAssumption
<1>3. BlockRows(q, n) = Cut(s, n)
  BY DEF BlockRows
<1> HIDE DEF S
<1>4. \A x, y \in S : <<x, y>> \in R <=> Above(x, y)
  OBVIOUS
<1> HIDE DEF R
<1>5. StrictOrder(S, R)
  <2>1. \A x \in S : <<x, x>> \notin R
    BY <1>2, <1>4
  <2>2. \A x, y, z \in S : <<x, y>> \in R /\ <<y, z>> \in R => <<x, z>> \in R
    BY <1>2, <1>4
  <2>3. ASSUME NEW x \in S, NEW y \in S
        PROVE  x = y \/ <<x, y>> \in R \/ <<y, x>> \in R
    <3>1. x.id = y.id \/ x.id < y.id \/ y.id < x.id
      BY <1>2
    <3>2. x.score = y.score \/ x.score > y.score \/ y.score > x.score
      BY <1>2
    <3>3. x.at = y.at \/ x.at < y.at \/ y.at < x.at
      BY <1>2
    <3>4. x.id = y.id /\ x.score = y.score /\ x.at = y.at => x = y
      BY <1>2
    <3> QED
      BY <1>4, <3>1, <3>2, <3>3, <3>4
  <2> QED
    BY <2>1, <2>2, <2>3 DEF StrictOrder
<1>6. s = OrderedBy(S, R)
  <2>1. \A x \in S : {y \in S : Above(y, x)} = {y \in S : <<y, x>> \in R}
    BY <1>4
  <2>2. s = [i \in 1..Cardinality(S) |-> CHOOSE x \in S : Cardinality({y \in S : Above(y, x)}) = i - 1]
    BY DEF Ordered
  <2>3. \A i : (CHOOSE x \in S : Cardinality({y \in S : Above(y, x)}) = i - 1)
                = CHOOSE x \in S : Cardinality({y \in S : <<y, x>> \in R}) = i - 1
    BY <2>1, Zenon
  <2> QED
    BY <2>2, <2>3, Zenon DEF OrderedBy
<1> HIDE DEF s
<1>7. Lists(s, S, R)
  BY <1>1, <1>5, <1>6, OrderedLists DEF S
<1>8. Cardinality(S) \in Nat /\ s \in [1..Cardinality(S) -> S] /\ \A x \in S : \E i \in 1..Cardinality(S) : s[i] = x
  BY <1>7 DEF Lists
<1>9. s \in Seq(S) /\ Len(s) = Cardinality(S) /\ ToSet(s) = S
  BY <1>8 DEF ToSet
<1>10. Cut(s, n) \in Seq(S) /\ (Len(s) <= n => Cut(s, n) = s)
  BY <1>9, CutKeeps
<1> QED
  BY <1>3, <1>9, <1>10 DEF S

\* A finite set of whole numbers has a best one.
LEMMA BestIsBest ==
  ASSUME NEW T \in SUBSET Int, IsFiniteSet(T), T # {}
  PROVE  Best(T) \in T /\ \A x \in T : x <= Best(T)
<1> DEFINE R == {p \in T \X T : p[1] < p[2]}
           n == Cardinality(T)
           s == OrderedBy(T, R)
<1>1. \A x, y \in T : <<x, y>> \in R <=> x < y
  OBVIOUS
<1> HIDE DEF R
<1>2. StrictOrder(T, R)
  BY <1>1 DEF StrictOrder
<1>3. Lists(s, T, R)
  BY <1>2, OrderedLists
<1> HIDE DEF s
<1>4. n \in Nat /\ s \in [1..n -> T] /\ (\A x \in T : \E i \in 1..n : s[i] = x)
      /\ \A i, j \in 1..n : i < j <=> <<s[i], s[j]>> \in R
  BY <1>3 DEF Lists
<1> HIDE DEF n
<1>5. n > 0
  <2>1. PICK x \in T : TRUE
    OBVIOUS
  <2>2. PICK i \in 1..n : s[i] = x
    BY <1>4, <2>1
  <2> QED
    BY <1>4, <2>2
<1>6. s[n] \in T
  BY <1>4, <1>5
<1>7. ASSUME NEW x \in T
      PROVE  x <= s[n]
  <2>1. PICK i \in 1..n : s[i] = x
    BY <1>4
  <2>2. CASE i = n
    BY <2>1, <2>2
  <2>3. CASE i # n
    <3>1. i < n /\ n \in 1..n
      BY <1>4, <1>5, <2>3
    <3>2. <<s[i], s[n]>> \in R
      BY <1>4, <3>1
    <3>3. s[i] < s[n]
      BY <1>1, <1>6, <2>1, <3>2
    <3>4. s[i] \in Int /\ s[n] \in Int
      BY <1>6, <2>1
    <3> QED
      BY <2>1, <3>3, <3>4
  <2> QED
    BY <2>2, <2>3
<1> QED
  BY <1>6, <1>7 DEF Best

\* The scores that are merged are those of the rows of either kind.
ScoresOf(N, id) == {r.score : r \in {x \in N : x.id = id}}

LEMMA MergedRows ==
  ASSUME NEW notes, NEW blocks, NEW N, N = ToSet(notes) \cup ToSet(blocks), IsFiniteSet(N),
         \A r \in N : r.id \in Ids /\ r.score \in Int
  PROVE  LET s == Merged(notes, blocks)
         IN /\ Once(s) /\ IdsOf(s) = {r.id : r \in N}
            /\ \A r \in N : \A c \in N : \A x, y \in Int :
                 ScoresOf(N, r.id) = {x} /\ ScoresOf(N, c.id) = {y} /\ Larger(x, 0) > Larger(y, 0)
                   => Prefers(s, r.id, c.id)
<1> DEFINE A == {r.id : r \in N}
           f == [id \in A |-> Best(ScoresOf(N, id) \cup {0})]
           s == Merged(notes, blocks)
<1>1. s = Ranked({[id |-> id, score |-> Best(ScoresOf(N, id) \cup {0})] : id \in A})
  BY DEF Merged, ScoresOf
<1>2. ASSUME NEW id
      PROVE  /\ ScoresOf(N, id) \cup {0} \in SUBSET Int /\ IsFiniteSet(ScoresOf(N, id) \cup {0})
  <2> DEFINE X == {x \in N : x.id = id}
             T == ScoresOf(N, id)
             g == [x \in X |-> x.score]
  <2>1. IsFiniteSet(X)
    BY FS_Subset
  <2>2. g \in [X -> T] /\ \A y \in T : \E x \in X : g[x] = y
    BY DEF ScoresOf
  <2>3. T \in SUBSET Int
    BY DEF ScoresOf
  <2> HIDE DEF g, X, T
  <2>4. g \in Surjection(X, T)
    BY <2>2, Fun_IsSurj
  <2>5. IsFiniteSet(T)
    BY <2>1, <2>4, FS_Surjection
  <2>6. IsFiniteSet(T \cup {0})
    BY <2>5, FS_AddElement
  <2> QED
    BY <2>3, <2>6 DEF T
<1>3. ASSUME NEW id
      PROVE  /\ Best(ScoresOf(N, id) \cup {0}) \in ScoresOf(N, id) \cup {0}
             /\ \A x \in ScoresOf(N, id) \cup {0} : x <= Best(ScoresOf(N, id) \cup {0})
             /\ Best(ScoresOf(N, id) \cup {0}) \in Int
  <2> DEFINE T == ScoresOf(N, id) \cup {0}
  <2>1. T \in SUBSET Int /\ IsFiniteSet(T) /\ T # {}
    BY <1>2
  <2> HIDE DEF T
  <2>2. Best(T) \in T /\ \A x \in T : x <= Best(T)
    BY <2>1, BestIsBest
  <2>3. Best(T) \in Int
    BY <2>1, <2>2
  <2> QED
    BY <2>2, <2>3 DEF T
<1>4. A \in SUBSET Ids
  OBVIOUS
<1>5. f \in [A -> Int] /\ \A id \in A : f[id] = Best(ScoresOf(N, id) \cup {0})
  BY <1>3
<1>6. s = Ranked({[id |-> id, score |-> f[id]] : id \in A})
  <2>1. {[id |-> id, score |-> Best(ScoresOf(N, id) \cup {0})] : id \in A} = {[id |-> id, score |-> f[id]] : id \in A}
    BY <1>5
  <2> QED
    BY <1>1, <2>1
<1>7. \A r \in N : r.id \in A
  OBVIOUS
<1> HIDE DEF A, f, s
<1>8. LET t == Ranked({[id |-> id, score |-> f[id]] : id \in A})
      IN /\ Once(t) /\ IdsOf(t) = A
         /\ \A a, b \in A : f[a] > f[b] => Prefers(t, a, b)
  BY <1>4, <1>5, RankedRows
<1>9. Once(s) /\ IdsOf(s) = A /\ \A a, b \in A : f[a] > f[b] => Prefers(s, a, b)
  BY <1>6, <1>8
<1>10. \A id \in A : \A x \in Int : ScoresOf(N, id) = {x} => f[id] = Larger(x, 0)
  <2> SUFFICES ASSUME NEW id \in A, NEW x \in Int, ScoresOf(N, id) = {x}
               PROVE  f[id] = Larger(x, 0)
    OBVIOUS
  <2>1. f[id] \in {x, 0} /\ x <= f[id] /\ 0 <= f[id]
    BY <1>3, <1>5
  <2> QED
    BY <2>1 DEF Larger
<1>11. ASSUME NEW r \in N, NEW c \in N, NEW x \in Int, NEW y \in Int,
              ScoresOf(N, r.id) = {x}, ScoresOf(N, c.id) = {y}, Larger(x, 0) > Larger(y, 0)
       PROVE  Prefers(s, r.id, c.id)
  <2>1. r.id \in A /\ c.id \in A
    BY <1>7
  <2>2. f[r.id] = Larger(x, 0) /\ f[c.id] = Larger(y, 0)
    BY <1>10, <1>11, <2>1
  <2>3. f[r.id] > f[c.id]
    BY <1>11, <2>2
  <2> QED
    BY <1>9, <2>1, <2>3
<1>12. Once(s) /\ IdsOf(s) = {r.id : r \in N}
  BY <1>9 DEF A
<1> QED
  BY <1>11, <1>12 DEF s

-----------------------------------------------------------------------------
(* Shares of a rank.                                                        *)

LEMMA PositiveProduct ==
  ASSUME NEW a \in Nat \ {0}, NEW b \in Nat \ {0}
  PROVE  a * b \in Nat \ {0}
OBVIOUS

LEMMA SmallerProduct ==
  ASSUME NEW a \in Nat \ {0}, NEW b \in Nat \ {0}, NEW x \in Nat \ {0}, NEW y \in Nat \ {0}, x < y, a * x = b * y
  PROVE  a > b
<1> SUFFICES ASSUME a <= b
             PROVE  FALSE
  OBVIOUS
<1>1. a * x <= b * x
  OBVIOUS
<1>2. b * x < b * y
  OBVIOUS
<1> QED
  BY <1>1, <1>2

Produces(P, rank) ==
  /\ P[0] = 1 /\ \A i \in Nat : P[i] \in Nat \ {0}
  /\ \A i \in Nat : P[i + 1] = IF i + 1 = rank THEN P[i] ELSE P[i] * (RrfK + (i + 1))

LEMMA ProductsGoOn ==
  ASSUME NEW rank
  PROVE  Produces(Products(rank), rank)
<1> DEFINE V == Nat \ {0}
           step(i, x) == IF i = rank THEN x ELSE x * (RrfK + i)
           E(f) == [i \in Nat |-> IF i = 0 THEN 1 ELSE step(i, f[i - 1])]
           s == [p \in Nat \X V |-> step(p[1] + 1, p[2])]
           P == Products(rank)
<1>1. \A i \in Nat : \A x \in V : step(i, x) \in V
  <2> TAKE i \in Nat
  <2> TAKE x \in V
  <2>1. RrfK + i \in Nat \ {0}
    BY LimitsAssumption
  <2>2. x * (RrfK + i) \in Nat \ {0}
    BY <2>1, PositiveProduct
  <2> QED
    BY <2>2
<1>2. P = CHOOSE f : f = E(f)
  BY DEF Products
<1>3. 1 \in V
  OBVIOUS
<1> HIDE DEF V, step, P
<1>4. \A p \in Nat \X V : p[1] + 1 \in Nat /\ p[2] \in V
  OBVIOUS
<1>5. s \in [Nat \X V -> V]
  BY <1>1, <1>4
<1>6. \A k \in Nat : \A x \in V : s[<<k, x>>] = step(k + 1, x)
  OBVIOUS
<1> HIDE DEF s
<1>7. Iterates(V, 1, s)
  BY <1>3, <1>5, Iteration
<1>8. PICK f \in [Nat -> V] : f[0] = 1 /\ \A k \in Nat : f[k + 1] = s[<<k, f[k]>>]
  BY <1>7 DEF Iterates
<1>9. f = E(f)
  <2>1. ASSUME NEW k \in Nat
        PROVE  f[k] = IF k = 0 THEN 1 ELSE step(k, f[k - 1])
    <3>1. CASE k = 0
      BY <1>8, <3>1
    <3>2. CASE k # 0
      <4>1. k - 1 \in Nat /\ k - 1 + 1 = k /\ f[k - 1] \in V
        BY <3>2
      <4>2. f[k - 1 + 1] = s[<<k - 1, f[k - 1]>>]
        BY <1>8, <4>1
      <4> QED
        BY <1>6, <3>2, <4>1, <4>2
    <3> QED
      BY <3>1, <3>2
  <2>2. f = [k \in Nat |-> f[k]]
    OBVIOUS
  <2> QED
    BY <2>1, <2>2
<1>10. P = E(P)
  <2> HIDE DEF E
  <2> QED
    BY <1>2, <1>9
<1>11. \A k \in Nat : P[k] = IF k = 0 THEN 1 ELSE step(k, P[k - 1])
  BY <1>10
<1>12. \A k \in Nat : k + 1 \in Nat /\ k + 1 # 0 /\ k + 1 - 1 = k
  OBVIOUS
<1>13. P[0] = 1 /\ \A k \in Nat : P[k + 1] = step(k + 1, P[k])
  BY <1>11, <1>12
<1> DEFINE T == {k \in Nat : P[k] \in V}
<1>14. 0 \in T
  BY <1>3, <1>13
<1>15. \A k \in Nat : k \in T => k + 1 \in T
  BY <1>1, <1>12, <1>13
<1>16. \A k \in Nat : k \in T
  <2> HIDE DEF T
  <2> QED
    BY <1>14, <1>15, AllNat
<1>17. \A k \in Nat : P[k] \in V
  BY <1>16
<1> QED
  BY <1>13, <1>17 DEF Produces, V, step, P

\* A better rank has a larger share.
LEMMA SharesDecrease ==
  ASSUME NEW r \in 1..Cardinality(Ids), NEW t \in 1..Cardinality(Ids)
  PROVE  Share(r) \in Nat \ {0} /\ (r < t => Share(r) > Share(t))
<1> DEFINE N == Cardinality(Ids)
           A == Products(r)
           B == Products(t)
<1>1. N \in Nat
  BY IdsAssumption, FS_CardinalityType
<1>2. Produces(A, r) /\ Produces(B, t)
  BY ProductsGoOn
<1>3. Share(r) = A[N] /\ Share(t) = B[N]
  BY DEF Share
<1> HIDE DEF A, B
<1>4. \A i \in Nat : A[i] \in Nat \ {0} /\ B[i] \in Nat \ {0}
  BY <1>2 DEF Produces
<1>5. ASSUME r < t
      PROVE  A[N] > B[N]
  <2> DEFINE x == RrfK + r
             y == RrfK + t
  <2>1. x \in Nat \ {0} /\ y \in Nat \ {0} /\ x < y /\ r \in Nat /\ t \in Nat
    BY <1>1, <1>5, LimitsAssumption
  <2> DEFINE S == {i \in Nat : /\ i < r => A[i] = B[i]
                               /\ r <= i /\ i < t => B[i] = A[i] * x
                               /\ t <= i => A[i] * x = B[i] * y}
  <2>2. 0 \in S
    BY <1>2 DEF Produces
  <2>3. ASSUME NEW i \in Nat, i \in S
        PROVE  i + 1 \in S
    <3> DEFINE k == i + 1
               z == RrfK + k
               a == A[i]
               b == B[i]
    <3>1. /\ A[k] = IF k = r THEN a ELSE a * z
          /\ B[k] = IF k = t THEN b ELSE b * z
      BY <1>2 DEF Produces
    <3>2. a \in Nat /\ b \in Nat /\ z \in Nat /\ k \in Nat
      BY <1>4, LimitsAssumption
    <3>3. /\ i < r => a = b
          /\ r <= i /\ i < t => b = a * x
          /\ t <= i => a * x = b * y
      BY <2>3
    <3>4. (a * x) * z = (a * z) * x /\ (b * y) * z = (b * z) * y
      <4> HIDE DEF a, b, x, y, z
      <4> QED
        BY <2>1, <3>2
    <3>5. CASE k < r
      <4>1. i < r /\ k # r /\ k # t
        BY <1>5, <2>1, <3>5
      <4>2. A[k] = B[k]
        BY <3>1, <3>3, <4>1
      <4> QED
        BY <1>5, <2>1, <3>5, <4>2
    <3>6. CASE k = r
      <4>1. i < r /\ k # t /\ x = z /\ k < t
        BY <1>5, <2>1, <3>6
      <4>2. A[k] = a /\ B[k] = a * x
        BY <3>1, <3>3, <3>6, <4>1
      <4>3. B[k] = A[k] * x
        BY <4>2
      <4> QED
        BY <2>1, <3>6, <4>1, <4>3
    <3>7. CASE r < k /\ k < t
      <4>1. r <= i /\ i < t /\ k # r /\ k # t
        BY <2>1, <3>7
      <4>2. A[k] = a * z /\ B[k] = (a * x) * z
        BY <3>1, <3>3, <4>1
      <4>3. B[k] = A[k] * x
        BY <3>4, <4>2
      <4> QED
        BY <2>1, <3>7, <4>3
    <3>8. CASE k = t
      <4>1. r <= i /\ i < t /\ k # r /\ z = y
        BY <1>5, <2>1, <3>8
      <4>2. A[k] = a * z /\ B[k] = a * x
        BY <3>1, <3>3, <3>8, <4>1
      <4>3. A[k] * x = B[k] * y
        BY <3>4, <4>1, <4>2
      <4> QED
        BY <1>5, <2>1, <3>8, <4>3
    <3>9. CASE t < k
      <4>1. t <= i /\ k # r /\ k # t
        BY <1>5, <2>1, <3>9
      <4>2. A[k] = a * z /\ B[k] = b * z /\ a * x = b * y
        BY <3>1, <3>3, <4>1
      <4>3. A[k] * x = B[k] * y
        BY <3>4, <4>2
      <4> QED
        BY <1>5, <2>1, <3>9, <4>3
    <3> QED
      BY <2>1, <3>2, <3>5, <3>6, <3>7, <3>8, <3>9
  <2>4. N \in S
    <3> HIDE DEF S, N
    <3> QED
      BY <1>1, <2>2, <2>3, AllNat
  <2>5. t <= N
    BY <1>1
  <2>6. A[N] * x = B[N] * y
    BY <2>4, <2>5
  <2> HIDE DEF x, y, N
  <2>7. A[N] \in Nat \ {0} /\ B[N] \in Nat \ {0}
    BY <1>1, <1>4
  <2> DEFINE c == A[N]
             d == B[N]
  <2>8. c \in Nat \ {0} /\ d \in Nat \ {0} /\ c * x = d * y
    BY <2>6, <2>7
  <2> HIDE DEF c, d
  <2>9. c > d
    BY <2>1, <2>8, SmallerProduct
  <2> QED
    BY <2>9 DEF c, d
<1> QED
  BY <1>1, <1>3, <1>4, <1>5

\* What a ranking gives to a note.
ShareIn(s, id) == IF \E i \in DOMAIN s : s[i].id = id THEN Share(CHOOSE i \in DOMAIN s : s[i].id = id) ELSE 0

LEMMA ShareOfPlace ==
  ASSUME NEW s, Once(s), NEW id
  PROVE  /\ ShareIn(s, id) \in Nat
         /\ \A i \in DOMAIN s : s[i].id = id =>
              ShareIn(s, id) = Share(i) /\ i \in 1..Cardinality(Ids) /\ ShareIn(s, id) > 0
         /\ id \notin IdsOf(s) => ShareIn(s, id) = 0
<1>1. Len(s) = Cardinality(IdsOf(s)) /\ Len(s) \in Nat /\ DOMAIN s = 1..Len(s) /\ IdsOf(s) \in SUBSET Ids
  BY RowsCounted
<1>2. Len(s) <= Cardinality(Ids) /\ Cardinality(Ids) \in Nat
  BY <1>1, IdsAssumption, FS_Subset, FS_CardinalityType
<1>3. ASSUME NEW i \in DOMAIN s, s[i].id = id
      PROVE  ShareIn(s, id) = Share(i) /\ i \in 1..Cardinality(Ids) /\ ShareIn(s, id) \in Nat /\ ShareIn(s, id) > 0
  <2>1. \A j \in DOMAIN s : s[j].id = id <=> j = i
    BY <1>3 DEF Once
  <2>2. (CHOOSE j \in DOMAIN s : s[j].id = id) = i
    BY <2>1
  <2>3. ShareIn(s, id) = Share(i)
    BY <1>3, <2>2 DEF ShareIn
  <2>4. i \in 1..Cardinality(Ids)
    BY <1>1, <1>2
  <2>5. Share(i) \in Nat \ {0}
    BY <2>4, SharesDecrease
  <2> QED
    BY <2>3, <2>4, <2>5
<1>4. id \notin IdsOf(s) => ShareIn(s, id) = 0
  BY DEF IdsOf, ShareIn
<1>5. ShareIn(s, id) \in Nat
  <2>1. CASE id \in IdsOf(s)
    BY <1>3, <2>1 DEF IdsOf
  <2> QED
    BY <1>4, <2>1
<1> QED
  BY <1>3, <1>4, <1>5

LEMMA SharesOfPreferred ==
  ASSUME NEW s, Once(s), NEW a, NEW b, Prefers(s, a, b)
  PROVE  ShareIn(s, a) >= ShareIn(s, b) /\ (b \in IdsOf(s) => ShareIn(s, a) > ShareIn(s, b))
<1>1. ShareIn(s, a) \in Nat /\ ShareIn(s, b) \in Nat /\ (b \notin IdsOf(s) => ShareIn(s, b) = 0)
  BY ShareOfPlace
<1>2. ASSUME b \in IdsOf(s)
      PROVE  ShareIn(s, a) > ShareIn(s, b)
  <2>1. PICK j \in DOMAIN s : s[j].id = b
    BY <1>2 DEF IdsOf
  <2>2. PICK i \in DOMAIN s : s[i].id = a
    BY <1>2 DEF Prefers, IdsOf
  <2>3. i < j
    BY <2>1, <2>2 DEF Prefers, Ahead
  <2>4. ShareIn(s, a) = Share(i) /\ i \in 1..Cardinality(Ids)
    BY <2>2, ShareOfPlace
  <2>5. ShareIn(s, b) = Share(j) /\ j \in 1..Cardinality(Ids)
    BY <2>1, ShareOfPlace
  <2>6. Share(i) > Share(j)
    BY <2>3, <2>4, <2>5, SharesDecrease
  <2> QED
    BY <2>4, <2>5, <2>6
<1> QED
  BY <1>1, <1>2

\* A note at least as high in both rankings is at least as high in the fused one.
LEMMA HybridRows ==
  ASSUME NEW full, Once(full), NEW semantic, Once(semantic)
  PROVE  LET s == Hybrid(full, semantic)
         IN /\ Once(s) /\ IdsOf(s) = IdsOf(full) \cup IdsOf(semantic)
            /\ \A a, b : Prefers(full, a, b) /\ Prefers(semantic, a, b) => Prefers(s, a, b)
<1> DEFINE A == IdsOf(full) \cup IdsOf(semantic)
           f == [id \in A |-> ShareIn(full, id) + ShareIn(semantic, id)]
           s == Hybrid(full, semantic)
<1>1. s = Ranked({[id |-> id, score |-> ShareIn(full, id) + ShareIn(semantic, id)] : id \in
                    {r.id : r \in ToSet(full) \cup ToSet(semantic)}})
  BY DEF Hybrid, ShareIn
<1>2. {r.id : r \in ToSet(full) \cup ToSet(semantic)} = A
  BY DEF ToSet, IdsOf
<1>3. A \in SUBSET Ids
  <2>1. IdsOf(full) \subseteq Ids /\ IdsOf(semantic) \subseteq Ids
    BY RowsCounted
  <2> QED
    BY <2>1
<1>4. \A id : ShareIn(full, id) \in Nat /\ ShareIn(semantic, id) \in Nat
  BY ShareOfPlace
<1>5. f \in [A -> Int]
  BY <1>4
<1>6. {[id |-> id, score |-> ShareIn(full, id) + ShareIn(semantic, id)] : id \in A}
        = {[id |-> id, score |-> f[id]] : id \in A}
  OBVIOUS
<1>7. s = Ranked({[id |-> id, score |-> f[id]] : id \in A})
  <2>1. s = Ranked({[id |-> id, score |-> ShareIn(full, id) + ShareIn(semantic, id)] : id \in A})
    BY <1>1, <1>2, Zenon
  <2> QED
    BY <1>6, <2>1, Zenon
<1>8. \A id \in A : f[id] = ShareIn(full, id) + ShareIn(semantic, id)
  OBVIOUS
<1>9. \A id : id \in A <=> id \in IdsOf(full) \/ id \in IdsOf(semantic)
  OBVIOUS
<1> HIDE DEF A, f, s
<1>10. LET t == Ranked({[id |-> id, score |-> f[id]] : id \in A})
       IN Once(t) /\ IdsOf(t) = A /\ \A a, b \in A : f[a] > f[b] => Prefers(t, a, b)
  BY <1>3, <1>5, RankedRows
<1>11. Once(s) /\ IdsOf(s) = A /\ \A a, b \in A : f[a] > f[b] => Prefers(s, a, b)
  BY <1>7, <1>10
<1>12. ASSUME NEW a, NEW b, Prefers(full, a, b), Prefers(semantic, a, b)
       PROVE  Prefers(s, a, b)
  <2>1. CASE b \notin A
    BY <1>11, <2>1 DEF Prefers, Ahead, IdsOf
  <2>2. CASE b \in A
    <3>1. a \in A
      BY <1>9, <1>12, <2>2 DEF Prefers
    <3>2. /\ ShareIn(full, a) >= ShareIn(full, b)
          /\ b \in IdsOf(full) => ShareIn(full, a) > ShareIn(full, b)
      BY <1>12, SharesOfPreferred
    <3>3. /\ ShareIn(semantic, a) >= ShareIn(semantic, b)
          /\ b \in IdsOf(semantic) => ShareIn(semantic, a) > ShareIn(semantic, b)
      BY <1>12, SharesOfPreferred
    <3>4. ShareIn(full, a) + ShareIn(semantic, a) > ShareIn(full, b) + ShareIn(semantic, b)
      BY <1>4, <1>9, <2>2, <3>2, <3>3
    <3> QED
      BY <1>8, <1>11, <2>2, <3>1, <3>4
  <2> QED
    BY <2>1, <2>2
<1> QED
  BY <1>11, <1>12 DEF s, A

LEMMA NoRows ==
  Once(<<>>) /\ IdsOf(<<>>) = {} /\ \A a, b : Prefers(<<>>, a, b)
BY DEF Once, IdsOf, Prefers, Ahead

\* The ranking of a mode finds what its parts do and prefers what they prefer.
LEMMA ByModeRows ==
  ASSUME NEW mode \in {"fulltext", "semantic", "hybrid"}, NEW full, Once(full), NEW semantic, Once(semantic)
  PROVE  LET s == ByMode(mode, full, semantic)
         IN /\ Once(s)
            /\ IdsOf(s) = (IF mode = "semantic" THEN {} ELSE IdsOf(full))
                            \cup (IF mode = "fulltext" THEN {} ELSE IdsOf(semantic))
            /\ \A a, b : /\ mode # "semantic" => Prefers(full, a, b)
                         /\ mode # "fulltext" => Prefers(semantic, a, b)
                         => Prefers(s, a, b)
<1>1. CASE mode = "fulltext"
  BY <1>1 DEF ByMode
<1>2. CASE mode = "semantic"
  BY <1>2 DEF ByMode
<1>3. CASE mode = "hybrid"
  <2> DEFINE s == Hybrid(full, semantic)
  <2>1. ByMode(mode, full, semantic) = s
    BY <1>3 DEF ByMode
  <2>2. Once(s) /\ IdsOf(s) = IdsOf(full) \cup IdsOf(semantic)
        /\ \A a, b : Prefers(full, a, b) /\ Prefers(semantic, a, b) => Prefers(s, a, b)
    BY HybridRows
  <2> HIDE DEF s
  <2> QED
    BY <1>3, <2>1, <2>2
<1> QED
  BY <1>1, <1>2, <1>3

-----------------------------------------------------------------------------
(* The rankings a search is made of.                                        *)

LEMMA MembersFinite ==
  ASSUME NEW S, NEW s \in Seq(S)
  PROVE  IsFiniteSet(ToSet(s)) /\ ToSet(s) \subseteq S
<1> DEFINE n == Len(s)
           f == [i \in 1..n |-> s[i]]
<1>1. n \in Nat /\ DOMAIN s = 1..n /\ \A i \in 1..n : s[i] \in S
  OBVIOUS
<1> HIDE DEF n
<1>2. f \in [1..n -> ToSet(s)] /\ \A x \in ToSet(s) : \E i \in 1..n : f[i] = x
  BY <1>1 DEF ToSet
<1> HIDE DEF f
<1>3. f \in Surjection(1..n, ToSet(s))
  BY <1>2, Fun_IsSurj
<1>4. IsFiniteSet(1..n)
  BY <1>1, FS_Interval
<1>5. IsFiniteSet(ToSet(s))
  BY <1>3, <1>4, FS_Surjection
<1> QED
  BY <1>1, <1>5 DEF ToSet

LEMMA FulltextRows ==
  ASSUME NEW q, Scored(q), NEW docs \in SUBSET Ids
  PROVE  LET s == Fulltext(q, docs)
         IN /\ Once(s) /\ IdsOf(s) = {n \in docs : q.text[n] > 0}
            /\ \A a, b \in docs : q.text[a] > q.text[b] => Prefers(s, a, b)
<1> DEFINE A == {n \in docs : q.text[n] > 0}
           f == [n \in A |-> q.text[n]]
           s == Fulltext(q, docs)
<1>1. \A n \in docs : q.text[n] \in Nat
  BY DEF Scored
<1>2. A \in SUBSET Ids /\ f \in [A -> Int] /\ \A n \in A : f[n] = q.text[n]
  BY <1>1
<1>3. s = Ranked({[id |-> n, score |-> f[n]] : n \in A})
  <2>1. {[id |-> n, score |-> q.text[n]] : n \in A} = {[id |-> n, score |-> f[n]] : n \in A}
    BY <1>2
  <2> QED
    BY <2>1 DEF Fulltext
<1>4. \A n \in docs : n \in A <=> q.text[n] > 0
  OBVIOUS
<1> HIDE DEF A, f, s
<1>5. LET t == Ranked({[id |-> n, score |-> f[n]] : n \in A})
      IN Once(t) /\ IdsOf(t) = A /\ \A a, b \in A : f[a] > f[b] => Prefers(t, a, b)
  BY <1>2, RankedRows
<1>6. Once(s) /\ IdsOf(s) = A /\ \A a, b \in A : f[a] > f[b] => Prefers(s, a, b)
  BY <1>3, <1>5
<1>7. ASSUME NEW a \in docs, NEW b \in docs, q.text[a] > q.text[b]
      PROVE  Prefers(s, a, b)
  <2>1. CASE b \in A
    BY <1>1, <1>2, <1>4, <1>6, <1>7, <2>1
  <2>2. CASE b \notin A
    BY <1>6, <2>2 DEF Prefers, Ahead, IdsOf
  <2> QED
    BY <2>1, <2>2
<1> QED
  BY <1>6, <1>7 DEF s, A

\* The rows of the vectors of the notes in A.
LEMMA VectorRows ==
  ASSUME NEW q, Scored(q), NEW A \in SUBSET Ids
  PROVE  LET s == Ranked({[id |-> n, score |-> q.vector[n]] : n \in A})
         IN /\ Once(s) /\ IdsOf(s) = A /\ \A i \in DOMAIN s : s[i].score = q.vector[s[i].id]
            /\ \A a, b \in Ids : (b \in A => a \in A) /\ q.vector[a] > q.vector[b] => Prefers(s, a, b)
<1> DEFINE f == [n \in A |-> q.vector[n]]
           s == Ranked({[id |-> n, score |-> q.vector[n]] : n \in A})
<1>1. \A n \in Ids : q.vector[n] \in Int
  BY DEF Scored
<1>2. f \in [A -> Int] /\ \A n \in A : f[n] = q.vector[n]
  BY <1>1
<1>3. s = Ranked({[id |-> n, score |-> f[n]] : n \in A})
  <2>1. {[id |-> n, score |-> q.vector[n]] : n \in A} = {[id |-> n, score |-> f[n]] : n \in A}
    BY <1>2
  <2> QED
    BY <2>1
<1> HIDE DEF f, s
<1>4. LET t == Ranked({[id |-> n, score |-> f[n]] : n \in A})
      IN /\ Once(t) /\ IdsOf(t) = A /\ \A i \in DOMAIN t : t[i].score = f[t[i].id]
         /\ \A a, b \in A : f[a] > f[b] => Prefers(t, a, b)
  BY <1>2, RankedRows
<1>5. /\ Once(s) /\ IdsOf(s) = A /\ \A i \in DOMAIN s : s[i].score = f[s[i].id]
      /\ \A a, b \in A : f[a] > f[b] => Prefers(s, a, b)
  BY <1>3, <1>4
<1>6. \A i \in DOMAIN s : s[i].score = q.vector[s[i].id]
  <2> TAKE i \in DOMAIN s
  <2>1. s[i].id \in A
    BY <1>5 DEF IdsOf
  <2> QED
    BY <1>2, <1>5, <2>1
<1>7. ASSUME NEW a \in Ids, NEW b \in Ids, b \in A => a \in A, q.vector[a] > q.vector[b]
      PROVE  Prefers(s, a, b)
  <2>1. CASE b \in A
    BY <1>2, <1>5, <1>7, <2>1
  <2>2. CASE b \notin A
    BY <1>5, <2>2 DEF Prefers, Ahead, IdsOf
  <2> QED
    BY <2>1, <2>2
<1> QED
  BY <1>5, <1>6, <1>7 DEF s

LEMMA MemoryRows ==
  ASSUME NEW q, Scored(q), NEW docs \in SUBSET Ids
  PROVE  LET s == SemanticMemory(q, docs)
         IN /\ Once(s) /\ IdsOf(s) = IF q.embeds THEN {n \in docs : q.vector[n] > 0} ELSE {}
            /\ \A i \in DOMAIN s : s[i].score = q.vector[s[i].id]
            /\ \A a, b \in docs : (q.embeds => Larger(q.vector[a], 0) > Larger(q.vector[b], 0)) => Prefers(s, a, b)
<1> DEFINE s == SemanticMemory(q, docs)
           A == {n \in docs : q.vector[n] > 0}
<1>1. \A n \in Ids : q.vector[n] \in Int
  BY DEF Scored
<1>2. CASE ~ q.embeds
  <2>1. s = <<>>
    BY <1>2 DEF SemanticMemory
  <2> HIDE DEF s
  <2>2. Once(s) /\ IdsOf(s) = {} /\ \A a, b : Prefers(s, a, b)
    BY <2>1, NoRows
  <2>3. DOMAIN s = {}
    BY <2>1
  <2> QED
    BY <1>2, <2>2, <2>3 DEF s
<1>3. CASE q.embeds
  <2>1. s = Ranked({[id |-> n, score |-> q.vector[n]] : n \in A})
    BY <1>3 DEF SemanticMemory
  <2>2. A \in SUBSET Ids
    OBVIOUS
  <2>3. \A n \in docs : n \in A <=> q.vector[n] > 0
    OBVIOUS
  <2> HIDE DEF s, A
  <2>4. LET t == Ranked({[id |-> n, score |-> q.vector[n]] : n \in A})
        IN /\ Once(t) /\ IdsOf(t) = A /\ \A i \in DOMAIN t : t[i].score = q.vector[t[i].id]
           /\ \A a, b \in Ids : (b \in A => a \in A) /\ q.vector[a] > q.vector[b] => Prefers(t, a, b)
    BY <2>2, VectorRows
  <2>5. /\ Once(s) /\ IdsOf(s) = A /\ \A i \in DOMAIN s : s[i].score = q.vector[s[i].id]
        /\ \A a, b \in Ids : (b \in A => a \in A) /\ q.vector[a] > q.vector[b] => Prefers(s, a, b)
    BY <2>1, <2>4
  <2>6. ASSUME NEW a \in docs, NEW b \in docs, Larger(q.vector[a], 0) > Larger(q.vector[b], 0)
        PROVE  Prefers(s, a, b)
    <3>1. q.vector[a] > q.vector[b] /\ q.vector[a] > 0
      BY <1>1, <2>6 DEF Larger
    <3> QED
      BY <2>3, <2>5, <3>1
  <2> QED
    BY <1>3, <2>5, <2>6 DEF s, A
<1> QED
  BY <1>2, <1>3

\* Notes and blocks merged: a note without blocks keeps its place.
LEMMA MergedPrefers ==
  ASSUME NEW notes, Once(notes), NEW S, NEW blocks \in Seq(S), \A r \in S : r.id \in Ids /\ r.score \in Int
  PROVE  LET s == Merged(notes, blocks)
         IN /\ Once(s) /\ IdsOf(s) = IdsOf(notes) \cup {r.id : r \in ToSet(blocks)}
            /\ \A f, a, b :
                 /\ \A i \in DOMAIN notes : notes[i].score = f[notes[i].id]
                 /\ \A k \in S : k.id # a /\ k.id # b
                 /\ Prefers(notes, a, b) /\ Larger(f[a], 0) > Larger(f[b], 0)
                 => Prefers(s, a, b)
<1> DEFINE s == Merged(notes, blocks)
           N == ToSet(notes) \cup ToSet(blocks)
<1>1. notes \in Seq(Row)
  BY DEF Once
<1>2. IsFiniteSet(ToSet(notes)) /\ ToSet(notes) \subseteq Row /\ IsFiniteSet(ToSet(blocks)) /\ ToSet(blocks) \subseteq S
  BY <1>1, MembersFinite
<1>3. IsFiniteSet(N)
  BY <1>2, FS_Union
<1>4. \A r \in N : r.id \in Ids /\ r.score \in Int
  BY <1>2 DEF Row
<1>5. \A x : x \in N <=> x \in ToSet(notes) \/ x \in ToSet(blocks)
  OBVIOUS
<1>6. N = ToSet(notes) \cup ToSet(blocks)
  OBVIOUS
<1> HIDE DEF N, s
<1>7. LET t == Merged(notes, blocks)
      IN /\ Once(t) /\ IdsOf(t) = {r.id : r \in N}
         /\ \A r \in N : \A c \in N : \A x, y \in Int :
              ScoresOf(N, r.id) = {x} /\ ScoresOf(N, c.id) = {y} /\ Larger(x, 0) > Larger(y, 0)
                => Prefers(t, r.id, c.id)
  BY <1>3, <1>4, <1>6, MergedRows
<1>8. /\ Once(s) /\ IdsOf(s) = {r.id : r \in N}
      /\ \A r \in N : \A c \in N : \A x, y \in Int :
           ScoresOf(N, r.id) = {x} /\ ScoresOf(N, c.id) = {y} /\ Larger(x, 0) > Larger(y, 0)
             => Prefers(s, r.id, c.id)
  BY <1>7 DEF s
<1>9. IdsOf(s) = IdsOf(notes) \cup {r.id : r \in ToSet(blocks)}
  BY <1>8 DEF N, IdsOf, ToSet
<1>10. ASSUME NEW f, NEW a, NEW b, \A i \in DOMAIN notes : notes[i].score = f[notes[i].id],
              \A k \in S : k.id # a /\ k.id # b, Prefers(notes, a, b), Larger(f[a], 0) > Larger(f[b], 0)
       PROVE  Prefers(s, a, b)
  <2>1. CASE b \notin IdsOf(notes)
    <3>1. b \notin IdsOf(s)
      BY <1>2, <1>9, <1>10, <2>1
    <3> QED
      BY <3>1 DEF Prefers, Ahead, IdsOf
  <2>2. CASE b \in IdsOf(notes)
    <3>1. PICK j \in DOMAIN notes : notes[j].id = b
      BY <2>2 DEF IdsOf
    <3>2. PICK i \in DOMAIN notes : notes[i].id = a
      BY <1>10, <2>2 DEF Prefers, IdsOf
    <3>3. notes[i] \in N /\ notes[j] \in N /\ notes[i].score = f[a] /\ notes[j].score = f[b]
      BY <1>5, <1>10, <3>1, <3>2 DEF ToSet
    <3>4. \A r \in N : r.id \in {a, b} => \E k \in DOMAIN notes : r = notes[k]
      BY <1>2, <1>5, <1>10 DEF ToSet
    <3>5. ScoresOf(N, a) = {f[a]}
      <4>1. \A r \in N : r.id = a => r.score = f[a]
        BY <1>10, <3>4
      <4> QED
        BY <3>2, <3>3, <4>1 DEF ScoresOf
    <3>6. ScoresOf(N, b) = {f[b]}
      <4>1. \A r \in N : r.id = b => r.score = f[b]
        BY <1>10, <3>4
      <4> QED
        BY <3>1, <3>3, <4>1 DEF ScoresOf
    <3>7. f[a] \in Int /\ f[b] \in Int
      BY <1>4, <3>3
    <3>8. Prefers(s, notes[i].id, notes[j].id)
      BY <1>8, <1>10, <3>1, <3>2, <3>3, <3>5, <3>6, <3>7
    <3> QED
      BY <3>1, <3>2, <3>8
  <2> QED
    BY <2>1, <2>2
<1> QED
  BY <1>8, <1>9, <1>10 DEF s

-----------------------------------------------------------------------------
(* Searches.                                                                *)

Vectored(q) == {n \in Ids : q.vector[n] # NoVector}
Blocked(q) == {b.id : b \in q.blocks}

\* a is above b by the vectors, whatever the blocks are.
NearerThan(q, a, b) ==
  q.embeds => Larger(q.vector[a], 0) > Larger(q.vector[b], 0) /\ \A k \in q.blocks : k.id # a /\ k.id # b

LEMMA SemanticFromRows ==
  ASSUME NEW q, Scored(q), NEW n \in Nat
  PROVE  LET s == SemanticRows(q, n)
         IN /\ Once(s) /\ IdsOf(s) \subseteq IF q.embeds THEN Vectored(q) \cup Blocked(q) ELSE {}
            /\ q.embeds /\ Cardinality(Vectored(q) \cup Blocked(q)) <= n /\ Cardinality(q.blocks) <= n
                 => IdsOf(s) = Vectored(q) \cup Blocked(q)
            /\ \A a, b \in Ids : NearerThan(q, a, b) => Prefers(s, a, b)
<1> DEFINE s == SemanticRows(q, n)
           V == Vectored(q)
           B == Blocked(q)
           all == Ranked({[id |-> m, score |-> q.vector[m]] : m \in V})
           notes == NoteRows(q, n)
           blocks == BlockRows(q, n)
           merged == Merged(notes, blocks)
<1>1. CASE ~ q.embeds
  <2>1. s = <<>>
    BY <1>1 DEF SemanticRows
  <2> HIDE DEF s
  <2>2. Once(s) /\ IdsOf(s) = {} /\ \A a, b : Prefers(s, a, b)
    BY <2>1, NoRows
  <2> QED
    BY <1>1, <2>2 DEF s
<1>2. CASE q.embeds
  <2>1. s = Cut(merged, n)
    BY <1>2 DEF SemanticRows
  <2>2. notes = Cut(all, n)
    BY DEF NoteRows, Vectored
  <2>3. V \in SUBSET Ids /\ B \in SUBSET Ids /\ (\A m \in Ids : m \in V <=> q.vector[m] # NoVector)
    BY DEF Vectored, Blocked, Scored
  <2>4. \A m \in Ids : q.vector[m] \in Int
    BY DEF Scored
  <2>5. \A r \in q.blocks : r.id \in Ids /\ r.score \in Int
    BY DEF Scored
  <2>6. blocks \in Seq(q.blocks) /\ (Cardinality(q.blocks) <= n => ToSet(blocks) = q.blocks)
    BY BlocksRanked
  <2>7. ToSet(blocks) \subseteq q.blocks
    BY <2>6, MembersFinite
  <2> HIDE DEF s, V, B, all, notes, blocks, merged
  <2>8. /\ Once(all) /\ IdsOf(all) = V /\ \A i \in DOMAIN all : all[i].score = q.vector[all[i].id]
        /\ \A a, b \in Ids : (b \in V => a \in V) /\ q.vector[a] > q.vector[b] => Prefers(all, a, b)
    <3>1. V \in SUBSET Ids
      BY <2>3
    <3>2. LET t == Ranked({[id |-> m, score |-> q.vector[m]] : m \in V})
          IN /\ Once(t) /\ IdsOf(t) = V /\ \A i \in DOMAIN t : t[i].score = q.vector[t[i].id]
             /\ \A a, b \in Ids : (b \in V => a \in V) /\ q.vector[a] > q.vector[b] => Prefers(t, a, b)
      BY <3>1, VectorRows
    <3> QED
      BY <3>2 DEF all
  <2>9. /\ Once(notes) /\ IdsOf(notes) \subseteq V /\ (Cardinality(V) <= n => notes = all)
        /\ \A a, b : Prefers(all, a, b) => Prefers(notes, a, b)
    BY <2>2, <2>8, CutOfRows
  <2>10. \A i \in DOMAIN notes : notes[i].score = q.vector[notes[i].id]
    <3>1. all \in Seq(Row)
      BY <2>8 DEF Once
    <3>2. \A i \in DOMAIN notes : i \in DOMAIN all /\ notes[i] = all[i]
      BY <2>2, <3>1, CutKeeps
    <3> QED
      BY <2>8, <3>2
  <2>11. /\ Once(merged) /\ IdsOf(merged) = IdsOf(notes) \cup {r.id : r \in ToSet(blocks)}
         /\ \A f, a, b :
              /\ \A i \in DOMAIN notes : notes[i].score = f[notes[i].id]
              /\ \A k \in q.blocks : k.id # a /\ k.id # b
              /\ Prefers(notes, a, b) /\ Larger(f[a], 0) > Larger(f[b], 0)
              => Prefers(merged, a, b)
    BY <2>5, <2>6, <2>9, MergedPrefers DEF merged
  <2>12. /\ Once(s) /\ IdsOf(s) \subseteq IdsOf(merged) /\ (Cardinality(IdsOf(merged)) <= n => s = merged)
         /\ \A a, b : Prefers(merged, a, b) => Prefers(s, a, b)
    BY <2>1, <2>11, CutOfRows
  <2>13. IdsOf(merged) \subseteq V \cup B
    BY <2>7, <2>9, <2>11 DEF Blocked, B
  <2>14. ASSUME Cardinality(V \cup B) <= n, Cardinality(q.blocks) <= n
         PROVE  IdsOf(s) = V \cup B
    <3>1. V \cup B \in SUBSET Ids
      BY <2>3
    <3>2. IsFiniteSet(V \cup B)
      BY <3>1, IdsAssumption, FS_Subset
    <3>3. V \in SUBSET (V \cup B)
      OBVIOUS
    <3>4. Cardinality(V) <= Cardinality(V \cup B) /\ Cardinality(V) \in Nat /\ Cardinality(V \cup B) \in Nat
      <4>1. IsFiniteSet(V) /\ Cardinality(V) <= Cardinality(V \cup B)
        BY <3>2, <3>3, FS_Subset
      <4> QED
        BY <3>2, <4>1, FS_CardinalityType
    <3>5. notes = all
      BY <2>9, <2>14, <3>4
    <3>6. IdsOf(merged) = V \cup B
      BY <2>6, <2>8, <2>11, <2>14, <3>5 DEF Blocked, B
    <3> QED
      BY <2>12, <2>14, <3>6
  <2>15. ASSUME NEW a \in Ids, NEW b \in Ids, NearerThan(q, a, b)
         PROVE  Prefers(s, a, b)
    <3>1. Larger(q.vector[a], 0) > Larger(q.vector[b], 0) /\ \A k \in q.blocks : k.id # a /\ k.id # b
      BY <1>2, <2>15 DEF NearerThan
    <3>2. q.vector[a] > q.vector[b] /\ a \in V
      BY <2>3, <2>4, <3>1 DEF Larger, NoVector
    <3>3. Prefers(notes, a, b)
      BY <2>8, <2>9, <3>2
    <3>4. Prefers(merged, a, b)
      BY <2>10, <2>11, <3>1, <3>3
    <3> QED
      BY <2>12, <3>4
  <2> QED
    BY <1>2, <2>12, <2>13, <2>14, <2>15 DEF s, V, B
<1> QED
  BY <1>1, <1>2 DEF Scored

\* a is above b in each ranking of the question.
Outranks(q, a, b) ==
  /\ q.mode # "semantic" => q.text[a] > q.text[b]
  /\ q.mode # "fulltext" => NearerThan(q, a, b)

\* What is ranked is found, and all that is found unless a ranking was cut.
LEMMA RawSearch ==
  ASSUME NEW q, Scored(q), NEW limit \in Nat, RankingLimit(limit) \in Nat, RankingLimit(limit) >= limit
  PROVE  LET s == SearchRaw(q, limit)
         IN /\ Once(s) /\ IdsOf(s) \subseteq Found(q)
            /\ Cardinality(Found(q)) <= limit /\ Cardinality(q.blocks) <= RankingLimit(limit) => IdsOf(s) = Found(q)
            /\ \A a, b \in Ids : Outranks(q, a, b) => Ahead(s, a, b)
<1> DEFINE n == RankingLimit(limit)
           words == {m \in Ids : q.text[m] > 0}
           full == IF q.database THEN Cut(Fulltext(q, Ids), n) ELSE Fulltext(q, Ids)
           semantic == IF q.database THEN SemanticRows(q, n) ELSE SemanticMemory(q, Ids)
           near == IF ~ q.embeds THEN {}
                   ELSE IF q.database THEN Vectored(q) \cup Blocked(q) ELSE {m \in Ids : q.vector[m] > 0}
           F == Found(q)
           ranked == ByMode(q.mode, full, semantic)
           s == SearchRaw(q, limit)
           few == Cardinality(F) <= limit /\ Cardinality(q.blocks) <= n
<1>1. s = Cut(ranked, limit)
  BY DEF SearchRaw
<1>2. F = (IF q.mode = "semantic" THEN {} ELSE words) \cup (IF q.mode = "fulltext" THEN {} ELSE near)
  BY DEF Found, Vectored, Blocked
<1>3. q.mode \in {"fulltext", "semantic", "hybrid"}
  BY DEF Scored
<1>4. F \in SUBSET Ids /\ words \in SUBSET Ids /\ near \in SUBSET Ids
  <2>1. words \in SUBSET Ids /\ near \in SUBSET Ids
    BY DEF Vectored, Blocked, Scored
  <2> HIDE DEF words, near, F
  <2> QED
    BY <1>2, <2>1
<1>5. IsFiniteSet(F) /\ Cardinality(F) \in Nat
  <2>1. IsFiniteSet(F)
    BY <1>4, IdsAssumption, FS_Subset
  <2> QED
    BY <2>1, FS_CardinalityType
<1>6. /\ Once(full) /\ IdsOf(full) \subseteq words
      /\ Cardinality(words) <= n => IdsOf(full) = words
      /\ \A a, b \in Ids : q.text[a] > q.text[b] => Prefers(full, a, b)
  <2> DEFINE t == Fulltext(q, Ids)
  <2>1. /\ Once(t) /\ IdsOf(t) = words
        /\ \A a, b \in Ids : q.text[a] > q.text[b] => Prefers(t, a, b)
    BY FulltextRows
  <2> HIDE DEF t, words
  <2>2. /\ Once(Cut(t, n)) /\ IdsOf(Cut(t, n)) \subseteq words
        /\ Cardinality(words) <= n => Cut(t, n) = t
        /\ \A a, b : Prefers(t, a, b) => Prefers(Cut(t, n), a, b)
    BY <2>1, CutOfRows
  <2>3. full = IF q.database THEN Cut(t, n) ELSE t
    BY DEF t
  <2> HIDE DEF full
  <2> QED
    BY <2>1, <2>2, <2>3
<1>7. /\ Once(semantic) /\ IdsOf(semantic) \subseteq near
      /\ Cardinality(near) <= n /\ Cardinality(q.blocks) <= n => IdsOf(semantic) = near
      /\ \A a, b \in Ids : NearerThan(q, a, b) => Prefers(semantic, a, b)
  <2>1. CASE q.database
    <3> DEFINE t == SemanticRows(q, n)
    <3>1. /\ Once(t) /\ IdsOf(t) \subseteq IF q.embeds THEN Vectored(q) \cup Blocked(q) ELSE {}
          /\ q.embeds /\ Cardinality(Vectored(q) \cup Blocked(q)) <= n /\ Cardinality(q.blocks) <= n
               => IdsOf(t) = Vectored(q) \cup Blocked(q)
          /\ \A a, b \in Ids : NearerThan(q, a, b) => Prefers(t, a, b)
      BY SemanticFromRows
    <3>2. semantic = t /\ near = IF q.embeds THEN Vectored(q) \cup Blocked(q) ELSE {}
      BY <2>1
    <3> HIDE DEF t, semantic, near
    <3> QED
      BY <3>1, <3>2
  <2>2. CASE ~ q.database
    <3> DEFINE t == SemanticMemory(q, Ids)
    <3>1. /\ Once(t) /\ IdsOf(t) = IF q.embeds THEN {m \in Ids : q.vector[m] > 0} ELSE {}
          /\ \A a, b \in Ids : (q.embeds => Larger(q.vector[a], 0) > Larger(q.vector[b], 0)) => Prefers(t, a, b)
      BY MemoryRows
    <3>2. semantic = t /\ near = IF q.embeds THEN {m \in Ids : q.vector[m] > 0} ELSE {}
      BY <2>2
    <3> HIDE DEF t, semantic, near
    <3> QED
      BY <3>1, <3>2 DEF NearerThan
  <2> QED
    BY <2>1, <2>2 DEF Scored
<1> HIDE DEF s, ranked, full, semantic, near, words, F
<1>8. /\ Once(ranked)
      /\ IdsOf(ranked) = (IF q.mode = "semantic" THEN {} ELSE IdsOf(full))
                            \cup (IF q.mode = "fulltext" THEN {} ELSE IdsOf(semantic))
      /\ \A a, b : /\ q.mode # "semantic" => Prefers(full, a, b)
                   /\ q.mode # "fulltext" => Prefers(semantic, a, b)
                   => Prefers(ranked, a, b)
  BY <1>3, <1>6, <1>7, ByModeRows DEF ranked
<1>9. /\ Once(s) /\ IdsOf(s) \subseteq IdsOf(ranked)
      /\ Cardinality(IdsOf(ranked)) <= limit => s = ranked
      /\ \A a, b : Prefers(ranked, a, b) => Prefers(s, a, b)
  BY <1>1, <1>8, CutOfRows
<1>10. IdsOf(ranked) \subseteq F
  BY <1>2, <1>6, <1>7, <1>8
<1>11. ASSUME few
       PROVE  IdsOf(s) = F
  <2>1. ASSUME NEW T \in SUBSET F
        PROVE  Cardinality(T) <= n
    <3>1. IsFiniteSet(T) /\ Cardinality(T) <= Cardinality(F)
      BY <1>5, FS_Subset
    <3>2. Cardinality(T) \in Nat
      BY <3>1, FS_CardinalityType
    <3> QED
      BY <1>5, <1>11, <3>1, <3>2
  <2>2. q.mode # "semantic" => IdsOf(full) = words
    BY <1>2, <1>6, <2>1
  <2>3. q.mode # "fulltext" => IdsOf(semantic) = near
    BY <1>2, <1>7, <1>11, <2>1
  <2>4. IdsOf(ranked) = F
    BY <1>2, <1>8, <2>2, <2>3
  <2> QED
    BY <1>9, <1>11, <2>4
<1>12. ASSUME NEW a \in Ids, NEW b \in Ids, Outranks(q, a, b)
       PROVE  Ahead(s, a, b)
  <2>1. q.mode # "semantic" => Prefers(full, a, b)
    BY <1>6, <1>12 DEF Outranks
  <2>2. q.mode # "fulltext" => Prefers(semantic, a, b)
    BY <1>7, <1>12 DEF Outranks
  <2>3. Prefers(s, a, b)
    BY <1>8, <1>9, <2>1, <2>2
  <2> QED
    BY <2>3 DEF Prefers
<1> QED
  BY <1>9, <1>10, <1>11, <1>12 DEF s, F, few

LEMMA LimitGrows ==
  ASSUME NEW limit \in Nat
  PROVE  LET r == RankingLimit(limit)
         IN r \in Nat /\ RankingLimit(r) \in Nat /\ RankingLimit(r) >= r
<1>1. ASSUME NEW x \in Nat
      PROVE  /\ RankingLimit(x) \in Nat /\ RankingLimit(x) <= CeilingLimit
             /\ x <= CeilingLimit => RankingLimit(x) >= x
  <2> DEFINE y == Larger(x, LeastLimit)
             z == LimitFactor * y
  <2>1. y \in Nat /\ y >= x /\ LimitFactor \in Nat \ {0}
    BY LimitsAssumption DEF Larger
  <2> HIDE DEF y
  <2>2. z \in Nat /\ z >= y
    BY <2>1
  <2>3. RankingLimit(x) = Smaller(CeilingLimit, Larger(FloorLimit, z))
    BY DEF RankingLimit, y
  <2> HIDE DEF z
  <2> QED
    BY <2>1, <2>2, <2>3, LimitsAssumption DEF Smaller, Larger
<1> QED
  BY <1>1

\* A search is right for every question.
LEMMA SearchIsRight ==
  ASSUME NEW q, Scored(q)
  PROVE  SearchesWell(q, Search(q))
<1> DEFINE L == RankingLimit(q.limit)
           raw == SearchRaw(q, L)
           kept == Readable(raw, q.readable)
           hits == Search(q)
           ids == [i \in DOMAIN hits |-> hits[i].id]
           F == Found(q)
           missing == (F \cap q.readable) \ ToSet(ids)
           outranks(a, b) ==
             /\ q.mode # "semantic" => q.text[a] > q.text[b]
             /\ q.mode # "fulltext" /\ q.embeds =>
                  /\ Larger(q.vector[a], 0) > Larger(q.vector[b], 0) /\ \A k \in q.blocks : k.id \notin {a, b}
<1>1. q.limit \in Nat /\ IsFiniteSet(q.blocks)
  BY DEF Scored
<1>2. L \in Nat /\ RankingLimit(L) \in Nat /\ RankingLimit(L) >= L
  BY <1>1, LimitGrows
<1>3. hits = Cut(kept, q.limit)
  BY DEF Search
<1>4. \A a, b : outranks(a, b) => Outranks(q, a, b)
  BY DEF Outranks, NearerThan
<1>5. F \in SUBSET Ids
  BY DEF Found, Scored
<1>6. IsFiniteSet(F) /\ Cardinality(F) \in Nat /\ Cardinality(q.blocks) \in Nat
  <2>1. IsFiniteSet(F)
    BY <1>5, IdsAssumption, FS_Subset
  <2> QED
    BY <1>1, <2>1, FS_CardinalityType
<1> HIDE DEF L, raw, kept, hits, F
<1>7. /\ Once(raw) /\ IdsOf(raw) \subseteq F
      /\ Cardinality(F) <= L /\ Cardinality(q.blocks) <= RankingLimit(L) => IdsOf(raw) = F
      /\ \A a, b \in Ids : Outranks(q, a, b) => Ahead(raw, a, b)
  BY <1>2, RawSearch DEF raw, F
<1>8. /\ Once(kept) /\ IdsOf(kept) = IdsOf(raw) \cap q.readable
      /\ \A a, b : Ahead(raw, a, b) => Ahead(kept, a, b)
  BY <1>7, ReadableRows DEF kept
<1>9. /\ Once(hits) /\ IdsOf(hits) \subseteq IdsOf(kept) /\ Len(hits) <= q.limit
      /\ Len(hits) < q.limit => hits = kept
      /\ \A a, b : Ahead(kept, a, b) => Ahead(hits, a, b)
  BY <1>1, <1>3, <1>8, CutOfRows
<1>10. /\ DOMAIN hits = 1..Len(hits) /\ Len(hits) \in Nat /\ \A i \in DOMAIN hits : hits[i].id \in IdsOf(hits)
       /\ IdsOf(hits) \subseteq Ids
  BY <1>9, RowsCounted
<1>11. DOMAIN ids = DOMAIN hits /\ Len(ids) = Len(hits) /\ \A i \in DOMAIN hits : ids[i] = hits[i].id
  BY <1>10
<1>12. ToSet(ids) = IdsOf(hits)
  BY DEF ToSet, IdsOf
<1> HIDE DEF ids
<1>13. ToSet(ids) \subseteq F \cap q.readable
  BY <1>7, <1>8, <1>9, <1>12
<1>14. IsInjective(ids)
  BY <1>9, <1>11 DEF IsInjective, Once
<1>15. ASSUME missing # {}, Len(ids) # q.limit, ~ (Cardinality(F) > L)
       PROVE  Cardinality(q.blocks) > RankingLimit(L)
  <2> SUFFICES ASSUME ~ (Cardinality(q.blocks) > RankingLimit(L))
               PROVE  FALSE
    OBVIOUS
  <2>1. IdsOf(raw) = F
    BY <1>2, <1>6, <1>7, <1>15
  <2>2. hits = kept
    BY <1>1, <1>9, <1>10, <1>11, <1>15
  <2> QED
    BY <1>8, <1>12, <1>15, <2>1, <2>2
<1>16. ASSUME NEW i \in DOMAIN ids, NEW j \in DOMAIN ids, outranks(ids[i], ids[j])
       PROVE  i < j
  <2>1. ids[i] \in Ids /\ ids[j] \in Ids
    BY <1>10, <1>11
  <2>2. Outranks(q, ids[i], ids[j])
    BY <1>4, <1>16
  <2>3. Ahead(hits, ids[i], ids[j])
    BY <1>7, <1>8, <1>9, <2>1, <2>2
  <2> QED
    BY <1>11, <2>3 DEF Ahead
<1> QED
  BY <1>9, <1>11, <1>13, <1>14, <1>15, <1>16 DEF SearchesWell, ids, F, L, hits

-----------------------------------------------------------------------------
(* Queries.                                                                 *)

\* The notes of a query are in their order; those without a date come last.
SortedAs(q, A) ==
  LET s == Ordered(A, LAMBDA a, b : NoteBefore(q, a, b))
  IN /\ s \in Seq(A) /\ Len(s) = Cardinality(A) /\ Cardinality(A) \in Nat
     /\ ToSet(s) = A /\ IsInjective(s)
     /\ \A i, j \in DOMAIN s : i < j => NoteBefore(q, s[i], s[j])

LEMMA QueryOrder ==
  ASSUME NEW q, Scored(q), {q.created, q.updated, q.title} \subseteq [Ids -> Nat], NEW A \in SUBSET Ids
  PROVE  SortedAs(q, A)
<1> DEFINE R == {p \in A \X A : NoteBefore(q, p[1], p[2])}
           s == Ordered(A, LAMBDA a, b : NoteBefore(q, a, b))
           v(n) == SortValue(q, n)
<1>1. IsFiniteSet(A) /\ \A n \in A : n \in Nat /\ n \in Ids
  BY IdsAssumption, FS_Subset
<1>2. \A n \in A : v(n) \in Nat
  <2> TAKE n \in A
  <2>1. q.created[n] \in Nat /\ q.updated[n] \in Nat /\ q.title[n] \in Nat
    BY <1>1
  <2> QED
    BY <2>1 DEF SortValue
<1> HIDE DEF v
<1>3. \A x, y : NoteBefore(q, x, y) <=>
                  IF v(x) = v(y) THEN x < y
                  ELSE v(y) = 0 \/ (v(x) # 0 /\ IF Upwards(q) THEN v(x) < v(y) ELSE v(x) > v(y))
  BY DEF NoteBefore, v
<1>4. \A x, y \in A : <<x, y>> \in R <=> NoteBefore(q, x, y)
  OBVIOUS
<1> HIDE DEF R
<1>5. StrictOrder(A, R)
  <2>1. \A x \in A : <<x, x>> \notin R
    BY <1>1, <1>3, <1>4
  <2>2. ASSUME NEW x \in A, NEW y \in A, NEW z \in A, <<x, y>> \in R, <<y, z>> \in R
        PROVE  <<x, z>> \in R
    <3>1. NoteBefore(q, x, y) /\ NoteBefore(q, y, z)
      BY <1>4, <2>2
    <3>2. x \in Nat /\ y \in Nat /\ z \in Nat /\ v(x) \in Nat /\ v(y) \in Nat /\ v(z) \in Nat
      BY <1>1, <1>2
    <3>3. CASE Upwards(q)
      <4>1. IF v(x) = v(y) THEN x < y ELSE v(y) = 0 \/ (v(x) # 0 /\ v(x) < v(y))
        BY <1>3, <3>1, <3>3
      <4>2. IF v(y) = v(z) THEN y < z ELSE v(z) = 0 \/ (v(y) # 0 /\ v(y) < v(z))
        BY <1>3, <3>1, <3>3
      <4>3. IF v(x) = v(z) THEN x < z ELSE v(z) = 0 \/ (v(x) # 0 /\ v(x) < v(z))
        BY <3>2, <4>1, <4>2
      <4> QED
        BY <1>3, <1>4, <3>3, <4>3
    <3>4. CASE ~ Upwards(q)
      <4>1. IF v(x) = v(y) THEN x < y ELSE v(y) = 0 \/ (v(x) # 0 /\ v(x) > v(y))
        BY <1>3, <3>1, <3>4
      <4>2. IF v(y) = v(z) THEN y < z ELSE v(z) = 0 \/ (v(y) # 0 /\ v(y) > v(z))
        BY <1>3, <3>1, <3>4
      <4>3. IF v(x) = v(z) THEN x < z ELSE v(z) = 0 \/ (v(x) # 0 /\ v(x) > v(z))
        BY <3>2, <4>1, <4>2
      <4> QED
        BY <1>3, <1>4, <3>4, <4>3
    <3> QED
      BY <3>3, <3>4
  <2>3. ASSUME NEW x \in A, NEW y \in A
        PROVE  x = y \/ <<x, y>> \in R \/ <<y, x>> \in R
    <3>1. x \in Nat /\ y \in Nat /\ v(x) \in Nat /\ v(y) \in Nat
      BY <1>1, <1>2
    <3>2. x = y \/ NoteBefore(q, x, y) \/ NoteBefore(q, y, x)
      BY <1>3, <3>1
    <3> QED
      BY <1>4, <3>2
  <2> QED
    BY <2>1, <2>2, <2>3 DEF StrictOrder
<1>6. s = OrderedBy(A, R)
  <2>1. \A x \in A : {y \in A : NoteBefore(q, y, x)} = {y \in A : <<y, x>> \in R}
    BY <1>4
  <2>2. s = [i \in 1..Cardinality(A) |-> CHOOSE x \in A : Cardinality({y \in A : NoteBefore(q, y, x)}) = i - 1]
    BY DEF Ordered
  <2>3. \A i : (CHOOSE x \in A : Cardinality({y \in A : NoteBefore(q, y, x)}) = i - 1)
                = CHOOSE x \in A : Cardinality({y \in A : <<y, x>> \in R}) = i - 1
    BY <2>1, Zenon
  <2> QED
    BY <2>2, <2>3, Zenon DEF OrderedBy
<1> HIDE DEF s
<1>7. Lists(s, A, R)
  BY <1>1, <1>5, <1>6, OrderedLists
<1> DEFINE n == Cardinality(A)
<1>8. n \in Nat /\ s \in [1..n -> A] /\ (\A x \in A : \E i \in 1..n : s[i] = x)
      /\ \A i, j \in 1..n : i < j <=> <<s[i], s[j]>> \in R
  BY <1>7 DEF Lists
<1> HIDE DEF n
<1>9. s \in Seq(A) /\ Len(s) = n /\ ToSet(s) = A /\ DOMAIN s = 1..n
  <2>1. s \in Seq(A) /\ Len(s) = n /\ DOMAIN s = 1..n
    BY <1>8
  <2>2. ToSet(s) = A
    BY <1>8, <2>1 DEF ToSet
  <2> QED
    BY <2>1, <2>2
<1>10. IsInjective(s)
  <2> SUFFICES ASSUME NEW i \in 1..n, NEW j \in 1..n, s[i] = s[j]
               PROVE  i = j
    BY <1>9 DEF IsInjective
  <2>1. ~ (i < j) /\ ~ (j < i)
    BY <1>5, <1>8 DEF StrictOrder
  <2> QED
    BY <1>8, <2>1
<1>11. \A i, j \in DOMAIN s : i < j => NoteBefore(q, s[i], s[j])
  BY <1>4, <1>8, <1>9
<1> QED
  BY <1>8, <1>9, <1>10, <1>11 DEF SortedAs, s, n

\* What a query is about.
NoteQuestion(q) ==
  /\ Scored(q) /\ q.readable \subseteq Ids /\ q.hasText \in BOOLEAN
  /\ {q.created, q.updated, q.title} \subseteq [Ids -> Nat]
  /\ q.sortBy \in {"default", "relevance", "created", "updated", "title"}

\* Hits of a query are notes that match, each once.
LEMMA HitsMatch ==
  ASSUME NEW q, Scored(q), NEW docs \in SUBSET Ids
  PROVE  Once(QueryHits(q, docs)) /\ IdsOf(QueryHits(q, docs)) \subseteq docs
<1> DEFINE n == RankingLimit(Larger(Cardinality(docs), LeastLimit))
           all == BlockRows(q, n)
           K == {i \in DOMAIN all : all[i].id \in docs}
           blocks == IF q.embeds /\ q.database THEN Readable(all, docs) ELSE <<>>
           full == Fulltext(q, docs)
           notes == SemanticMemory(q, docs)
           merged == Merged(notes, blocks)
<1>1. QueryHits(q, docs) = ByMode(q.mode, full, merged)
  BY DEF QueryHits
<1>2. n \in Nat
  <2>1. IsFiniteSet(docs)
    BY IdsAssumption, FS_Subset
  <2>2. Cardinality(docs) \in Nat
    BY <2>1, FS_CardinalityType
  <2>3. Larger(Cardinality(docs), LeastLimit) \in Nat
    BY <2>2, LimitsAssumption DEF Larger
  <2> QED
    BY <2>3, LimitGrows
<1>3. q.mode \in {"fulltext", "semantic", "hybrid"} /\ \A r \in q.blocks : r.id \in Ids /\ r.score \in Int
  BY DEF Scored
<1>4. Once(full) /\ IdsOf(full) = {m \in docs : q.text[m] > 0}
  BY FulltextRows
<1>5. Once(notes) /\ IdsOf(notes) = IF q.embeds THEN {m \in docs : q.vector[m] > 0} ELSE {}
  BY MemoryRows
<1> HIDE DEF n, full, notes
<1>6. all \in Seq(q.blocks)
  BY <1>2, BlocksRanked
<1> HIDE DEF all
<1>7. blocks \in Seq(q.blocks) /\ \A r \in ToSet(blocks) : r.id \in docs
  <2>1. CASE q.embeds /\ q.database
    <3>1. blocks = Picked(all, K) /\ K \in SUBSET DOMAIN all
      BY <2>1 DEF Readable
    <3>2. \A i \in K : all[i].id \in docs
      OBVIOUS
    <3> HIDE DEF K, blocks
    <3>3. blocks \in Seq(q.blocks) /\ ToSet(blocks) = {all[k] : k \in K}
      BY <1>6, <3>1, PickedSequence
    <3> QED
      BY <3>2, <3>3
  <2>2. CASE ~ (q.embeds /\ q.database)
    <3>1. blocks = <<>>
      BY <2>2
    <3> HIDE DEF blocks
    <3>2. ToSet(<<>>) = {} /\ <<>> \in Seq(q.blocks)
      BY DEF ToSet
    <3> QED
      BY <3>1, <3>2
  <2> QED
    BY <2>1, <2>2
<1> HIDE DEF blocks
<1>8. Once(merged) /\ IdsOf(merged) = IdsOf(notes) \cup {r.id : r \in ToSet(blocks)}
  BY <1>3, <1>5, <1>7, MergedPrefers
<1> HIDE DEF merged
<1>9. LET s == ByMode(q.mode, full, merged)
      IN Once(s) /\ IdsOf(s) = (IF q.mode = "semantic" THEN {} ELSE IdsOf(full))
                                 \cup (IF q.mode = "fulltext" THEN {} ELSE IdsOf(merged))
  BY <1>3, <1>4, <1>8, ByModeRows
<1> QED
  BY <1>1, <1>4, <1>5, <1>7, <1>8, <1>9

\* A query is right for every question.
LEMMA QueryIsRight ==
  ASSUME NEW q, NoteQuestion(q)
  PROVE  QueriesWell(q, QueryNotes(q))
<1> DEFINE docs == Matching(q)
           hits == QueryHits(q, docs)
           ids == IF q.hasText THEN IdsOf(hits) ELSE docs
           ranked == [i \in DOMAIN hits |-> hits[i].id]
           ordered == Ordered(ids, LAMBDA a, b : NoteBefore(q, a, b))
           sorted == IF SortField(q) = "relevance" THEN (IF Upwards(q) THEN Reverse(ranked) ELSE ranked)
                     ELSE ordered
           notes == Cut(sorted, q.limit)
           answer == QueryNotes(q)
<1>1. Scored(q) /\ q.limit \in Nat /\ docs \in SUBSET Ids /\ q.hasText \in BOOLEAN
  BY DEF NoteQuestion, Scored, Matching
<1>2. answer = [notes |-> notes, total |-> Len(sorted)]
  <2>1. {r.id : r \in ToSet(hits)} = IdsOf(hits)
    BY DEF ToSet, IdsOf
  <2>2. ids = IF q.hasText THEN {r.id : r \in ToSet(hits)} ELSE docs
    BY <2>1
  <2> HIDE DEF hits, docs
  <2> QED
    BY <2>2 DEF QueryNotes, hits, docs
<1> HIDE DEF docs, hits, answer
<1>3. Once(hits) /\ IdsOf(hits) \subseteq docs
  BY <1>1, HitsMatch DEF hits
<1>4. /\ DOMAIN hits = 1..Len(hits) /\ Len(hits) \in Nat
      /\ \A i \in DOMAIN hits : hits[i].id \in IdsOf(hits)
  BY <1>3, RowsCounted
<1>5. ranked \in Seq(docs) /\ IsInjective(ranked) /\ Len(ranked) = Len(hits)
  <2>1. DOMAIN ranked = 1..Len(hits) /\ \A i \in 1..Len(hits) : ranked[i] = hits[i].id /\ ranked[i] \in docs
    BY <1>3, <1>4
  <2>2. ranked \in Seq(docs) /\ Len(ranked) = Len(hits)
    BY <1>3, <1>4
  <2>3. IsInjective(ranked)
    BY <1>3, <1>4, <2>1 DEF IsInjective, Once
  <2> QED
    BY <2>2, <2>3
<1> HIDE DEF ranked
<1>6. Reverse(ranked) \in Seq(docs) /\ IsInjective(Reverse(ranked))
  <2> DEFINE m == Len(ranked)
             r == Reverse(ranked)
  <2>1. m \in Nat /\ DOMAIN ranked = 1..m /\ \A i \in 1..m : ranked[i] \in docs
    BY <1>5
  <2>2. r = [i \in 1..m |-> ranked[(m - i) + 1]]
    BY DEF Reverse
  <2> HIDE DEF m, r
  <2>3. \A i \in 1..m : (m - i) + 1 \in 1..m
    BY <2>1
  <2>4. r \in Seq(docs) /\ DOMAIN r = 1..m
    BY <2>1, <2>2, <2>3
  <2>5. ASSUME NEW i \in 1..m, NEW j \in 1..m, r[i] = r[j]
        PROVE  i = j
    <3>1. (m - i) + 1 = (m - j) + 1
      BY <1>5, <2>1, <2>2, <2>3, <2>5 DEF IsInjective
    <3> QED
      BY <2>1, <3>1
  <2>6. IsInjective(r)
    BY <2>4, <2>5 DEF IsInjective
  <2> QED
    BY <2>4, <2>6 DEF r
<1>7. ids \in SUBSET docs /\ ids \in SUBSET Ids
  BY <1>1, <1>3
<1>8. ~ q.hasText => ids = docs
  OBVIOUS
<1> HIDE DEF ids
<1>9. /\ ordered \in Seq(ids) /\ Len(ordered) = Cardinality(ids) /\ ToSet(ordered) = ids /\ IsInjective(ordered)
      /\ \A i, j \in DOMAIN ordered : i < j => NoteBefore(q, ordered[i], ordered[j])
  <2>1. {q.created, q.updated, q.title} \subseteq [Ids -> Nat]
    BY DEF NoteQuestion
  <2>2. SortedAs(q, ids)
    BY <1>1, <1>7, <2>1, QueryOrder
  <2> QED
    BY <2>2 DEF SortedAs
<1> HIDE DEF ordered
<1>10. ordered \in Seq(docs)
  <2>1. \A A, B : A \subseteq B => Seq(A) \subseteq Seq(B)
    OBVIOUS
  <2> QED
    BY <1>7, <1>9, <2>1
<1>11. sorted \in Seq(docs) /\ IsInjective(sorted)
  BY <1>5, <1>6, <1>9, <1>10
<1>12. SortField(q) # "relevance" => sorted = ordered
  OBVIOUS
<1> HIDE DEF sorted
<1>13. /\ notes \in Seq(docs) /\ Len(notes) = Smaller(q.limit, Len(sorted))
       /\ DOMAIN notes = 1..Smaller(q.limit, Len(sorted)) /\ Smaller(q.limit, Len(sorted)) \in Nat
       /\ \A i \in DOMAIN notes : i \in DOMAIN sorted /\ notes[i] = sorted[i]
  BY <1>1, <1>11, CutKeeps
<1> HIDE DEF notes
<1>14. ToSet(notes) \subseteq docs
  BY <1>13, MembersFinite
<1>15. IsInjective(notes)
  BY <1>11, <1>13 DEF IsInjective
<1>16. ~ q.hasText => SortField(q) # "relevance"
  BY DEF SortField
<1>17. ~ q.hasText => Len(sorted) = Cardinality(docs)
  BY <1>8, <1>9, <1>12, <1>16
<1>18. ASSUME SortField(q) # "relevance", NEW i \in DOMAIN notes,
              NEW m \in (IF q.hasText THEN ToSet(notes) ELSE docs) \ ({notes[j] : j \in 1..(i - 1)} \cup {notes[i]})
       PROVE  NoteBefore(q, notes[i], m)
  <2>1. sorted = ordered /\ i \in DOMAIN sorted /\ notes[i] = sorted[i] /\ i \in Nat
    BY <1>12, <1>13, <1>18
  <2>2. \E j \in DOMAIN sorted : sorted[j] = m
    <3>1. CASE q.hasText
      BY <1>13, <3>1 DEF ToSet
    <3>2. CASE ~ q.hasText
      BY <1>8, <1>9, <2>1, <3>2 DEF ToSet
    <3> QED
      BY <3>1, <3>2
  <2>3. PICK j \in DOMAIN sorted : sorted[j] = m
    BY <2>2
  <2>4. j \in Nat /\ j >= 1
    BY <1>11
  <2>5. i < j
    <3>1. j # i
      BY <1>18, <2>1, <2>3
    <3>2. ~ (j < i)
      <4> SUFFICES ASSUME j < i
                   PROVE  FALSE
        OBVIOUS
      <4>1. j \in 1..(i - 1) /\ j \in DOMAIN notes
        BY <1>13, <2>1, <2>4
      <4>2. notes[j] = m
        BY <1>13, <2>3, <4>1
      <4> QED
        BY <4>1, <4>2
    <3> QED
      BY <2>1, <2>4, <3>1, <3>2
  <2> QED
    BY <1>9, <2>1, <2>3, <2>5
<1>19. ASSUME SortField(q) # "relevance", NEW i \in DOMAIN notes,
              NEW m \in (IF q.hasText THEN ToSet(notes) ELSE docs) \ ({notes[j] : j \in 1..(i - 1)} \cup {notes[i]})
       PROVE  LET n == notes[i]
                  dated(x) == SortValue(q, x) # 0
              IN /\ dated(m) => dated(n)
                 /\ dated(m) => IF Upwards(q) THEN SortValue(q, n) <= SortValue(q, m)
                                ELSE SortValue(q, n) >= SortValue(q, m)
                 /\ SortValue(q, m) = SortValue(q, n) => n < m
  <2> DEFINE v(x) == SortValue(q, x)
             n == notes[i]
  <2>1. n \in docs /\ m \in docs
    BY <1>13, <1>14 DEF ToSet
  <2>2. v(n) \in Nat /\ v(m) \in Nat
    <3>1. \A x \in docs : q.created[x] \in Nat /\ q.updated[x] \in Nat /\ q.title[x] \in Nat
      BY <1>1 DEF NoteQuestion
    <3> QED
      BY <2>1, <3>1 DEF SortValue
  <2>3. NoteBefore(q, n, m)
    BY <1>18, <1>19
  <2>4. IF v(n) = v(m) THEN n < m
        ELSE v(m) = 0 \/ (v(n) # 0 /\ IF Upwards(q) THEN v(n) < v(m) ELSE v(n) > v(m))
    BY <2>3 DEF NoteBefore
  <2> HIDE DEF v, n
  <2>5. /\ v(m) # 0 => v(n) # 0
        /\ v(m) # 0 => IF Upwards(q) THEN v(n) <= v(m) ELSE v(n) >= v(m)
        /\ v(m) = v(n) => n < m
    BY <2>2, <2>4
  <2> QED
    BY <2>5 DEF v, n
<1>20. /\ ToSet(answer.notes) \subseteq docs /\ IsInjective(answer.notes)
       /\ Len(answer.notes) = Smaller(q.limit, answer.total)
       /\ ~ q.hasText => answer.total = Cardinality(docs)
  BY <1>2, <1>13, <1>14, <1>15, <1>17
<1>21. answer.notes = notes
  BY <1>2
<1> QED
  BY <1>19, <1>20, <1>21 DEF QueriesWell, docs, answer

\* Searches and queries are right whatever was asked of whatever vault.
THEOREM SearchesFind == FindingSpec => []SearchFinds
<1>1. FindingInit => SearchFinds
  BY DEF FindingInit, NoQuestion, SearchFinds, Asked
<1>2. SearchFinds /\ [Find]_question => SearchFinds'
  <2> SUFFICES ASSUME SearchFinds, [Find]_question
               PROVE  SearchFinds'
    OBVIOUS
  <2>1. CASE AskSearch
    <3>1. PICK q \in SearchQuestions : question' = <<"search", q, Search(q)>>
      BY <2>1 DEF AskSearch, Answered
    <3>2. SearchesWell(q, Search(q))
      BY SearchQuestionsAssumption, SearchIsRight
    <3> QED
      BY <3>1, <3>2 DEF SearchFinds, Asked, Q, Answer
  <2>2. CASE AskQuery
    <3>1. PICK q \in NoteQuestions : question' = <<"query", q, QueryNotes(q)>>
      BY <2>2 DEF AskQuery, Answered
    <3>2. NoteQuestion(q)
      BY NoteQuestionsAssumption DEF NoteQuestion
    <3>3. QueriesWell(q, QueryNotes(q))
      BY <3>2, QueryIsRight
    <3> QED
      BY <3>1, <3>3 DEF SearchFinds, Asked, Q, Answer
  <2>3. CASE AskPath \/ AskLevels \/ AskContext
    BY <2>3 DEF AskPath, AskLevels, AskContext, Answered, SearchFinds, Asked
  <2>4. CASE question' = question
    BY <2>4 DEF SearchFinds, Asked, Q, Answer
  <2> QED
    BY <2>1, <2>2, <2>3, <2>4 DEF Find
<1> QED
  BY <1>1, <1>2, PTL DEF FindingSpec

-----------------------------------------------------------------------------
(* Recursion on values of a rank: what a value is depends on those of a     *)
(* lower rank only.                                                         *)

HasFixpoint(E, F) == \E f \in F : f = E[f]

LEMMA RankedRecursion ==
  ASSUME NEW D, NEW V, NEW E \in [[D -> V] -> [D -> V]], NEW rank \in [D -> Nat], NEW g0 \in [D -> V],
         \A g, h \in [D -> V] : \A n \in D :
           (\A m \in D : rank[m] < rank[n] => g[m] = h[m]) => E[g][n] = E[h][n]
  PROVE  HasFixpoint(E, [D -> V])
<1> DEFINE W == [D -> V]
           step == [p \in Nat \X W |-> E[p[2]]]
<1>1. g0 \in W /\ step \in [Nat \X W -> W]
  OBVIOUS
<1>2. \A k \in Nat : \A g \in W : step[<<k, g>>] = E[g]
  OBVIOUS
<1> HIDE DEF step, W
<1>3. Iterates(W, g0, step)
  BY <1>1, Iteration
<1>4. PICK G \in [Nat -> W] : G[0] = g0 /\ \A k \in Nat : G[k + 1] = E[G[k]]
  <2>1. PICK G \in [Nat -> W] : G[0] = g0 /\ \A k \in Nat : G[k + 1] = step[<<k, G[k]>>]
    BY <1>3 DEF Iterates
  <2>2. \A k \in Nat : G[k] \in W
    BY <2>1
  <2>3. \A k \in Nat : G[k + 1] = E[G[k]]
    BY <1>2, <2>1, <2>2
  <2> QED
    BY <2>1, <2>3
<1>5. \A k \in Nat : G[k] \in [D -> V]
  BY <1>4 DEF W
<1> DEFINE S == {k \in Nat : \A n \in D : rank[n] < k => G[k][n] = G[k + 1][n]}
<1>6. 0 \in S
  OBVIOUS
<1>7. ASSUME NEW k \in Nat, k \in S
      PROVE  k + 1 \in S
  <2>1. ASSUME NEW n \in D, rank[n] < k + 1
        PROVE  G[k + 1][n] = G[k + 1 + 1][n]
    <3>1. \A m \in D : rank[m] < rank[n] => G[k][m] = G[k + 1][m]
      BY <1>7, <2>1
    <3>2. G[k + 1] = E[G[k]] /\ G[k + 1 + 1] = E[G[k + 1]]
      BY <1>4
    <3>3. G[k] \in [D -> V] /\ G[k + 1] \in [D -> V]
      BY <1>5
    <3> QED
      BY <3>1, <3>2, <3>3
  <2> QED
    BY <2>1
<1>8. \A k \in Nat : k \in S
  <2> HIDE DEF S
  <2> QED
    BY <1>6, <1>7, AllNat
<1>9. ASSUME NEW n \in D
      PROVE  \A j \in Nat : G[rank[n] + 1 + j][n] = G[rank[n] + 1][n]
  <2> DEFINE T == {j \in Nat : G[rank[n] + 1 + j][n] = G[rank[n] + 1][n]}
  <2>1. 0 \in T
    OBVIOUS
  <2>2. ASSUME NEW j \in Nat, j \in T
        PROVE  j + 1 \in T
    <3>1. rank[n] + 1 + j \in S /\ rank[n] < rank[n] + 1 + j /\ rank[n] + 1 + (j + 1) = rank[n] + 1 + j + 1
      BY <1>8
    <3>2. G[rank[n] + 1 + j][n] = G[rank[n] + 1 + j + 1][n]
      BY <3>1
    <3> QED
      BY <2>2, <3>1, <3>2
  <2> HIDE DEF T
  <2>3. \A j \in Nat : j \in T
    BY <2>1, <2>2, AllNat
  <2> QED
    BY <2>3 DEF T
<1> DEFINE f == [n \in D |-> G[rank[n] + 1][n]]
<1>10. f \in [D -> V]
  BY <1>5
<1>11. ASSUME NEW n \in D
       PROVE  E[f][n] = f[n]
  <2>1. ASSUME NEW m \in D, rank[m] < rank[n]
        PROVE  f[m] = G[rank[n]][m]
    <3>1. rank[n] - (rank[m] + 1) \in Nat /\ rank[m] + 1 + (rank[n] - (rank[m] + 1)) = rank[n]
      BY <2>1
    <3> QED
      BY <1>9, <3>1
  <2>2. rank[n] \in Nat /\ G[rank[n]] \in [D -> V]
    BY <1>5
  <2> HIDE DEF f
  <2>3. E[f][n] = E[G[rank[n]]][n]
    BY <1>10, <2>1, <2>2
  <2> QED
    BY <1>4, <2>2, <2>3 DEF f
<1> QED
  <2> HIDE DEF f
  <2>1. E[f] \in [D -> V]
    BY <1>10
  <2>2. f = E[f]
    BY <1>10, <1>11, <2>1
  <2> QED
    BY <1>10, <2>2 DEF HasFixpoint

-----------------------------------------------------------------------------
(* Sums.                                                                    *)

\* g sums f over each part of S.
Sums(g, f, S) ==
  /\ g \in [SUBSET S -> Nat]
  /\ \A s \in SUBSET S :
       g[s] = IF s = {} THEN 0 ELSE f[CHOOSE x \in s : TRUE] + g[s \ {CHOOSE x \in s : TRUE}]

LEMMA SumsExist ==
  ASSUME NEW S, IsFiniteSet(S), NEW f, \A x \in S : f[x] \in Nat
  PROVE  \E g : Sums(g, f, S) /\ SumFunctionOnSet(f, S) = g[S]
<1> DEFINE D == SUBSET S
           first(s) == CHOOSE x \in s : TRUE
           body(g, s) == IF s = {} THEN 0 ELSE f[first(s)] + g[s \ {first(s)}]
           E == [g \in [D -> Nat] |-> [s \in D |-> body(g, s)]]
           rank == [s \in D |-> Cardinality(s)]
           iter == CHOOSE iter : iter = [s \in D |-> body(iter, s)]
<1>1. SumFunctionOnSet(f, S) = iter[S]
  BY DEF SumFunctionOnSet, FoldFunctionOnSet, MapThenFoldSet
<1>2. \A s \in D : s # {} => first(s) \in s /\ first(s) \in S /\ s \ {first(s)} \in D
  OBVIOUS
<1>3. \A s \in D : IsFiniteSet(s) /\ Cardinality(s) \in Nat
  BY FS_Subset, FS_CardinalityType
<1>4. ASSUME NEW s \in D, s # {}
      PROVE  Cardinality(s \ {first(s)}) = Cardinality(s) - 1
  BY <1>2, <1>3, <1>4, FS_RemoveElement
<1> DEFINE zero == [s \in D |-> 0]
<1> HIDE DEF first
<1>5. E \in [[D -> Nat] -> [D -> Nat]]
  BY <1>2
<1>6. rank \in [D -> Nat] /\ zero \in [D -> Nat]
  BY <1>3
<1>7. \A g, h \in [D -> Nat] : \A s \in D :
        (\A t \in D : rank[t] < rank[s] => g[t] = h[t]) => E[g][s] = E[h][s]
  <2> SUFFICES ASSUME NEW g \in [D -> Nat], NEW h \in [D -> Nat], NEW s \in D,
                      \A t \in D : rank[t] < rank[s] => g[t] = h[t]
               PROVE  E[g][s] = E[h][s]
    OBVIOUS
  <2>1. s # {} => s \ {first(s)} \in D /\ rank[s \ {first(s)}] < rank[s]
    BY <1>2, <1>3, <1>4
  <2>2. s # {} => g[s \ {first(s)}] = h[s \ {first(s)}]
    BY <2>1
  <2>3. E[g][s] = body(g, s) /\ E[h][s] = body(h, s)
    OBVIOUS
  <2> QED
    BY <2>2, <2>3
<1>8. HasFixpoint(E, [D -> Nat])
  <2> HIDE DEF D, E, rank, zero
  <2> QED
    BY <1>5, <1>6, <1>7, RankedRecursion
<1>9. PICK g \in [D -> Nat] : g = E[g]
  BY <1>8 DEF HasFixpoint
<1>10. g = [s \in D |-> body(g, s)]
  BY <1>9
<1>11. iter = [s \in D |-> body(iter, s)]
  <2> HIDE DEF body, D
  <2> QED
    BY <1>10
<1> HIDE DEF iter
<1> DEFINE T == {k \in Nat : \A s \in D : Cardinality(s) = k => iter[s] \in Nat}
<1>12. \A s \in D : iter[s] = body(iter, s)
  BY <1>11
<1>13. 0 \in T
  <2>1. \A s \in D : Cardinality(s) = 0 => s = {}
    BY <1>3, FS_EmptySet
  <2>2. \A s \in D : s = {} => iter[s] = 0
    BY <1>12
  <2> QED
    BY <2>1, <2>2
<1>14. ASSUME NEW k \in Nat, k \in T
       PROVE  k + 1 \in T
  <2> SUFFICES ASSUME NEW s \in D, Cardinality(s) = k + 1
               PROVE  iter[s] \in Nat
    OBVIOUS
  <2>1. CASE s = {}
    <3>1. iter[s] = 0
      BY <1>12, <2>1
    <3> QED
      BY <3>1
  <2>2. CASE s # {}
    <3>1. Cardinality(s \ {first(s)}) = k /\ s \ {first(s)} \in D /\ f[first(s)] \in Nat
      BY <1>2, <1>4, <2>2
    <3>2. iter[s \ {first(s)}] \in Nat
      BY <1>14, <3>1
    <3>3. iter[s] = f[first(s)] + iter[s \ {first(s)}]
      BY <1>12, <2>2
    <3> QED
      BY <3>1, <3>2, <3>3
  <2> QED
    BY <2>1, <2>2
<1>15. \A s \in D : iter[s] \in Nat
  <2> HIDE DEF T
  <2>1. \A k \in Nat : k \in T
    BY <1>13, <1>14, AllNat
  <2> QED
    BY <1>3, <2>1 DEF T
<1>16. Sums(iter, f, S)
  <2>1. iter \in [D -> Nat]
    <3> HIDE DEF body, D
    <3> QED
      BY <1>11, <1>15
  <2> QED
    BY <1>12, <2>1 DEF Sums, first
<1> QED
  BY <1>1, <1>16 DEF iter

LEMMA SumsAgree ==
  ASSUME NEW S, IsFiniteSet(S), NEW T, NEW f, NEW h, NEW F, NEW H, Sums(F, f, S), Sums(H, h, T),
         \A x \in S \cap T : f[x] = h[x]
  PROVE  \A s \in SUBSET (S \cap T) : F[s] = H[s]
<1> DEFINE first(s) == CHOOSE x \in s : TRUE
           K == {k \in Nat : \A s \in SUBSET (S \cap T) : Cardinality(s) = k => F[s] = H[s]}
<1>1. \A s \in SUBSET (S \cap T) : IsFiniteSet(s) /\ Cardinality(s) \in Nat
  BY FS_Subset, FS_CardinalityType
<1>2. \A s \in SUBSET (S \cap T) :
        F[s] = (IF s = {} THEN 0 ELSE f[first(s)] + F[s \ {first(s)}])
          /\ H[s] = IF s = {} THEN 0 ELSE h[first(s)] + H[s \ {first(s)}]
  BY DEF Sums
<1>3. \A s \in SUBSET (S \cap T) : s # {} => first(s) \in s
  OBVIOUS
<1>4. ASSUME NEW s \in SUBSET (S \cap T), s # {}
      PROVE  Cardinality(s \ {first(s)}) = Cardinality(s) - 1
  BY <1>1, <1>3, <1>4, FS_RemoveElement
<1> HIDE DEF first
<1>5. 0 \in K
  <2>1. \A s \in SUBSET (S \cap T) : Cardinality(s) = 0 => s = {}
    BY <1>1, FS_EmptySet
  <2>2. \A s \in SUBSET (S \cap T) : s = {} => F[s] = 0 /\ H[s] = 0
    BY <1>2
  <2> QED
    BY <2>1, <2>2
<1>6. ASSUME NEW k \in Nat, k \in K
      PROVE  k + 1 \in K
  <2> SUFFICES ASSUME NEW s \in SUBSET (S \cap T), Cardinality(s) = k + 1
               PROVE  F[s] = H[s]
    OBVIOUS
  <2>1. CASE s = {}
    <3>1. F[s] = 0 /\ H[s] = 0
      BY <1>2, <2>1
    <3> QED
      BY <3>1
  <2>2. CASE s # {}
    <3>1. Cardinality(s \ {first(s)}) = k /\ s \ {first(s)} \in SUBSET (S \cap T) /\ first(s) \in S \cap T
      BY <1>3, <1>4, <2>2
    <3>2. F[s \ {first(s)}] = H[s \ {first(s)}] /\ f[first(s)] = h[first(s)]
      BY <1>6, <3>1
    <3>3. F[s] = f[first(s)] + F[s \ {first(s)}] /\ H[s] = h[first(s)] + H[s \ {first(s)}]
      BY <1>2, <2>2
    <3> QED
      BY <3>2, <3>3
  <2> QED
    BY <2>1, <2>2
<1> HIDE DEF K
<1>7. \A k \in Nat : k \in K
  BY <1>5, <1>6, AllNat
<1> QED
  BY <1>1, <1>7 DEF K

\* Any member may be taken out first.
LEMMA SumsWithout ==
  ASSUME NEW S, IsFiniteSet(S), NEW f, NEW F, Sums(F, f, S), \A x \in S : f[x] \in Nat
  PROVE  \A s \in SUBSET S : \A x \in s : F[s] = f[x] + F[s \ {x}]
<1> DEFINE first(s) == CHOOSE x \in s : TRUE
           K == {k \in Nat : \A s \in SUBSET S : Cardinality(s) = k => \A x \in s : F[s] = f[x] + F[s \ {x}]}
<1>1. \A s \in SUBSET S : IsFiniteSet(s) /\ Cardinality(s) \in Nat /\ F[s] \in Nat
  BY FS_Subset, FS_CardinalityType DEF Sums
<1>2. \A s \in SUBSET S : s # {} => F[s] = f[first(s)] + F[s \ {first(s)}]
  BY DEF Sums
<1>3. \A s \in SUBSET S : s # {} => first(s) \in s
  OBVIOUS
<1>4. ASSUME NEW s \in SUBSET S, NEW x \in s
      PROVE  Cardinality(s \ {x}) = Cardinality(s) - 1
  BY <1>1, FS_RemoveElement
<1> HIDE DEF first
<1>5. 0 \in K
  <2>1. \A s \in SUBSET S : Cardinality(s) = 0 => s = {}
    BY <1>1, FS_EmptySet
  <2> QED
    BY <2>1
<1>6. ASSUME NEW k \in Nat, k \in K
      PROVE  k + 1 \in K
  <2> SUFFICES ASSUME NEW s \in SUBSET S, Cardinality(s) = k + 1, NEW x \in s
               PROVE  F[s] = f[x] + F[s \ {x}]
    OBVIOUS
  <2> DEFINE y == first(s)
  <2>1. y \in s /\ F[s] = f[y] + F[s \ {y}]
    BY <1>2, <1>3
  <2> HIDE DEF y
  <2>2. CASE x = y
    BY <2>1, <2>2
  <2>3. CASE x # y
    <3>1. s \ {y} \in SUBSET S /\ s \ {x} \in SUBSET S /\ x \in s \ {y} /\ y \in s \ {x}
      BY <2>1, <2>3
    <3>2. Cardinality(s \ {y}) = k /\ Cardinality(s \ {x}) = k
      BY <1>4, <2>1
    <3>3. F[s \ {y}] = f[x] + F[(s \ {y}) \ {x}] /\ F[s \ {x}] = f[y] + F[(s \ {x}) \ {y}]
      BY <1>6, <3>1, <3>2
    <3> DEFINE rest == (s \ {x}) \ {y}
    <3>4. (s \ {y}) \ {x} = rest /\ rest \in SUBSET S
      OBVIOUS
    <3>5. F[s \ {y}] = f[x] + F[rest] /\ F[s \ {x}] = f[y] + F[rest]
      BY <3>3, <3>4
    <3> HIDE DEF rest
    <3>6. F[rest] \in Nat /\ f[x] \in Nat /\ f[y] \in Nat
      BY <1>1, <2>1, <3>4
    <3> QED
      BY <2>1, <3>5, <3>6
  <2> QED
    BY <2>2, <2>3
<1> HIDE DEF K
<1>7. \A k \in Nat : k \in K
  BY <1>5, <1>6, AllNat
<1> QED
  BY <1>1, <1>7 DEF K

LEMMA SumIsWhole ==
  ASSUME NEW S, IsFiniteSet(S), NEW f, \A x \in S : f[x] \in Nat
  PROVE  /\ SumFunctionOnSet(f, S) \in Nat
         /\ S = {} => SumFunctionOnSet(f, S) = 0
         /\ \A x \in S : SumFunctionOnSet(f, S) >= f[x]
<1>1. PICK F : Sums(F, f, S) /\ SumFunctionOnSet(f, S) = F[S]
  BY SumsExist
<1>2. S \in SUBSET S /\ \A x \in S : S \ {x} \in SUBSET S
  OBVIOUS
<1>3. \A s \in SUBSET S : F[s] \in Nat /\ (s = {} => F[s] = 0)
  BY <1>1 DEF Sums
<1>4. ASSUME NEW x \in S
      PROVE  F[S] >= f[x]
  <2>1. F[S] = f[x] + F[S \ {x}]
    BY <1>1, <1>2, SumsWithout
  <2>2. F[S \ {x}] \in Nat /\ f[x] \in Nat
    BY <1>2, <1>3
  <2> QED
    BY <2>1, <2>2
<1> QED
  BY <1>1, <1>2, <1>3, <1>4

\* A sum is that of the same values, and of one value more.
LEMMA SumGrows ==
  ASSUME NEW S, IsFiniteSet(S), NEW f, NEW h, \A x \in S : f[x] \in Nat /\ h[x] = f[x]
  PROVE  /\ SumFunctionOnSet(h, S) = SumFunctionOnSet(f, S)
         /\ \A x : x \notin S /\ h[x] \in Nat =>
              SumFunctionOnSet(h, S \cup {x}) = SumFunctionOnSet(f, S) + h[x]
<1>1. PICK F : Sums(F, f, S) /\ SumFunctionOnSet(f, S) = F[S]
  BY SumsExist
<1>2. PICK H : Sums(H, h, S) /\ SumFunctionOnSet(h, S) = H[S]
  <2>1. \A x \in S : h[x] \in Nat
    OBVIOUS
  <2> QED
    BY <2>1, SumsExist
<1>3. H[S] = F[S]
  <2>1. \A s \in SUBSET (S \cap S) : F[s] = H[s]
    BY <1>1, <1>2, SumsAgree
  <2> QED
    BY <2>1
<1>4. ASSUME NEW x, x \notin S, h[x] \in Nat
      PROVE  SumFunctionOnSet(h, S \cup {x}) = SumFunctionOnSet(f, S) + h[x]
  <2> DEFINE T == S \cup {x}
  <2>1. IsFiniteSet(T) /\ \A y \in T : h[y] \in Nat
    BY <1>4, FS_AddElement
  <2>2. T \in SUBSET T /\ x \in T /\ T \ {x} = S /\ S \in SUBSET (S \cap T)
    BY <1>4
  <2> HIDE DEF T
  <2>3. PICK G : Sums(G, h, T) /\ SumFunctionOnSet(h, T) = G[T]
    BY <2>1, SumsExist
  <2>4. G[T] = h[x] + G[S]
    <3>1. Sums(G, h, T) /\ IsFiniteSet(T)
      BY <2>1, <2>3
    <3>2. \A y \in T : h[y] \in Nat
      BY <2>1
    <3>3. G[T] = h[x] + G[T \ {x}]
      BY <2>2, <3>1, <3>2, SumsWithout
    <3> QED
      BY <2>2, <3>3
  <2>5. F[S] = G[S]
    <3>1. \A y \in S \cap T : f[y] = h[y]
      OBVIOUS
    <3>2. \A s \in SUBSET (S \cap T) : F[s] = G[s]
      BY <1>1, <2>3, <3>1, SumsAgree
    <3> QED
      BY <2>2, <3>2
  <2>6. F[S] \in Nat
    BY <1>1 DEF Sums
  <2> QED
    BY <1>1, <1>4, <2>3, <2>4, <2>5, <2>6 DEF T
<1> QED
  BY <1>1, <1>2, <1>3, <1>4

LEMMA SumOfValues ==
  ASSUME NEW S, IsFiniteSet(S), NEW f \in [S -> Nat]
  PROVE  SumFunction(f) \in Nat /\ \A x \in S : SumFunction(f) >= f[x]
<1>1. SumFunction(f) = SumFunctionOnSet(f, S)
  BY DEF SumFunction
<1>2. \A x \in S : f[x] \in Nat
  OBVIOUS
<1> QED
  BY <1>1, <1>2, SumIsWhole

-----------------------------------------------------------------------------
(* The place of a note in the graph is a whole number.                      *)

\* What holds of a member when it holds of those of lower rank, holds of all.
LEMMA RankInduction ==
  ASSUME NEW D, NEW rank \in [D -> Nat], NEW T,
         \A n \in D : (\A m \in D : rank[m] < rank[n] => m \in T) => n \in T
  PROVE  D \subseteq T
<1> DEFINE K == {k \in Nat : \A n \in D : rank[n] < k => n \in T}
<1>1. 0 \in K
  OBVIOUS
<1>2. ASSUME NEW k \in Nat, k \in K
      PROVE  k + 1 \in K
  <2>1. ASSUME NEW n \in D, rank[n] < k + 1
        PROVE  n \in T
    <3>1. \A m \in D : rank[m] < rank[n] => m \in T
      BY <1>2, <2>1
    <3> QED
      BY <3>1
  <2> QED
    BY <2>1
<1>3. \A n \in D : rank[n] + 1 \in Nat /\ rank[n] < rank[n] + 1
  OBVIOUS
<1> HIDE DEF K
<1>4. \A k \in Nat : k \in K
  BY <1>1, <1>2, AllNat
<1> QED
  BY <1>3, <1>4 DEF K

LEMMA WholeQuotient ==
  ASSUME NEW a \in Nat \ {0}, NEW b \in Nat, NEW c \in Nat \ {0}
  PROVE  (a * (Denominator + b)) \div c \in Nat
<1>1. Denominator + b \in Nat \ {0}
  BY DEF Denominator
<1>2. a * (Denominator + b) \in Nat \ {0}
  BY <1>1, PositiveProduct
<1> DEFINE p == a * (Denominator + b)
<1>3. p \in Nat
  BY <1>2
<1> HIDE DEF p
<1>4. p \div c \in Nat
  BY <1>3
<1> QED
  BY <1>4 DEF p

\* The notes at their depths from s.
DepthsFrom(s, next, depth) ==
  /\ IsFiniteSet(DOMAIN depth) /\ \E max \in Nat : depth \in [DOMAIN depth -> 0..max]
  /\ \A n \in DOMAIN depth : n = s \/
       \E m \in DOMAIN depth : depth[n] = depth[m] + 1 /\ n \in ToSet(next[m])

LEMMA DependenciesAreWhole ==
  ASSUME NEW s, NEW next, NEW depth, DepthsFrom(s, next, depth)
  PROVE  Dependencies(s, next, depth) \in [DOMAIN depth -> Nat]
<1> DEFINE D == DOMAIN depth
           pred(n) == {m \in DOMAIN depth : depth[n] = depth[m] + 1 /\ n \in ToSet(next[m])}
           succ(n) == {k \in DOMAIN depth : n \in pred(k)}
           V == Nat \ {0}
           sigmaOf(g, n) == IF n = s THEN 1 ELSE SumFunction([m \in pred(n) |-> g[m]])
           sigma == CHOOSE g : g = [n \in DOMAIN depth |-> sigmaOf(g, n)]
           deltaOf(g, n) ==
             SumFunction([m \in succ(n) |-> (sigma[n] * (Denominator + g[m])) \div sigma[m]])
           delta == CHOOSE g : g = [n \in DOMAIN depth |-> deltaOf(g, n)]
<1>1. Dependencies(s, next, depth) = delta
  BY DEF Dependencies
<1>2. PICK max \in Nat : depth \in [D -> 0..max]
  BY DEF DepthsFrom
<1>3. \A n \in D : depth[n] \in Nat /\ depth[n] <= max /\ max - depth[n] \in Nat
  BY <1>2
<1>4. \A n \in D : pred(n) \in SUBSET D /\ succ(n) \in SUBSET D
  OBVIOUS
<1>5. \A n \in D : IsFiniteSet(pred(n)) /\ IsFiniteSet(succ(n))
  BY <1>4, FS_Subset DEF DepthsFrom
<1>6. \A n \in D : \A m \in pred(n) : depth[n] = depth[m] + 1
  OBVIOUS
<1>7. \A n \in D : \A m \in succ(n) : depth[m] = depth[n] + 1
  OBVIOUS
<1>8. \A n \in D : n = s \/ pred(n) # {}
  BY DEF DepthsFrom
<1> HIDE DEF pred, succ
<1>9. ASSUME NEW n \in D, NEW g, \A m \in pred(n) : g[m] \in V
      PROVE  sigmaOf(g, n) \in V
  <2>1. CASE n = s
    BY <2>1
  <2>2. CASE n # s
    <3> DEFINE f == [m \in pred(n) |-> g[m]]
    <3>1. f \in [pred(n) -> Nat]
      BY <1>9
    <3>2. PICK m \in pred(n) : TRUE
      BY <1>8, <2>2
    <3>3. f[m] \in V
      BY <1>9, <3>2
    <3> HIDE DEF f
    <3>4. SumFunction(f) \in Nat /\ SumFunction(f) >= f[m]
      BY <1>5, <3>1, <3>2, SumOfValues
    <3>5. SumFunction(f) \in V
      BY <3>3, <3>4
    <3> QED
      BY <2>2, <3>5 DEF f
  <2> QED
    BY <2>1, <2>2
<1>10. \A n \in D : \A g, h : (\A m \in pred(n) : g[m] = h[m]) => sigmaOf(g, n) = sigmaOf(h, n)
  <2> SUFFICES ASSUME NEW n \in D, NEW g, NEW h, \A m \in pred(n) : g[m] = h[m]
               PROVE  sigmaOf(g, n) = sigmaOf(h, n)
    OBVIOUS
  <2>1. [m \in pred(n) |-> g[m]] = [m \in pred(n) |-> h[m]]
    OBVIOUS
  <2> QED
    BY <2>1
<1> HIDE DEF sigmaOf, V
<1>11. sigma = [n \in D |-> sigmaOf(sigma, n)]
  <2> DEFINE E == [g \in [D -> V] |-> [n \in D |-> sigmaOf(g, n)]]
             one == [n \in D |-> 1]
  <2>1. depth \in [D -> Nat] /\ one \in [D -> V]
    BY <1>2 DEF V
  <2>2. E \in [[D -> V] -> [D -> V]]
    BY <1>4, <1>9
  <2>3. \A g, h \in [D -> V] : \A n \in D :
          (\A m \in D : depth[m] < depth[n] => g[m] = h[m]) => E[g][n] = E[h][n]
    <3> SUFFICES ASSUME NEW g \in [D -> V], NEW h \in [D -> V], NEW n \in D,
                        \A m \in D : depth[m] < depth[n] => g[m] = h[m]
                 PROVE  E[g][n] = E[h][n]
      OBVIOUS
    <3>1. \A m \in pred(n) : m \in D /\ depth[m] < depth[n]
      BY <1>3, <1>4, <1>6
    <3>2. sigmaOf(g, n) = sigmaOf(h, n)
      BY <1>10, <3>1
    <3> QED
      BY <3>2
  <2>4. HasFixpoint(E, [D -> V])
    <3> HIDE DEF E, one, D
    <3> QED
      BY <2>1, <2>2, <2>3, RankedRecursion
  <2>5. PICK g \in [D -> V] : g = E[g]
    BY <2>4 DEF HasFixpoint
  <2>6. g = [n \in D |-> sigmaOf(g, n)]
    BY <2>5
  <2> QED
    BY <2>6
<1> HIDE DEF sigma
<1>12. \A n \in D : sigma[n] \in V
  <2> DEFINE T == {n \in D : sigma[n] \in V}
  <2>1. depth \in [D -> Nat]
    BY <1>2
  <2>2. \A n \in D : (\A m \in D : depth[m] < depth[n] => m \in T) => n \in T
    <3> SUFFICES ASSUME NEW n \in D, \A m \in D : depth[m] < depth[n] => m \in T
                 PROVE  sigma[n] \in V
      OBVIOUS
    <3>1. \A m \in pred(n) : m \in D /\ depth[m] < depth[n]
      BY <1>3, <1>4, <1>6
    <3>2. sigmaOf(sigma, n) \in V
      BY <1>9, <3>1
    <3>3. sigma[n] = sigmaOf(sigma, n)
      BY <1>11
    <3> QED
      BY <3>2, <3>3
  <2>3. D \subseteq T
    <3> HIDE DEF T, D
    <3> QED
      BY <2>1, <2>2, RankInduction
  <2> QED
    BY <2>3
<1>13. ASSUME NEW n \in D, NEW g, \A m \in succ(n) : g[m] \in Nat
       PROVE  deltaOf(g, n) \in Nat
  <2> DEFINE f == [m \in succ(n) |-> (sigma[n] * (Denominator + g[m])) \div sigma[m]]
  <2>1. ASSUME NEW m \in succ(n)
        PROVE  (sigma[n] * (Denominator + g[m])) \div sigma[m] \in Nat
    <3>1. sigma[n] \in Nat \ {0} /\ sigma[m] \in Nat \ {0} /\ g[m] \in Nat
      BY <1>4, <1>12, <1>13 DEF V
    <3> QED
      BY <3>1, WholeQuotient
  <2>2. f \in [succ(n) -> Nat]
    BY <2>1
  <2> HIDE DEF f
  <2>3. SumFunction(f) \in Nat
    BY <1>5, <2>2, SumOfValues
  <2> QED
    BY <2>3 DEF f
<1>14. \A n \in D : \A g, h : (\A m \in succ(n) : g[m] = h[m]) => deltaOf(g, n) = deltaOf(h, n)
  <2> SUFFICES ASSUME NEW n \in D, NEW g, NEW h, \A m \in succ(n) : g[m] = h[m]
               PROVE  deltaOf(g, n) = deltaOf(h, n)
    OBVIOUS
  <2>1. [m \in succ(n) |-> (sigma[n] * (Denominator + g[m])) \div sigma[m]]
          = [m \in succ(n) |-> (sigma[n] * (Denominator + h[m])) \div sigma[m]]
    OBVIOUS
  <2> QED
    BY <2>1, Zenon
<1> HIDE DEF deltaOf
<1> DEFINE height == [n \in D |-> max - depth[n]]
<1>15. height \in [D -> Nat]
  BY <1>3
<1>16. \A n \in D : \A m \in succ(n) : m \in D /\ height[m] < height[n]
  BY <1>3, <1>4, <1>7
<1> HIDE DEF height
<1>17. delta = [n \in D |-> deltaOf(delta, n)]
  <2> DEFINE E == [g \in [D -> Nat] |-> [n \in D |-> deltaOf(g, n)]]
             zero == [n \in D |-> 0]
  <2>1. zero \in [D -> Nat]
    OBVIOUS
  <2>2. E \in [[D -> Nat] -> [D -> Nat]]
    BY <1>4, <1>13
  <2>3. \A g, h \in [D -> Nat] : \A n \in D :
          (\A m \in D : height[m] < height[n] => g[m] = h[m]) => E[g][n] = E[h][n]
    <3> SUFFICES ASSUME NEW g \in [D -> Nat], NEW h \in [D -> Nat], NEW n \in D,
                        \A m \in D : height[m] < height[n] => g[m] = h[m]
                 PROVE  E[g][n] = E[h][n]
      OBVIOUS
    <3>1. deltaOf(g, n) = deltaOf(h, n)
      BY <1>14, <1>16
    <3> QED
      BY <3>1
  <2>4. HasFixpoint(E, [D -> Nat])
    <3> HIDE DEF E, zero, D
    <3> QED
      BY <1>15, <2>1, <2>2, <2>3, RankedRecursion
  <2>5. PICK g \in [D -> Nat] : g = E[g]
    BY <2>4 DEF HasFixpoint
  <2>6. g = [n \in D |-> deltaOf(g, n)]
    BY <2>5
  <2> QED
    BY <2>6
<1> HIDE DEF delta
<1>18. \A n \in D : delta[n] \in Nat
  <2> DEFINE T == {n \in D : delta[n] \in Nat}
  <2>1. \A n \in D : (\A m \in D : height[m] < height[n] => m \in T) => n \in T
    <3> SUFFICES ASSUME NEW n \in D, \A m \in D : height[m] < height[n] => m \in T
                 PROVE  delta[n] \in Nat
      OBVIOUS
    <3>1. deltaOf(delta, n) \in Nat
      BY <1>13, <1>16
    <3>2. delta[n] = deltaOf(delta, n)
      BY <1>17
    <3> QED
      BY <3>1, <3>2
  <2>2. D \subseteq T
    <3> HIDE DEF T, D
    <3> QED
      BY <1>15, <2>1, RankInduction
  <2> QED
    BY <2>2
<1>19. delta \in [D -> Nat]
  BY <1>17, <1>18
<1> QED
  BY <1>1, <1>19

\* What a bundle is assembled from.
Candidate == [id : Notes, depth : Nat, seed : BOOLEAN, hub : BOOLEAN, like : BOOLEAN,
              links : SUBSET Notes, full : Nat, summary : Nat]
IdsIn(C) == {c.id : c \in C}
AreCandidates(C) == C \subseteq Candidate /\ IsFiniteSet(C) /\ \A c, d \in C : c.id = d.id => c = d

LEMMA SourcesAreWhole ==
  ASSUME NEW next, NextOK(next), NEW s \in Notes
  PROVE  FromSource(s, next, Explore(<<s>>, next, Cardinality(Notes)).depth) \in [Notes -> Nat]
<1> DEFINE N == Cardinality(Notes)
           starts == <<s>>
           w == Explore(starts, next, N)
<1>1. N \in Nat
  BY NotesAssumption, FS_CardinalityType
<1>2. starts \in Seq(Notes) /\ IsInjective(starts) /\ ToSet(starts) = {s}
  BY DEF IsInjective, ToSet
<1> HIDE DEF N, starts
<1>3. SearchOK(w, starts, next, N)
  BY <1>1, <1>2, ExploreEnds
<1> HIDE DEF w
<1>4. w.depth \in [DOMAIN w.depth -> Nat] /\ DOMAIN w.depth \subseteq Notes
  <2>1. w.depth \in Maps(Nat)
    BY <1>3 DEF SearchOK, Searches
  <2> QED
    BY <2>1, MapsType
<1>5. /\ w.depth[s] = 0 /\ DOMAIN w.parent = DOMAIN w.depth \ {s}
      /\ \A n \in DOMAIN w.parent :
           /\ w.parent[n] \in DOMAIN w.depth /\ n \in ToSet(next[w.parent[n]])
           /\ w.depth[n] = w.depth[w.parent[n]] + 1 /\ w.depth[n] <= N
  BY <1>2, <1>3 DEF SearchOK, ParentsOK
<1>6. DepthsFrom(s, next, w.depth)
  <2>1. IsFiniteSet(DOMAIN w.depth)
    BY <1>4, NotesAssumption, FS_Subset
  <2>2. \A n \in DOMAIN w.depth : w.depth[n] \in 0..N
    BY <1>1, <1>4, <1>5
  <2>3. w.depth \in [DOMAIN w.depth -> 0..N]
    BY <1>4, <2>2
  <2> QED
    BY <1>1, <1>5, <2>1, <2>3 DEF DepthsFrom
<1>7. Dependencies(s, next, w.depth) \in [DOMAIN w.depth -> Nat]
  BY <1>6, DependenciesAreWhole
<1>8. FromSource(s, next, w.depth) \in [Notes -> Nat]
  BY <1>7 DEF FromSource
<1> QED
  BY <1>8 DEF w, N, starts

LEMMA PlacesAreWhole ==
  ASSUME NEW C, AreCandidates(C)
  PROVE  Betweenness(C) \in [IdsIn(C) -> Nat]
<1> DEFINE ids == {c.id : c \in C}
           next == [n \in Notes |-> IF n \notin ids THEN <<>>
                      ELSE Ascending((CHOOSE c \in C : c.id = n).links \cap ids)]
           from == [s \in ids |-> FromSource(s, next, Explore(<<s>>, next, Cardinality(Notes)).depth)]
<1>1. Betweenness(C) = [n \in ids |-> SumFunction([s \in ids |-> from[s][n]])]
  BY DEF Betweenness
<1>2. ids \in SUBSET Notes
  BY DEF AreCandidates, Candidate
<1>3. IsFiniteSet(ids)
  BY <1>2, NotesAssumption, FS_Subset
<1> HIDE DEF ids
<1>4. \A n \in Notes : next[n] \in Seq(Notes) /\ IsInjective(next[n])
  <2> SUFFICES ASSUME NEW n \in Notes
               PROVE  next[n] \in Seq(Notes) /\ IsInjective(next[n])
    OBVIOUS
  <2>1. CASE n \notin ids
    <3>1. next[n] = <<>>
      BY <2>1
    <3>2. <<>> \in Seq(Notes) /\ IsInjective(<<>>)
      BY DEF IsInjective
    <3> QED
      BY <3>1, <3>2
  <2>2. CASE n \in ids
    <3> DEFINE S == (CHOOSE c \in C : c.id = n).links \cap ids
    <3>1. next[n] = Ascending(S)
      BY <2>2
    <3>2. S \in SUBSET Notes
      BY <1>2
    <3> HIDE DEF S
    <3>3. Ascending(S) \in Seq(S) /\ IsInjective(Ascending(S))
      BY <3>2, AscendingIsRight
    <3> QED
      BY <3>1, <3>2, <3>3
  <2> QED
    BY <2>1, <2>2
<1>5. NextOK(next)
  BY <1>4 DEF NextOK
<1> HIDE DEF next
<1>6. \A s \in ids : from[s] \in [Notes -> Nat]
  BY <1>2, <1>5, SourcesAreWhole
<1> HIDE DEF from
<1>7. ASSUME NEW n \in ids
      PROVE  SumFunction([s \in ids |-> from[s][n]]) \in Nat
  <2> DEFINE f == [s \in ids |-> from[s][n]]
  <2>1. f \in [ids -> Nat]
    BY <1>2, <1>6
  <2> HIDE DEF f
  <2>2. SumFunction(f) \in Nat
    BY <1>3, <2>1, SumOfValues
  <2> QED
    BY <2>2 DEF f
<1> QED
  BY <1>1, <1>7 DEF IdsIn, ids

-----------------------------------------------------------------------------
(* The notes a bundle is made from.                                         *)

VaultOK(v) ==
  /\ v.readable \subseteq Notes /\ \A l \in v.links : l.at \in Nat
  /\ v.full \in [Notes -> Nat] /\ v.summary \in [Notes -> Nat]

\* The links that are followed of a note, each once.
LEMMA FollowedOnce ==
  ASSUME NEW v, VaultOK(v), NEW n \in Notes
  PROVE  LET s == Followed(v, GraphOf(v.links, v.readable), n) IN s \in Seq(Notes) /\ IsInjective(s)
<1> DEFINE g == GraphOf(v.links, v.readable)
           all == GetNeighbors(g, n)
           like(m) == IF m \in v.like THEN 0 ELSE 1
           ats(m) == {l.at : l \in {k \in v.links : k.from = n /\ k.to = m}}
           first(m) == CHOOSE p \in ats(m) : \A o \in ats(m) : p <= o
           before(a, b) == \/ like(a) < like(b)
                           \/ like(a) = like(b) /\ (first(a) < first(b) \/ (first(a) = first(b) /\ a < b))
           fanout == IF HubFanout = 0 THEN 1 ELSE HubFanout
           T == Targets(g, n)
           R == {p \in T \X T : before(p[1], p[2])}
           s == Ordered(ToSet(all), before)
<1>1. Followed(v, g, n) = IF ~ IsHub(v, n) \/ Len(all) <= fanout THEN all ELSE SubSeq(s, 1, fanout)
  BY DEF Followed
<1>2. IsGraph(g) /\ g.readable = v.readable /\ v.readable \in SUBSET Notes
  BY GraphOfIsGraph DEF VaultOK, GraphOf
<1>3. all \in Seq(g.readable) /\ ToSet(all) = T /\ IsInjective(all)
  BY <1>2, NeighborsAreTargets
<1>4. T \in SUBSET Notes /\ IsFiniteSet(T) /\ \A x \in T : x \in Nat
  <2>1. T \in SUBSET Notes
    BY <1>2 DEF Targets, IsGraph
  <2> QED
    BY <2>1, NotesAssumption, FS_Subset
<1>5. Cardinality(T) \in Nat /\ Len(all) = Cardinality(T)
  <2>1. Cardinality(T) \in Nat
    BY <1>4, FS_CardinalityType
  <2>2. all = Ascending(T)
    BY DEF GetNeighbors, Targets
  <2>3. DOMAIN Ascending(T) = 1..Cardinality(T)
    BY DEF Ascending, Ordered
  <2> QED
    BY <1>3, <2>1, <2>2, <2>3
<1>6. \A x \in T : like(x) \in Nat /\ first(x) \in Nat
  <2> SUFFICES ASSUME NEW x \in T
               PROVE  first(x) \in Nat
    OBVIOUS
  <2>1. ats(x) \in SUBSET Nat
    BY DEF VaultOK
  <2>2. ats(x) # {}
    <3>1. PICK l \in g.links : l.from = n /\ l.to = x
      BY DEF Targets
    <3>2. l \in v.links
      BY <3>1 DEF GraphOf
    <3> QED
      BY <3>1, <3>2
  <2> HIDE DEF ats
  <2>3. PICK p \in ats(x) : \A o \in ats(x) : p <= o
    BY <2>1, <2>2, LeastNat
  <2>4. first(x) \in ats(x)
    BY <2>3
  <2> QED
    BY <2>1, <2>4
<1> HIDE DEF all, g, T, like, first
<1>7. \A x, y \in T : <<x, y>> \in R <=> before(x, y)
  OBVIOUS
<1>8. StrictOrder(T, R)
  <2>1. \A x \in T : <<x, x>> \notin R
    BY <1>4, <1>6
  <2>2. ASSUME NEW x \in T, NEW y \in T, NEW z \in T, <<x, y>> \in R, <<y, z>> \in R
        PROVE  <<x, z>> \in R
    <3>1. before(x, y) /\ before(y, z)
      BY <1>7, <2>2
    <3>2. /\ x \in Nat /\ y \in Nat /\ z \in Nat
          /\ like(x) \in Nat /\ like(y) \in Nat /\ like(z) \in Nat
          /\ first(x) \in Nat /\ first(y) \in Nat /\ first(z) \in Nat
      BY <1>4, <1>6
    <3>3. before(x, z)
      BY <3>1, <3>2
    <3> QED
      BY <1>7, <3>3
  <2>3. ASSUME NEW x \in T, NEW y \in T
        PROVE  x = y \/ <<x, y>> \in R \/ <<y, x>> \in R
    <3>1. /\ x \in Nat /\ y \in Nat /\ like(x) \in Nat /\ like(y) \in Nat
          /\ first(x) \in Nat /\ first(y) \in Nat
      BY <1>4, <1>6
    <3>2. x = y \/ before(x, y) \/ before(y, x)
      BY <3>1
    <3> QED
      BY <1>7, <3>2
  <2> QED
    BY <2>1, <2>2, <2>3 DEF StrictOrder
<1> HIDE DEF R
<1>9. s = OrderedBy(T, R)
  <2>1. \A x \in T : {y \in T : before(y, x)} = {y \in T : <<y, x>> \in R}
    BY <1>7
  <2> DEFINE A == ToSet(all)
  <2>2. s = [i \in 1..Cardinality(A) |-> CHOOSE x \in A : Cardinality({y \in A : before(y, x)}) = i - 1]
    BY DEF Ordered
  <2>3. A = T
    BY <1>3
  <2> HIDE DEF before, A, s
  <2> DEFINE a(i) == CHOOSE x \in T : Cardinality({y \in T : before(y, x)}) = i - 1
             b(i) == CHOOSE x \in T : Cardinality({y \in T : <<y, x>> \in R}) = i - 1
  <2>4. s = [i \in 1..Cardinality(T) |-> a(i)]
    BY <2>2, <2>3
  <2>5. \A i : a(i) = b(i)
    BY <2>1, Zenon
  <2>6. OrderedBy(T, R) = [i \in 1..Cardinality(T) |-> b(i)]
    BY DEF OrderedBy
  <2> HIDE DEF a, b
  <2> QED
    BY <2>4, <2>5, <2>6
<1> HIDE DEF s
<1>10. s \in Seq(T) /\ Len(s) = Cardinality(T) /\ IsInjective(s)
  <2>1. Lists(s, T, R)
    BY <1>4, <1>8, <1>9, OrderedLists
  <2> QED
    BY <1>8, <2>1, ListsAreSequences
<1>11. fanout \in Nat
  BY HubAssumption
<1> HIDE DEF fanout
<1>12. CASE ~ IsHub(v, n) \/ Len(all) <= fanout
  <2>1. Followed(v, g, n) = all
    BY <1>1, <1>12
  <2>2. all \in Seq(Notes)
    BY <1>2, <1>3
  <2> QED
    BY <1>3, <2>1, <2>2 DEF g
<1>13. CASE ~ (~ IsHub(v, n) \/ Len(all) <= fanout)
  <2> DEFINE c == SubSeq(s, 1, fanout)
  <2>1. Followed(v, g, n) = c /\ fanout < Len(s)
    BY <1>1, <1>5, <1>10, <1>11, <1>13
  <2>2. c = [i \in 1..fanout |-> s[i]] /\ \A i \in 1..fanout : i \in DOMAIN s /\ s[i] \in T
    BY <1>10, <1>11, <2>1
  <2>3. c \in Seq(Notes)
    BY <1>4, <1>11, <2>2
  <2>4. IsInjective(c)
    BY <1>10, <2>2 DEF IsInjective
  <2> QED
    BY <2>1, <2>3, <2>4 DEF g
<1> QED
  BY <1>12, <1>13

\* The notes around the seeds are candidates, each once.
LEMMA CandidatesAreRight ==
  ASSUME NEW v, VaultOK(v), NEW seeds \in SUBSET Notes, NEW depth \in Nat
  PROVE  AreCandidates(Candidates(v, seeds, depth))
<1> DEFINE g == GraphOf(v.links, v.readable)
           next == [n \in Notes |-> Followed(v, g, n)]
           starts == Ascending(seeds \cap v.readable)
           w == Explore(starts, next, Clamp(depth))
           row(n) == [id |-> n, depth |-> w.depth[n], seed |-> n \in seeds, hub |-> IsHub(v, n),
                      like |-> n \in v.like, links |-> ToSet(next[n]),
                      full |-> v.full[n], summary |-> v.summary[n]]
           D == DOMAIN w.depth
<1>1. Candidates(v, seeds, depth) = {row(n) : n \in D}
  BY DEF Candidates
<1>2. NextOK(next)
  <2>1. \A n \in Notes : next[n] \in Seq(Notes) /\ IsInjective(next[n])
    BY FollowedOnce
  <2> HIDE DEF next
  <2>2. next = [n \in Notes |-> next[n]]
    BY DEF next
  <2> QED
    BY <2>1, <2>2 DEF NextOK
<1>3. starts \in Seq(Notes) /\ IsInjective(starts)
  <2> DEFINE S == seeds \cap v.readable
  <2>1. S \in SUBSET Notes
    OBVIOUS
  <2> HIDE DEF S
  <2>2. Ascending(S) \in Seq(S) /\ IsInjective(Ascending(S))
    BY <2>1, AscendingIsRight
  <2>3. Seq(S) \subseteq Seq(Notes)
    BY <2>1
  <2> QED
    BY <2>2, <2>3 DEF S
<1>4. Clamp(depth) \in Nat
  BY TraversalAssumption DEF Clamp
<1> HIDE DEF next, starts
<1>5. SearchOK(w, starts, next, Clamp(depth))
  BY <1>2, <1>3, <1>4, ExploreEnds
<1> HIDE DEF w
<1>6. w.depth \in [D -> Nat] /\ D \in SUBSET Notes
  <2>1. w.depth \in Maps(Nat)
    BY <1>5 DEF SearchOK, Searches
  <2> QED
    BY <2>1, MapsType
<1>7. IsFiniteSet(D)
  BY <1>6, NotesAssumption, FS_Subset
<1> HIDE DEF D
<1>8. ASSUME NEW n \in D
      PROVE  row(n) \in Candidate
  <2>1. IsHub(v, n) \in BOOLEAN
    BY DEF IsHub
  <2>2. ToSet(next[n]) \subseteq Notes
    BY <1>2, <1>6 DEF NextOK, ToSet
  <2>3. v.full[n] \in Nat /\ v.summary[n] \in Nat /\ w.depth[n] \in Nat /\ n \in Notes
    BY <1>6 DEF VaultOK
  <2> QED
    BY <2>1, <2>2, <2>3 DEF Candidate
<1>9. \A n \in D : row(n).id = n
  OBVIOUS
<1> HIDE DEF row
<1>10. IsFiniteSet({row(n) : n \in D})
  <2> DEFINE T == {row(n) : n \in D}
             f == [n \in D |-> row(n)]
  <2>1. f \in Surjection(D, T)
    BY DEF Surjection
  <2> HIDE DEF T, f
  <2>2. IsFiniteSet(T)
    BY <1>7, <2>1, FS_Surjection
  <2> QED
    BY <2>2 DEF T
<1>11. {row(n) : n \in D} \subseteq Candidate
  BY <1>8
<1>12. \A c, d \in {row(n) : n \in D} : c.id = d.id => c = d
  BY <1>9
<1> QED
  BY <1>1, <1>10, <1>11, <1>12 DEF AreCandidates

-----------------------------------------------------------------------------
(* The order in which candidates are taken.                                 *)

\* All candidates, each once, and the seeds first.
SeedsFirst(order, C) ==
  /\ order \in Seq(C) /\ Len(order) = Cardinality(C) /\ DOMAIN order = 1..Cardinality(C)
  /\ Cardinality(C) \in Nat
  /\ \A c \in C : \E i \in DOMAIN order : order[i] = c
  /\ IsInjective(order)
  /\ \A i, j \in DOMAIN order : i < j /\ order[j].seed => order[i].seed

LEMMA ScoreIsWhole ==
  ASSUME NEW C, AreCandidates(C), NEW place \in [IdsIn(C) -> Nat], NEW most \in Nat, NEW c \in C
  PROVE  Score(c, place, most) \in Nat
<1> DEFINE unit == Denominator * most
           p == 10 * unit
           d == 1 + c.depth
           q == p \div d
           r == 4 * Denominator * place[c.id]
           a == IF c.like THEN 6 * unit ELSE 0
           b == IF c.hub THEN unit ELSE 0
<1>1. unit \in Nat
  BY DEF Denominator
<1>2. place[c.id] \in Nat /\ c.depth \in Nat
  BY DEF AreCandidates, Candidate, IdsIn
<1>3. r \in Nat
  BY <1>2 DEF Denominator
<1>4. Score(c, place, most) = q + a + r + b
  BY DEF Score
<1> HIDE DEF unit
<1>5. p \in Nat /\ d \in Nat \ {0} /\ a \in Nat /\ b \in Nat
  BY <1>1, <1>2
<1> HIDE DEF p, d, a, b, r
<1>6. q \in Nat
  BY <1>5
<1> HIDE DEF q
<1> QED
  BY <1>3, <1>4, <1>5, <1>6

LEMMA PriorityOrder ==
  ASSUME NEW C, AreCandidates(C), NEW place \in [IdsIn(C) -> Nat]
  PROVE  SeedsFirst(Prioritized(C, place), C)
<1> DEFINE values == {place[c.id] : c \in C} \cup {1}
           most == CHOOSE m \in values : \A k \in values : k <= m
           row(c) == [note |-> c, score |-> Score(c, place, most)]
           f == [c \in C |-> row(c)]
           S == {row(c) : c \in C}
           R == {p \in S \X S : Before(p[1], p[2])}
           s == Ordered(S, Before)
           n == Cardinality(C)
<1>1. Prioritized(C, place) = [i \in DOMAIN s |-> s[i].note]
  BY DEF Prioritized
<1>2. IsFiniteSet(C) /\ n \in Nat
  BY FS_CardinalityType DEF AreCandidates
<1> HIDE DEF n
<1>3. most \in Nat
  <2> DEFINE W == {place[c.id] : c \in C}
             h == [c \in C |-> place[c.id]]
  <2>1. h \in Surjection(C, W)
    BY DEF Surjection
  <2>2. W \in SUBSET Nat
    BY DEF IdsIn
  <2> HIDE DEF W, h
  <2>3. IsFiniteSet(W)
    BY <1>2, <2>1, FS_Surjection
  <2>4. IsFiniteSet(W \cup {1})
    BY <2>3, FS_AddElement
  <2>5. values = W \cup {1}
    BY DEF W
  <2> HIDE DEF values
  <2>6. values \in SUBSET Int /\ values \in SUBSET Nat /\ values # {} /\ IsFiniteSet(values)
    BY <2>2, <2>4, <2>5
  <2>7. Best(values) \in values
    BY <2>6, BestIsBest
  <2>8. most = Best(values)
    BY DEF Best
  <2> QED
    BY <2>6, <2>7, <2>8
<1> HIDE DEF most
<1>4. \A c \in C : row(c).note = c /\ row(c).score \in Nat
  BY <1>3, ScoreIsWhole
<1>5. \A c \in C : c.depth \in Nat /\ c.id \in Nat /\ c.seed \in BOOLEAN
  BY NotesAssumption DEF AreCandidates, Candidate
<1>6. \A c, d \in C : c.id = d.id => c = d
  BY DEF AreCandidates
<1>7. f \in Injection(C, S) /\ f \in Surjection(C, S)
  <2> HIDE DEF row
  <2>1. f \in [C -> S] /\ (\A t \in S : \E c \in C : f[c] = t) /\ \A c \in C : f[c] = row(c)
    OBVIOUS
  <2> HIDE DEF f, S
  <2>2. \A c, d \in C : f[c] = f[d] => c = d
    BY <1>4, <2>1
  <2> QED
    BY <2>1, <2>2 DEF Injection, Surjection, IsInjective
<1>8. \A x \in S : /\ x.note \in C /\ x = row(x.note) /\ x.score \in Nat /\ x.note.depth \in Nat
                   /\ x.note.id \in Nat /\ x.note.seed \in BOOLEAN
  BY <1>4, <1>5
<1>9. \A x, y \in S : x.note.id = y.note.id => x = y
  BY <1>6, <1>8
<1>10. \A c \in C : \E x \in S : x.note = c
  BY <1>4
<1> HIDE DEF row, f, S
<1>11. IsFiniteSet(S) /\ Cardinality(S) = n
  BY <1>2, <1>7, FS_Surjection DEF n
<1>12. \A x, y \in S : <<x, y>> \in R <=> Before(x, y)
  OBVIOUS
<1> HIDE DEF R
<1>13. StrictOrder(S, R)
  <2>1. \A x \in S : <<x, x>> \notin R
    BY <1>8, <1>12 DEF Before
  <2>2. ASSUME NEW x \in S, NEW y \in S, NEW z \in S, <<x, y>> \in R, <<y, z>> \in R
        PROVE  <<x, z>> \in R
    <3>1. Before(x, y) /\ Before(y, z)
      BY <1>12, <2>2
    <3>2. Before(x, z)
      BY <1>8, <3>1 DEF Before
    <3> QED
      BY <1>12, <3>2
  <2>3. ASSUME NEW x \in S, NEW y \in S
        PROVE  x = y \/ <<x, y>> \in R \/ <<y, x>> \in R
    <3>1. x.note.id = y.note.id \/ Before(x, y) \/ Before(y, x)
      BY <1>8 DEF Before
    <3> QED
      BY <1>9, <1>12, <3>1
  <2> QED
    BY <2>1, <2>2, <2>3 DEF StrictOrder
<1>14. s = OrderedBy(S, R)
  <2> DEFINE a(i) == CHOOSE x \in S : Cardinality({y \in S : Before(y, x)}) = i - 1
             b(i) == CHOOSE x \in S : Cardinality({y \in S : <<y, x>> \in R}) = i - 1
  <2>1. \A x \in S : {y \in S : Before(y, x)} = {y \in S : <<y, x>> \in R}
    BY <1>12
  <2>2. s = [i \in 1..Cardinality(S) |-> a(i)]
    BY DEF Ordered
  <2>3. \A i : a(i) = b(i)
    BY <2>1, Zenon
  <2>4. OrderedBy(S, R) = [i \in 1..Cardinality(S) |-> b(i)]
    BY DEF OrderedBy
  <2> HIDE DEF a, b, s
  <2> QED
    BY <2>2, <2>3, <2>4
<1> HIDE DEF s
<1>15. /\ s \in [1..n -> S] /\ (\A x \in S : \E i \in 1..n : s[i] = x)
       /\ \A i, j \in 1..n : i < j <=> <<s[i], s[j]>> \in R
  BY <1>11, <1>13, <1>14, OrderedLists DEF Lists
<1> DEFINE order == [i \in 1..n |-> s[i].note]
<1>16. Prioritized(C, place) = order
  BY <1>1, <1>15
<1>17. order \in Seq(C) /\ Len(order) = n /\ DOMAIN order = 1..n
  BY <1>2, <1>8, <1>15
<1>18. \A i \in 1..n : order[i] = s[i].note /\ s[i] \in S
  BY <1>15
<1> HIDE DEF order
<1>19. ASSUME NEW c \in C
       PROVE  \E i \in 1..n : order[i] = c
  <2>1. PICK x \in S : x.note = c
    BY <1>10
  <2>2. PICK i \in 1..n : s[i] = x
    BY <1>15
  <2> QED
    BY <1>18, <2>1, <2>2
<1>20. ASSUME NEW i \in 1..n, NEW j \in 1..n, order[i] = order[j]
       PROVE  i = j
  <2>1. s[i] = s[j]
    BY <1>9, <1>18, <1>20
  <2>2. ~ (i < j) /\ ~ (j < i)
    BY <1>13, <1>15, <1>18, <2>1 DEF StrictOrder
  <2> QED
    BY <1>2, <2>2
<1>21. ASSUME NEW i \in 1..n, NEW j \in 1..n, i < j, order[j].seed
       PROVE  order[i].seed
  <2>1. Before(s[i], s[j])
    BY <1>12, <1>15, <1>18, <1>21
  <2>2. s[i].note.seed \in BOOLEAN /\ s[j].note.seed
    BY <1>8, <1>18, <1>21
  <2> QED
    BY <1>18, <2>1, <2>2 DEF Before
<1> QED
  BY <1>2, <1>16, <1>17, <1>19, <1>20, <1>21 DEF SeedsFirst, IsInjective, n

-----------------------------------------------------------------------------
(* One candidate after the other.                                           *)

TokensOf(C, n) == LET c == CHOOSE d \in C : d.id = n.id IN IF n.how = "full" THEN c.full ELSE c.summary
Tokens(C, notes) == [i \in DOMAIN notes |-> TokensOf(C, notes[i])]
SeedsOf(notes) == {i \in DOMAIN notes : notes[i].seed}
Total(C, notes) == SumFunctionOnSet(Tokens(C, notes), DOMAIN notes)
BySeeds(C, notes) == SumFunctionOnSet(Tokens(C, notes), SeedsOf(notes))

Bundles == [used : Nat, notes : Seq([id : Notes, seed : BOOLEAN, how : {"full", "summary"}])]

\* What was taken from the first k candidates.
TakenFrom(w, order, k) ==
  /\ \A i \in DOMAIN w.notes : \E j \in 1..k : w.notes[i].id = order[j].id /\ w.notes[i].seed = order[j].seed
  /\ \A i, j \in DOMAIN w.notes : w.notes[i].id = w.notes[j].id => i = j
  /\ (\E j \in 1..k : order[j].seed) => w.notes # <<>>

WithinTokens(w, C, max) ==
  /\ w.used = Total(C, w.notes)
  /\ w.used <= max \/ /\ w.notes # <<>> /\ w.notes[1].seed /\ w.notes[1].how = "summary"
                      /\ w.used = TokensOf(C, w.notes[1])

\* A seed that is not taken does not fit beside the seeds that are.
SeedsServed(w, C, order, k, max) ==
  \A j \in 1..k : order[j].seed =>
    (\E i \in DOMAIN w.notes : w.notes[i].id = order[j].id) \/ BySeeds(C, w.notes) + order[j].summary > max

BundleOK(w, C, order, k, max) ==
  w \in Bundles /\ TakenFrom(w, order, k) /\ WithinTokens(w, C, max) /\ SeedsServed(w, C, order, k, max)

LEMMA TokensAreKnown ==
  ASSUME NEW C, AreCandidates(C), NEW c \in C, NEW n, n.id = c.id
  PROVE  TokensOf(C, n) = IF n.how = "full" THEN c.full ELSE c.summary
<1>1. (CHOOSE d \in C : d.id = n.id) = c
  BY DEF AreCandidates
<1> QED
  BY <1>1 DEF TokensOf

\* The tokens of what was taken are whole numbers.
LEMMA TokensAreWhole ==
  ASSUME NEW C, AreCandidates(C), NEW order, SeedsFirst(order, C), NEW k \in 0..Len(order),
         NEW w \in Bundles, TakenFrom(w, order, k)
  PROVE  /\ IsFiniteSet(DOMAIN w.notes) /\ IsFiniteSet(SeedsOf(w.notes))
         /\ \A i \in DOMAIN w.notes : Tokens(C, w.notes)[i] = TokensOf(C, w.notes[i])
                                      /\ TokensOf(C, w.notes[i]) \in Nat
         /\ BySeeds(C, w.notes) \in Nat /\ Total(C, w.notes) \in Nat
<1> DEFINE D == DOMAIN w.notes
           f == Tokens(C, w.notes)
<1>1. D = 1..Len(w.notes) /\ Len(w.notes) \in Nat
  BY DEF Bundles
<1>2. IsFiniteSet(D)
  BY <1>1, FS_Interval
<1>3. SeedsOf(w.notes) \in SUBSET D
  BY DEF SeedsOf
<1>4. IsFiniteSet(SeedsOf(w.notes))
  BY <1>2, <1>3, FS_Subset
<1>5. \A i \in D : f[i] = TokensOf(C, w.notes[i])
  BY DEF Tokens
<1>6. ASSUME NEW i \in D
      PROVE  TokensOf(C, w.notes[i]) \in Nat
  <2>1. PICK j \in 1..k : w.notes[i].id = order[j].id
    BY DEF TakenFrom
  <2>2. order[j] \in C
    BY <2>1 DEF SeedsFirst
  <2>3. order[j].full \in Nat /\ order[j].summary \in Nat
    BY <2>2 DEF AreCandidates, Candidate
  <2> QED
    BY <2>1, <2>2, <2>3, TokensAreKnown
<1> HIDE DEF f, D
<1>7. \A x \in D : f[x] \in Nat
  BY <1>5, <1>6
<1>8. SumFunctionOnSet(f, D) \in Nat
  BY <1>2, <1>7, SumIsWhole
<1>9. \A x \in SeedsOf(w.notes) : f[x] \in Nat
  BY <1>3, <1>7
<1>10. SumFunctionOnSet(f, SeedsOf(w.notes)) \in Nat
  BY <1>4, <1>9, SumIsWhole
<1> QED
  BY <1>2, <1>4, <1>5, <1>6, <1>8, <1>10 DEF BySeeds, Total, D, f

\* A candidate that is left out.
LEMMA LeavesOut ==
  ASSUME NEW C, AreCandidates(C), NEW order, SeedsFirst(order, C), NEW max \in Nat,
         NEW k \in 0..(Len(order) - 1), NEW w, BundleOK(w, C, order, k, max),
         w.used + order[k + 1].summary > max, ~ (order[k + 1].seed /\ w.notes = <<>>)
  PROVE  BundleOK(w, C, order, k + 1, max)
<1> DEFINE c == order[k + 1]
<1>1. k + 1 \in DOMAIN order /\ k \in Nat /\ k + 1 \in 1..Len(order) /\ k \in 0..Len(order)
      /\ DOMAIN order = 1..Len(order)
  BY DEF SeedsFirst
<1>2. \A j \in 1..(k + 1) : j \in 1..k \/ j = k + 1
  BY <1>1
<1>3. w \in Bundles /\ TakenFrom(w, order, k) /\ WithinTokens(w, C, max) /\ SeedsServed(w, C, order, k, max)
  BY DEF BundleOK
<1>4. \A j \in 1..k : j \in 1..(k + 1)
  BY <1>1
<1>5. TakenFrom(w, order, k + 1)
  <2>1. \A i \in DOMAIN w.notes :
          \E j \in 1..(k + 1) : w.notes[i].id = order[j].id /\ w.notes[i].seed = order[j].seed
    BY <1>3, <1>4 DEF TakenFrom
  <2>2. (\E j \in 1..(k + 1) : order[j].seed) => w.notes # <<>>
    BY <1>2, <1>3 DEF TakenFrom
  <2> QED
    BY <1>3, <2>1, <2>2 DEF TakenFrom
<1>6. c.seed => BySeeds(C, w.notes) = w.used
  <2> SUFFICES ASSUME c.seed
               PROVE  BySeeds(C, w.notes) = w.used
    OBVIOUS
  <2>1. \A j \in 1..k : order[j].seed
    BY <1>1 DEF SeedsFirst
  <2>2. SeedsOf(w.notes) = DOMAIN w.notes
    BY <1>3, <2>1 DEF SeedsOf, TakenFrom
  <2> QED
    BY <1>3, <2>2 DEF BySeeds, Total, WithinTokens
<1>7. SeedsServed(w, C, order, k + 1, max)
  BY <1>2, <1>3, <1>6 DEF SeedsServed
<1> QED
  BY <1>3, <1>5, <1>7 DEF BundleOK

\* A candidate that is taken, in full or as a summary.
LEMMA TakesIn ==
  ASSUME NEW C, AreCandidates(C), NEW order, SeedsFirst(order, C), NEW max \in Nat,
         NEW k \in 0..(Len(order) - 1), NEW w, BundleOK(w, C, order, k, max),
         NEW how \in {"full", "summary"}, NEW tokens,
         tokens = IF how = "full" THEN order[k + 1].full ELSE order[k + 1].summary,
         w.used + tokens <= max \/ (how = "summary" /\ order[k + 1].seed /\ w.notes = <<>>)
  PROVE  BundleOK([used |-> w.used + tokens,
                   notes |-> Append(w.notes, [id |-> order[k + 1].id, seed |-> order[k + 1].seed, how |-> how])],
                  C, order, k + 1, max)
<1> DEFINE c == order[k + 1]
           n == [id |-> c.id, seed |-> c.seed, how |-> how]
           u == [used |-> w.used + tokens, notes |-> Append(w.notes, n)]
           m == Len(w.notes) + 1
           D == DOMAIN w.notes
           f == Tokens(C, w.notes)
           h == Tokens(C, u.notes)
<1>1. /\ k + 1 \in DOMAIN order /\ k \in Nat /\ k + 1 \in 1..Len(order) /\ k \in 0..Len(order)
      /\ DOMAIN order = 1..Len(order) /\ IsInjective(order) /\ \A j \in DOMAIN order : order[j] \in C
  BY DEF SeedsFirst
<1>2. \A j \in 1..(k + 1) : j \in 1..k \/ j = k + 1
  BY <1>1
<1>3. w \in Bundles /\ TakenFrom(w, order, k) /\ WithinTokens(w, C, max) /\ SeedsServed(w, C, order, k, max)
  BY DEF BundleOK
<1>4. c \in C /\ c.id \in Notes /\ c.seed \in BOOLEAN /\ c.full \in Nat /\ c.summary \in Nat
  BY <1>1 DEF AreCandidates, Candidate
<1>5. tokens \in Nat /\ TokensOf(C, n) = tokens
  BY <1>4, TokensAreKnown
<1> HIDE DEF c
<1>6. /\ w.used \in Nat /\ w.notes \in Seq([id : Notes, seed : BOOLEAN, how : {"full", "summary"}])
      /\ n \in [id : Notes, seed : BOOLEAN, how : {"full", "summary"}]
      /\ n.id = c.id /\ n.seed = c.seed /\ n.how = how
  BY <1>3, <1>4 DEF Bundles
<1> HIDE DEF n
<1>7. /\ u.used = w.used + tokens /\ u.notes = Append(w.notes, n) /\ u \in Bundles
      /\ D = 1..(m - 1) /\ m \in Nat \ {0} /\ m \notin D
      /\ DOMAIN u.notes = D \cup {m} /\ u.notes[m] = n /\ u.notes # <<>>
      /\ \A i \in D : u.notes[i] = w.notes[i]
  <2> DEFINE R == [id : Notes, seed : BOOLEAN, how : {"full", "summary"}]
             s == Append(w.notes, n)
  <2>1. w.notes \in Seq(R) /\ n \in R
    BY <1>6
  <2>2. u.used = w.used + tokens /\ u.notes = s /\ u = [used |-> u.used, notes |-> u.notes]
    OBVIOUS
  <2>3. Bundles = [used : Nat, notes : Seq(R)]
    BY DEF Bundles
  <2> HIDE DEF R, u
  <2>4. D = 1..(m - 1) /\ m \in Nat \ {0} /\ Len(w.notes) \in Nat
    BY <2>1
  <2>5. s \in Seq(R) /\ DOMAIN s = 1..m /\ s[m] = n /\ s # <<>> /\ \A i \in 1..(m - 1) : s[i] = w.notes[i]
    BY <2>1
  <2> HIDE DEF s, m, D
  <2>6. DOMAIN s = D \cup {m} /\ m \notin D
    BY <2>4, <2>5
  <2>7. w.used + tokens \in Nat
    BY <1>5, <1>6
  <2>8. u \in Bundles
    BY <2>2, <2>3, <2>5, <2>7
  <2>9. \A i \in D : s[i] = w.notes[i]
    BY <2>4, <2>5
  <2> QED
    BY <2>2, <2>4, <2>5, <2>6, <2>8, <2>9 DEF s
<1> HIDE DEF u, m, D
<1>8. \A j \in 1..k : j \in DOMAIN order /\ j # k + 1 /\ j \in 1..(k + 1)
  BY <1>1
<1>9. /\ IsFiniteSet(D) /\ IsFiniteSet(SeedsOf(w.notes))
      /\ \A i \in D : f[i] = TokensOf(C, w.notes[i]) /\ f[i] \in Nat
      /\ BySeeds(C, w.notes) \in Nat /\ Total(C, w.notes) \in Nat
  <2>1. /\ IsFiniteSet(DOMAIN w.notes) /\ IsFiniteSet(SeedsOf(w.notes))
        /\ \A i \in DOMAIN w.notes : Tokens(C, w.notes)[i] = TokensOf(C, w.notes[i])
                                     /\ TokensOf(C, w.notes[i]) \in Nat
        /\ BySeeds(C, w.notes) \in Nat /\ Total(C, w.notes) \in Nat
    BY <1>1, <1>3, TokensAreWhole
  <2> QED
    BY <2>1 DEF D
<1>10. h[m] = tokens /\ \A i \in D : h[i] = f[i]
  <2>1. \A i \in DOMAIN u.notes : h[i] = TokensOf(C, u.notes[i])
    BY DEF Tokens
  <2> HIDE DEF f, h
  <2> QED
    <3>1. h[m] = TokensOf(C, n)
      BY <1>7, <2>1
    <3>2. ASSUME NEW i \in D
          PROVE  h[i] = f[i]
      <4>1. h[i] = TokensOf(C, u.notes[i]) /\ u.notes[i] = w.notes[i]
        BY <1>7, <2>1
      <4> QED
        BY <1>9, <4>1
    <3> QED
      BY <1>5, <3>1, <3>2
<1> HIDE DEF f, h
<1>11. Total(C, u.notes) = Total(C, w.notes) + tokens
  <2>1. \A x \in D : f[x] \in Nat /\ h[x] = f[x]
    BY <1>9, <1>10
  <2>2. SumFunctionOnSet(h, D \cup {m}) = SumFunctionOnSet(f, D) + h[m]
    <3>1. IsFiniteSet(D) /\ m \notin D /\ h[m] \in Nat
      BY <1>5, <1>7, <1>9, <1>10
    <3> QED
      BY <2>1, <3>1, SumGrows
  <2> QED
    BY <1>7, <1>10, <2>2 DEF Total, f, h, D
<1>12. BySeeds(C, u.notes) >= BySeeds(C, w.notes)
  <2> DEFINE S == SeedsOf(w.notes)
  <2>1. S \subseteq D /\ m \notin S /\ IsFiniteSet(S)
    BY <1>7, <1>9 DEF SeedsOf, D
  <2>2. SeedsOf(u.notes) = IF c.seed THEN S \cup {m} ELSE S
    BY <1>6, <1>7 DEF SeedsOf, D
  <2> HIDE DEF S
  <2>3. \A x \in S : f[x] \in Nat /\ h[x] = f[x]
    BY <1>9, <1>10, <2>1
  <2>4. SumFunctionOnSet(h, S) = SumFunctionOnSet(f, S)
    BY <2>1, <2>3, SumGrows
  <2>5. SumFunctionOnSet(h, S \cup {m}) = SumFunctionOnSet(f, S) + h[m]
    BY <1>5, <1>10, <2>1, <2>3, SumGrows
  <2>6. BySeeds(C, w.notes) = SumFunctionOnSet(f, S)
    BY DEF BySeeds, f, S
  <2>7. BySeeds(C, u.notes) = SumFunctionOnSet(h, IF c.seed THEN S \cup {m} ELSE S)
    BY <2>2 DEF BySeeds, h
  <2> QED
    BY <1>4, <1>5, <1>9, <1>10, <2>4, <2>5, <2>6, <2>7
<1>13. TakenFrom(u, order, k + 1)
  <2>1. ASSUME NEW i \in DOMAIN u.notes
        PROVE  \E j \in 1..(k + 1) : u.notes[i].id = order[j].id /\ u.notes[i].seed = order[j].seed
    <3>1. CASE i = m
      <4>1. u.notes[i].id = order[k + 1].id /\ u.notes[i].seed = order[k + 1].seed
        BY <1>6, <1>7, <3>1 DEF c
      <4>2. k + 1 \in 1..(k + 1)
        BY <1>1
      <4> QED
        BY <4>1, <4>2
    <3>2. CASE i \in D
      <4>1. PICK j \in 1..k : w.notes[i].id = order[j].id /\ w.notes[i].seed = order[j].seed
        BY <1>3, <3>2 DEF TakenFrom, D
      <4> QED
        BY <1>7, <1>8, <3>2, <4>1
    <3> QED
      BY <1>7, <3>1, <3>2
  <2>2. \A i \in D : u.notes[i].id # c.id
    <3> SUFFICES ASSUME NEW i \in D, u.notes[i].id = c.id
                 PROVE  FALSE
      OBVIOUS
    <3>1. PICK j \in 1..k : w.notes[i].id = order[j].id
      BY <1>3 DEF TakenFrom, D
    <3>2. order[j].id = order[k + 1].id /\ order[j] \in C /\ order[k + 1] \in C /\ j \in DOMAIN order
      BY <1>1, <1>7, <1>8, <3>1 DEF c
    <3>3. order[j] = order[k + 1]
      BY <3>2 DEF AreCandidates
    <3> QED
      BY <1>1, <1>8, <3>1, <3>2, <3>3 DEF IsInjective
  <2>3. \A i, j \in DOMAIN u.notes : u.notes[i].id = u.notes[j].id => i = j
    <3>1. \A i, j \in D : w.notes[i].id = w.notes[j].id => i = j
      BY <1>3 DEF TakenFrom, D
    <3>2. u.notes[m].id = c.id
      BY <1>6, <1>7
    <3> SUFFICES ASSUME NEW i \in D \cup {m}, NEW j \in D \cup {m}, u.notes[i].id = u.notes[j].id
                 PROVE  i = j
      BY <1>7
    <3>3. CASE i = m \/ j = m
      BY <2>2, <3>2, <3>3
    <3>4. CASE i \in D /\ j \in D
      <4>1. w.notes[i].id = w.notes[j].id
        BY <1>7, <3>4
      <4> QED
        BY <3>1, <3>4, <4>1
    <3> QED
      BY <3>3, <3>4
  <2> QED
    BY <1>7, <2>1, <2>3 DEF TakenFrom
<1>14. WithinTokens(u, C, max)
  <2>1. u.used = Total(C, u.notes)
    BY <1>3, <1>7, <1>11 DEF WithinTokens
  <2>2. CASE w.used + tokens <= max
    BY <1>7, <2>1, <2>2 DEF WithinTokens
  <2>3. CASE how = "summary" /\ order[k + 1].seed /\ w.notes = <<>>
    <3>1. D = {} /\ m = 1
      BY <2>3 DEF D, m
    <3>2. Total(C, w.notes) = 0
      <4>1. SumFunctionOnSet(f, D) = 0
        BY <1>9, <3>1, SumIsWhole
      <4> QED
        BY <4>1 DEF Total, f, D
    <3>3. u.used = tokens /\ u.notes[1] = n /\ u.notes # <<>>
      BY <1>3, <1>5, <1>7, <3>1, <3>2 DEF WithinTokens
    <3> QED
      BY <1>5, <1>6, <2>1, <2>3, <3>3 DEF WithinTokens, c
  <2> QED
    BY <2>2, <2>3
<1>15. SeedsServed(u, C, order, k + 1, max)
  <2> SUFFICES ASSUME NEW j \in 1..(k + 1), order[j].seed, \A i \in DOMAIN u.notes : u.notes[i].id # order[j].id
               PROVE  BySeeds(C, u.notes) + order[j].summary > max
    BY DEF SeedsServed
  <2>1. j # k + 1
    BY <1>6, <1>7 DEF c
  <2>2. j \in 1..k
    BY <1>2, <2>1
  <2>3. \A i \in D : w.notes[i].id # order[j].id
    BY <1>7
  <2>4. BySeeds(C, w.notes) + order[j].summary > max
    BY <1>3, <2>2, <2>3 DEF SeedsServed, D
  <2>5. order[j].summary \in Nat
    BY <1>1, <2>2 DEF AreCandidates, Candidate
  <2>6. BySeeds(C, u.notes) \in Nat
    <3>1. k + 1 \in 0..Len(order) /\ u \in Bundles
      BY <1>1, <1>7
    <3> QED
      BY <1>13, <3>1, TokensAreWhole
  <2> QED
    BY <1>9, <1>12, <2>4, <2>5, <2>6
<1> QED
  BY <1>7, <1>13, <1>14, <1>15 DEF BundleOK, u, n, c

\* The bundle after so many candidates is the one before and the next candidate.
LEMMA AssembledGoesOn ==
  ASSUME NEW C, AreCandidates(C), NEW order, SeedsFirst(order, C), NEW max \in Nat
  PROVE  /\ Assembled(order, max)[0] = [used |-> 0, notes |-> <<>>]
         /\ \A k \in 0..(Len(order) - 1) :
              Assembled(order, max)[k + 1] = Include(Assembled(order, max)[k], order[k + 1], max)
<1> DEFINE N == Len(order)
           D == 0..N
           none == [used |-> 0, notes |-> <<>>]
           after(g, k) == IF k = 0 THEN none ELSE Include(g[k - 1], order[k], max)
           A == CHOOSE g : g = [k \in D |-> after(g, k)]
           E == [g \in [D -> Bundles] |-> [k \in D |-> after(g, k)]]
           rank == [k \in D |-> k]
           g0 == [k \in D |-> none]
<1>1. Assembled(order, max) = A
  BY DEF Assembled
<1>2. N \in Nat /\ \A k \in D : k # 0 => k - 1 \in D /\ k - 1 < k /\ order[k] \in C
  BY DEF SeedsFirst
<1>3. none \in Bundles
  BY DEF Bundles
<1>4. ASSUME NEW w \in Bundles, NEW c \in C
      PROVE  Include(w, c, max) \in Bundles
  <2> DEFINE R == [id : Notes, seed : BOOLEAN, how : {"full", "summary"}]
             as(how, tokens) == [used |-> w.used + tokens,
                                 notes |-> Append(w.notes, [id |-> c.id, seed |-> c.seed, how |-> how])]
  <2>1. c.full \in Nat /\ c.summary \in Nat /\ c.id \in Notes /\ c.seed \in BOOLEAN
    BY DEF AreCandidates, Candidate
  <2>2. Include(w, c, max) \in {as("full", c.full), as("summary", c.summary), w}
    BY DEF Include
  <2>3. ASSUME NEW how \in {"full", "summary"}, NEW tokens \in Nat
        PROVE  as(how, tokens) \in Bundles
    <3>1. [id |-> c.id, seed |-> c.seed, how |-> how] \in R
      BY <2>1
    <3>2. w.used + tokens \in Nat /\ w.notes \in Seq(R)
      BY DEF Bundles
    <3> HIDE DEF R
    <3>3. Append(w.notes, [id |-> c.id, seed |-> c.seed, how |-> how]) \in Seq(R)
      BY <3>1, <3>2
    <3> QED
      BY <3>2, <3>3 DEF Bundles, R
  <2>4. as("full", c.full) \in Bundles /\ as("summary", c.summary) \in Bundles
    BY <2>1, <2>3
  <2> HIDE DEF as
  <2> QED
    BY <2>2, <2>4
<1> HIDE DEF none, N, D
<1>5. \A g : \A k \in D : k # 0 => after(g, k) = Include(g[k - 1], order[k], max)
  OBVIOUS
<1>6. \A g : after(g, 0) = none
  OBVIOUS
<1>7. 0 \in D
  BY <1>2 DEF D
<1> HIDE DEF after
<1>8. A = [k \in D |-> after(A, k)]
  <2>1. rank \in [D -> Nat] /\ g0 \in [D -> Bundles]
    BY <1>2, <1>3 DEF D
  <2>2. \A g \in [D -> Bundles] : \A k \in D : after(g, k) \in Bundles
    BY <1>2, <1>3, <1>4, <1>5, <1>6
  <2>3. E \in [[D -> Bundles] -> [D -> Bundles]]
    BY <2>2
  <2>4. \A g, h \in [D -> Bundles] : \A n \in D :
          (\A m \in D : rank[m] < rank[n] => g[m] = h[m]) => E[g][n] = E[h][n]
    <3> SUFFICES ASSUME NEW g \in [D -> Bundles], NEW h \in [D -> Bundles], NEW n \in D,
                        \A m \in D : rank[m] < rank[n] => g[m] = h[m]
                 PROVE  after(g, n) = after(h, n)
      OBVIOUS
    <3>1. CASE n = 0
      BY <1>6, <3>1
    <3>2. CASE n # 0
      <4>1. g[n - 1] = h[n - 1]
        BY <1>2, <3>2
      <4> QED
        BY <1>5, <3>2, <4>1
    <3> QED
      BY <3>1, <3>2
  <2>5. HasFixpoint(E, [D -> Bundles])
    <3> HIDE DEF E, rank, g0
    <3> QED
      BY <2>1, <2>3, <2>4, RankedRecursion
  <2>6. PICK g \in [D -> Bundles] : g = E[g]
    BY <2>5 DEF HasFixpoint
  <2>7. g = [k \in D |-> after(g, k)]
    BY <2>6
  <2> QED
    BY <2>7
<1> HIDE DEF A
<1>9. A[0] = none
  BY <1>6, <1>7, <1>8
<1>10. ASSUME NEW k \in 0..(N - 1)
       PROVE  A[k + 1] = Include(A[k], order[k + 1], max)
  <2>1. k + 1 \in D /\ k + 1 # 0 /\ k + 1 - 1 = k
    BY <1>2 DEF D
  <2>2. A[k + 1] = after(A, k + 1)
    BY <1>8, <2>1
  <2> QED
    BY <1>5, <2>1, <2>2
<1> QED
  BY <1>1, <1>9, <1>10 DEF none, N

LEMMA BundleStarts ==
  ASSUME NEW C, NEW order, NEW max \in Nat
  PROVE  BundleOK([used |-> 0, notes |-> <<>>], C, order, 0, max)
<1> DEFINE w == [used |-> 0, notes |-> <<>>]
<1>1. w.used = 0 /\ w.notes = <<>> /\ DOMAIN w.notes = {} /\ 1..0 = {}
  OBVIOUS
<1>2. w \in Bundles
  BY DEF Bundles
<1> HIDE DEF w
<1>3. TakenFrom(w, order, 0) /\ SeedsServed(w, C, order, 0, max)
  BY <1>1 DEF TakenFrom, SeedsServed
<1>4. Total(C, w.notes) = 0
  <2> DEFINE f == Tokens(C, w.notes)
  <2>1. IsFiniteSet({}) /\ \A x \in {} : f[x] \in Nat
    BY FS_EmptySet
  <2> HIDE DEF f
  <2>2. SumFunctionOnSet(f, {}) = 0
    BY <2>1, SumIsWhole
  <2> QED
    BY <1>1, <2>2 DEF Total, f
<1>5. WithinTokens(w, C, max)
  BY <1>1, <1>4 DEF WithinTokens
<1> QED
  BY <1>2, <1>3, <1>5 DEF BundleOK, w

LEMMA BundleGoesOn ==
  ASSUME NEW C, AreCandidates(C), NEW order, SeedsFirst(order, C), NEW max \in Nat,
         NEW k \in 0..(Len(order) - 1), NEW w, BundleOK(w, C, order, k, max)
  PROVE  BundleOK(Include(w, order[k + 1], max), C, order, k + 1, max)
<1> DEFINE c == order[k + 1]
           as(how, tokens) == [used |-> w.used + tokens,
                               notes |-> Append(w.notes, [id |-> c.id, seed |-> c.seed, how |-> how])]
<1>1. Include(w, c, max) =
        IF ~ c.hub /\ w.used + c.full <= max THEN as("full", c.full)
        ELSE IF w.used + c.summary <= max \/ (c.seed /\ w.notes = <<>>) THEN as("summary", c.summary)
        ELSE w
  BY DEF Include
<1>2. w.used \in Nat /\ c.summary \in Nat
  <2>1. c \in C
    BY DEF SeedsFirst
  <2> QED
    BY <2>1 DEF BundleOK, Bundles, AreCandidates, Candidate
<1>3. CASE ~ c.hub /\ w.used + c.full <= max
  <2>1. BundleOK(as("full", c.full), C, order, k + 1, max)
    BY <1>3, TakesIn
  <2> QED
    BY <1>1, <1>3, <2>1
<1>4. CASE ~ (~ c.hub /\ w.used + c.full <= max) /\ (w.used + c.summary <= max \/ (c.seed /\ w.notes = <<>>))
  <2>1. BundleOK(as("summary", c.summary), C, order, k + 1, max)
    BY <1>4, TakesIn
  <2> QED
    BY <1>1, <1>4, <2>1
<1>5. CASE ~ (~ c.hub /\ w.used + c.full <= max) /\ ~ (w.used + c.summary <= max \/ (c.seed /\ w.notes = <<>>))
  <2>1. w.used + c.summary > max
    BY <1>2, <1>5
  <2>2. BundleOK(w, C, order, k + 1, max)
    BY <1>5, <2>1, LeavesOut
  <2> QED
    BY <1>1, <1>5, <2>2
<1> QED
  BY <1>3, <1>4, <1>5

LEMMA BundleEnds ==
  ASSUME NEW C, AreCandidates(C), NEW order, SeedsFirst(order, C), NEW max \in Nat
  PROVE  BundleOK(Assembled(order, max)[Len(order)], C, order, Len(order), max)
<1> DEFINE N == Len(order)
           A == Assembled(order, max)
           K == {k \in Nat : k <= N => BundleOK(A[k], C, order, k, max)}
<1>1. N \in Nat
  BY DEF SeedsFirst
<1>2. A[0] = [used |-> 0, notes |-> <<>>]
  BY AssembledGoesOn
<1>3. \A k \in 0..(N - 1) : A[k + 1] = Include(A[k], order[k + 1], max)
  BY AssembledGoesOn
<1> HIDE DEF A
<1>4. 0 \in K
  BY <1>2, BundleStarts
<1>5. ASSUME NEW k \in Nat, k \in K
      PROVE  k + 1 \in K
  <2> SUFFICES ASSUME k + 1 <= N
               PROVE  BundleOK(A[k + 1], C, order, k + 1, max)
    OBVIOUS
  <2>1. k \in 0..(N - 1) /\ BundleOK(A[k], C, order, k, max)
    BY <1>1, <1>5
  <2> QED
    BY <1>3, <2>1, BundleGoesOn
<1> HIDE DEF K
<1>6. \A k \in Nat : k \in K
  BY <1>4, <1>5, AllNat
<1> QED
  BY <1>1, <1>6 DEF K, A

\* What was taken is counted, in full or as summaries.
LEMMA CountsAreRight ==
  ASSUME NEW w \in Bundles, NEW total \in Nat
  PROVE  LET r == Counted(w, total)
         IN r.answer = w /\ r.included + r.summarized + r.excluded = total
<1> DEFINE D == DOMAIN w.notes
           count(how) == Cardinality({i \in D : w.notes[i].how = how})
           n == Len(w.notes)
           F == {i \in D : w.notes[i].how = "full"}
           G == {i \in D : w.notes[i].how = "summary"}
<1>1. Counted(w, total) = [answer |-> w, included |-> count("full"), summarized |-> count("summary"),
                           excluded |-> total - n]
  BY DEF Counted
<1>2. D = 1..n /\ n \in Nat /\ \A i \in D : w.notes[i].how \in {"full", "summary"}
  <2> DEFINE R == [id : Notes, seed : BOOLEAN, how : {"full", "summary"}]
  <2>1. \A x \in R : x.how \in {"full", "summary"}
    OBVIOUS
  <2>2. w.notes \in Seq(R)
    BY DEF Bundles
  <2> HIDE DEF R
  <2>3. D = 1..n /\ n \in Nat /\ \A i \in D : w.notes[i] \in R
    BY <2>2
  <2> QED
    BY <2>1, <2>3
<1>3. IsFiniteSet(D) /\ Cardinality(D) = n
  BY <1>2, FS_Interval
<1>4. F \in SUBSET D /\ G \in SUBSET D /\ F \cup G = D /\ F \cap G = {}
  BY <1>2
<1> HIDE DEF F, G, D, n
<1>5. IsFiniteSet(F) /\ IsFiniteSet(G) /\ Cardinality(F) \in Nat /\ Cardinality(G) \in Nat
  BY <1>3, <1>4, FS_Subset, FS_CardinalityType
<1>6. Cardinality(F \cup G) = Cardinality(F) + Cardinality(G) - Cardinality(F \cap G)
  BY <1>5, FS_Union
<1>7. Cardinality({}) = 0
  BY FS_EmptySet
<1>8. Cardinality(F) + Cardinality(G) = n
  <2>1. Cardinality(F \cup G) = n /\ Cardinality(F \cap G) = 0
    BY <1>3, <1>4, <1>7
  <2> QED
    BY <1>5, <1>6, <2>1
<1>9. count("full") = Cardinality(F) /\ count("summary") = Cardinality(G)
  BY DEF F, G
<1> HIDE DEF count
<1>10. n \in Nat
  BY <1>2
<1> QED
  BY <1>1, <1>5, <1>8, <1>9, <1>10

\* Any candidates make a bundle that fits.
LEMMA BundleFits ==
  ASSUME NEW C, AreCandidates(C), NEW max \in Nat
  PROVE  Fits(C, max, AssembleContext(C, max))
<1> DEFINE place == Betweenness(C)
           order == Prioritized(C, place)
           w == Assembled(order, max)[Len(order)]
           n == Cardinality(C)
           r == Counted(w, n)
           notes == w.notes
           sizes == Tokens(C, notes)
           N == Len(order)
<1>1. AssembleContext(C, max) = r
  BY DEF AssembleContext
<1>2. place \in [IdsIn(C) -> Nat]
  BY PlacesAreWhole
<1> HIDE DEF place
<1>3. SeedsFirst(order, C)
  BY <1>2, PriorityOrder
<1> HIDE DEF order
<1>4. BundleOK(w, C, order, N, max)
  BY <1>3, BundleEnds
<1> HIDE DEF w
<1>5. /\ n \in Nat /\ N = n /\ DOMAIN order = 1..N
      /\ \A c \in C : \E i \in 1..N : order[i] = c
  BY <1>3 DEF SeedsFirst
<1>6. w \in Bundles /\ TakenFrom(w, order, N) /\ WithinTokens(w, C, max) /\ SeedsServed(w, C, order, N, max)
  BY <1>4 DEF BundleOK
<1>7. r.answer = w /\ r.included + r.summarized + r.excluded = n
  BY <1>5, <1>6, CountsAreRight
<1> HIDE DEF r, n, N
<1>8. w.used = SumFunction(sizes)
  BY <1>6 DEF WithinTokens, Total, SumFunction, Tokens
<1>9. w.used <= max \/ (notes[1].seed /\ notes[1].how = "summary" /\ w.used = sizes[1])
  <2>1. notes # <<>> => 1 \in DOMAIN notes
    BY <1>6 DEF Bundles
  <2> QED
    BY <1>6, <2>1 DEF WithinTokens, Tokens
<1>10. Cardinality({notes[i].id : i \in DOMAIN notes}) = Len(notes)
  <2> DEFINE D == DOMAIN notes
             T == {notes[i].id : i \in D}
             f == [i \in D |-> notes[i].id]
  <2>1. D = 1..Len(notes) /\ Len(notes) \in Nat
    BY <1>6 DEF Bundles
  <2>2. IsFiniteSet(D) /\ Cardinality(D) = Len(notes)
    BY <2>1, FS_Interval
  <2>3. f \in [D -> T] /\ (\A t \in T : \E i \in D : f[i] = t) /\ \A i, j \in D : f[i] = f[j] => i = j
    BY <1>6 DEF TakenFrom
  <2> HIDE DEF D, T, f
  <2>4. f \in Surjection(D, T) /\ f \in Injection(D, T)
    BY <2>3 DEF Surjection, Injection, IsInjective
  <2>5. Cardinality(T) = Cardinality(D)
    BY <2>2, <2>4, FS_Surjection
  <2> QED
    BY <2>2, <2>5 DEF T, D
<1>11. (\E c \in C : c.seed) => notes # <<>>
  BY <1>5, <1>6 DEF TakenFrom
<1>12. ASSUME NEW c \in C, c.seed, \A i \in DOMAIN notes : notes[i].id # c.id
       PROVE  SumFunctionOnSet(sizes, {i \in DOMAIN notes : notes[i].seed}) + c.summary > max
  <2>1. PICK j \in 1..N : order[j] = c
    BY <1>5
  <2>2. BySeeds(C, notes) + c.summary > max
    BY <1>6, <1>12, <2>1 DEF SeedsServed
  <2> QED
    BY <2>2 DEF BySeeds, SeedsOf
<1> HIDE DEF sizes, notes
<1>13. r.answer.notes = notes /\ r.answer.used = w.used
  BY <1>7 DEF notes
<1>14. Fits(C, max, r)
  <2> DEFINE bundle == r.answer.notes
             tokens == Tokens(C, bundle)
             seeds == {i \in DOMAIN bundle : bundle[i].seed}
             missing == {c \in C : c.seed /\ \A i \in DOMAIN bundle : bundle[i].id # c.id}
  <2>1. Fits(C, max, r) <=>
          /\ r.answer.used = SumFunction(tokens)
          /\ SumFunction(tokens) <= max
               \/ (bundle[1].seed /\ bundle[1].how = "summary" /\ SumFunction(tokens) = tokens[1])
          /\ r.included + r.summarized + r.excluded = Cardinality(C)
          /\ Cardinality({bundle[i].id : i \in DOMAIN bundle}) = Len(bundle)
          /\ (\E c \in C : c.seed) => bundle # <<>>
          /\ \A c \in missing : SumFunctionOnSet(tokens, seeds) + c.summary > max
    BY DEF Fits, Tokens, TokensOf
  <2>2. bundle = notes /\ tokens = sizes /\ seeds = {i \in DOMAIN notes : notes[i].seed}
    BY <1>13 DEF sizes, notes
  <2> HIDE DEF bundle, tokens, seeds
  <2>3. \A c \in missing : SumFunctionOnSet(tokens, seeds) + c.summary > max
    BY <1>12, <2>2
  <2> QED
    BY <1>7, <1>8, <1>9, <1>10, <1>11, <1>13, <2>1, <2>2, <2>3 DEF n
<1> QED
  BY <1>1, <1>14

\* The bundle fits whatever vault, seeds, depth and tokens were asked about.
THEOREM BundlesAlwaysFit == FindingSpec => []BundlesFit
<1>1. FindingInit => BundlesFit
  BY DEF FindingInit, NoQuestion, BundlesFit, Asked
<1>2. BundlesFit /\ [Find]_question => BundlesFit'
  <2> SUFFICES ASSUME BundlesFit, [Find]_question
               PROVE  BundlesFit'
    OBVIOUS
  <2>1. CASE AskContext
    <3>1. PICK q \in ContextQuestions :
            question' = <<"context", q, AssembleContext(Candidates(q.vault, q.seeds, q.depth), q.max)>>
      BY <2>1 DEF AskContext, Answered
    <3>2. VaultOK(q.vault) /\ q.seeds \in SUBSET Notes /\ q.depth \in Nat /\ q.max \in Nat
      BY ContextQuestionsAssumption DEF VaultOK
    <3>3. AreCandidates(Candidates(q.vault, q.seeds, q.depth))
      BY <3>2, CandidatesAreRight
    <3>4. Fits(Candidates(q.vault, q.seeds, q.depth), q.max,
               AssembleContext(Candidates(q.vault, q.seeds, q.depth), q.max))
      BY <3>2, <3>3, BundleFits
    <3> QED
      BY <3>1, <3>4 DEF BundlesFit, Asked, Q, Answer
  <2>2. CASE AskPath \/ AskLevels \/ AskSearch \/ AskQuery
    BY <2>2 DEF AskPath, AskLevels, AskSearch, AskQuery, Answered, BundlesFit, Asked
  <2>3. CASE question' = question
    BY <2>3 DEF BundlesFit, Asked, Q, Answer
  <2> QED
    BY <2>1, <2>2, <2>3 DEF Find
<1> QED
  BY <1>1, <1>2, PTL DEF FindingSpec
=============================================================================
