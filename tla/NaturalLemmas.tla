--------------------------- MODULE NaturalLemmas ----------------------------
(* Facts about natural numbers and picks that the proofs share.            *)
EXTENDS Naturals, Sequences, Picks, FiniteSetTheorems, SequenceTheorems, WellFoundedInduction, TLAPS

\* A set of natural numbers that is not empty has a least element.
LEMMA LeastElement ==
  ASSUME NEW S \in SUBSET Nat, S # {}
  PROVE  \E m \in S : \A k \in S : m <= k
  <1> DEFINE Less == {p \in Nat \X Nat : p[1] < p[2]}
  <1>1. IsWellFoundedOn(Less, Nat)
    BY NatLessThanWellFounded, Zenon DEF OpToRel
  <1>2. PICK m \in S : \A k \in S : ~ (<<k, m>> \in Less)
    BY <1>1, WFMin
  <1>3. \A k \in S : ~ (k < m)
    BY <1>2
  <1>4. QED
    BY <1>3

\* If it is bounded as well, it has a greatest one.
LEMMA GreatestElement ==
  ASSUME NEW S \in SUBSET Nat, S # {}, NEW n \in Nat, \A k \in S : k <= n
  PROVE  \E m \in S : \A k \in S : m >= k
  <1> DEFINE T == {n - k : k \in S}
  <1>1. T \in SUBSET Nat /\ T # {}
    OBVIOUS
  <1>2. PICK t \in T : \A u \in T : t <= u
    BY <1>1, LeastElement
  <1>3. PICK m \in S : t = n - m
    OBVIOUS
  <1>4. ASSUME NEW k \in S PROVE m >= k
    <2>1. n - m <= n - k
      BY <1>2, <1>3
    <2>2. QED
      BY <2>1
  <1>5. QED
    BY <1>4

\* Induction over an interval that begins with 0.
LEMMA IntervalInduction ==
  ASSUME NEW n \in Nat, NEW P \in SUBSET (0..n), 0 \in P,
         \A i \in 1..n : i - 1 \in P => i \in P
  PROVE  \A i \in 0..n : i \in P
  <1> DEFINE Bad == (0..n) \ P
  <1>1. SUFFICES ASSUME Bad # {} PROVE FALSE
    OBVIOUS
  <1>2. Bad \in SUBSET Nat
    OBVIOUS
  <1>3. PICK m \in Bad : \A k \in Bad : m <= k
    BY <1>1, <1>2, LeastElement
  <1>4. m \in 0..n /\ m # 0 /\ m \notin P
    OBVIOUS
  <1>5. m \in 1..n /\ m - 1 \in 0..n /\ ~ (m <= m - 1)
    BY <1>4
  <1>6. m - 1 \in P
    BY <1>3, <1>5
  <1>7. QED
    BY <1>4, <1>5, <1>6

\* The functions of n steps on S, and f that begins with a and follows them.
StepsOn(n, S) == [1..n -> [S -> S]]

Follows(f, n, S, a, G) ==
  f \in [0..n -> S] /\ f[0] = a /\ \A i \in 1..n : f[i] = G[i][f[i - 1]]

\* A function whose every value is a step from the one before exists.
LEMMA StepwiseFunction ==
  ASSUME NEW n \in Nat, NEW S, NEW a \in S, NEW G \in StepsOn(n, S)
  PROVE  \E f : Follows(f, n, S, a, G)
  <1>0. G \in [1..n -> [S -> S]]
    BY DEF StepsOn
  <1> DEFINE Good(k, f) == f[0] = a /\ \A i \in 1..k : f[i] = G[i][f[i - 1]]
             P == {k \in 0..n : \E f \in [0..k -> S] : Good(k, f)}
  <1>1. 0 \in P
    <2> DEFINE f == [i \in 0..0 |-> a]
    <2>1. f \in [0..0 -> S] /\ f[0] = a
      OBVIOUS
    <2>2. 1..0 = {} /\ 0 \in 0..n
      OBVIOUS
    <2> HIDE DEF f
    <2>3. Good(0, f)
      BY <2>1, <2>2
    <2>4. QED
      BY <2>1, <2>2, <2>3
  <1>2. ASSUME NEW k \in 1..n, k - 1 \in P PROVE k \in P
    <2>1. PICK g \in [0..(k - 1) -> S] : Good(k - 1, g)
      BY <1>2
    <2> DEFINE f == [i \in 0..k |-> IF i = k THEN G[k][g[k - 1]] ELSE g[i]]
    <2>2. k - 1 \in 0..(k - 1) /\ k # 0 /\ 0 \in 0..k /\ k \in 0..n
      OBVIOUS
    <2>3. ASSUME NEW i \in 0..k, i # k PROVE i \in 0..(k - 1)
      BY <2>3
    <2>4. G[k][g[k - 1]] \in S
      BY <1>0, <2>1, <2>2
    <2>5. f \in [0..k -> S]
      BY <2>1, <2>3, <2>4
    <2>6. \A i \in 0..k : f[i] = IF i = k THEN G[k][g[k - 1]] ELSE g[i]
      OBVIOUS
    <2> HIDE DEF f
    <2>7. f[0] = a
      BY <2>1, <2>2, <2>6
    <2>8. ASSUME NEW i \in 1..k PROVE f[i] = G[i][f[i - 1]]
      <3>1. i - 1 \in 0..k /\ i - 1 # k /\ i \in 0..k
        OBVIOUS
      <3>2. f[i - 1] = g[i - 1]
        BY <2>6, <3>1
      <3>3. CASE i = k
        BY <2>6, <3>1, <3>2, <3>3
      <3>4. CASE i # k
        <4>1. i \in 1..(k - 1)
          BY <3>4
        <4>2. g[i] = G[i][g[i - 1]]
          BY <2>1, <4>1
        <4>3. QED
          BY <2>6, <3>1, <3>2, <3>4, <4>2
      <3>5. QED
        BY <3>3, <3>4
    <2>9. Good(k, f)
      BY <2>7, <2>8
    <2>10. QED
      BY <2>2, <2>5, <2>9
  <1> HIDE DEF Good
  <1>3. P \in SUBSET (0..n)
    OBVIOUS
  <1> HIDE DEF P
  <1>4. n \in P
    <2>1. \A i \in 0..n : i \in P
      BY <1>1, <1>2, <1>3, IntervalInduction
    <2>2. n \in 0..n
      OBVIOUS
    <2>3. QED
      BY <2>1, <2>2
  <1>5. QED
    BY <1>4 DEF P, Good, Follows

-----------------------------------------------------------------------------
(* Picks.                                                                  *)

\* Counting from the smallest one reaches every number of a finite set, each at
\* its place.
LEMMA NthFacts ==
  ASSUME NEW S \in SUBSET Nat, IsFiniteSet(S)
  PROVE  /\ Cardinality(S) \in Nat
         /\ \A k \in 1..Cardinality(S) : Nth(S, k) \in S
         /\ \A i \in S : \E k \in 1..Cardinality(S) : Nth(S, k) = i
         /\ \A k \in 1..Cardinality(S) : Cardinality({j \in S : j <= Nth(S, k)}) = k
  <1> DEFINE n == Cardinality(S)
             UpTo(i) == {j \in S : j <= i}
             rank == [i \in S |-> Cardinality(UpTo(i))]
  <1>1. n \in Nat
    BY FS_CardinalityType
  <1>2. ASSUME NEW i \in S
        PROVE  /\ IsFiniteSet(UpTo(i)) /\ Cardinality(UpTo(i)) \in 1..n
    <2>1. UpTo(i) \in SUBSET S
      OBVIOUS
    <2>2. IsFiniteSet(UpTo(i)) /\ Cardinality(UpTo(i)) <= n
      BY <2>1, FS_Subset
    <2>3. UpTo(i) # {}
      OBVIOUS
    <2>4. Cardinality(UpTo(i)) \in Nat /\ Cardinality(UpTo(i)) # 0
      BY <2>2, <2>3, FS_CardinalityType, FS_EmptySet
    <2>5. QED
      BY <1>1, <2>2, <2>4
  <1>3. ASSUME NEW i \in S, NEW j \in S, i < j
        PROVE  rank[i] # rank[j]
    <2>1. UpTo(i) \in SUBSET UpTo(j)
      <3>1. ASSUME NEW k \in S, k <= i PROVE k <= j
        <4>1. i \in Nat /\ j \in Nat /\ k \in Nat
          OBVIOUS
        <4>2. QED
          BY <1>3, <3>1, <4>1
      <3>2. QED
        BY <3>1
    <2>2. UpTo(i) # UpTo(j)
      BY <1>3
    <2>3. Cardinality(UpTo(i)) # Cardinality(UpTo(j))
      BY <1>2, <2>1, <2>2, FS_Subset
    <2>4. QED
      BY <2>3
  <1>4. \A i, j \in S : i # j => rank[i] # rank[j]
    BY <1>3
  <1>5. rank \in [S -> 1..n]
    BY <1>2
  <1> HIDE DEF rank
  <1>6. rank \in Injection(S, 1..n)
    <2>1. \A i, j \in S : rank[i] = rank[j] => i = j
      BY <1>4
    <2>2. QED
      BY <1>5, <2>1 DEF Injection, IsInjective
  <1>7. IsFiniteSet(1..n) /\ Cardinality(1..n) = n
    BY <1>1, FS_Interval
  <1>8. rank \in Surjection(S, 1..n)
    BY <1>6, <1>7, FS_Injection
  <1>9. \A k \in 1..n : \E i \in S : rank[i] = k
    BY <1>8 DEF Surjection
  <1>10. ASSUME NEW k \in 1..n PROVE Nth(S, k) \in S /\ rank[Nth(S, k)] = k
    <2>1. \E i \in S : Cardinality({j \in S : j <= i}) = k
      BY <1>9 DEF rank
    <2>2. QED
      BY <2>1 DEF Nth, rank
  <1>11. ASSUME NEW i \in S PROVE \E k \in 1..n : Nth(S, k) = i
    <2>1. rank[i] \in 1..n
      BY <1>5
    <2>2. Nth(S, rank[i]) \in S /\ rank[Nth(S, rank[i])] = rank[i]
      BY <1>10, <2>1
    <2>3. QED
      BY <1>4, <2>1, <2>2
  <1>12. \A k \in 1..n : Cardinality({j \in S : j <= Nth(S, k)}) = k
    BY <1>10 DEF rank
  <1>13. QED
    BY <1>1, <1>10, <1>11, <1>12

LEMMA NthAscends ==
  ASSUME NEW S \in SUBSET Nat, IsFiniteSet(S),
         NEW k \in 1..Cardinality(S), NEW l \in 1..Cardinality(S), k < l
  PROVE  Nth(S, k) < Nth(S, l)
  <1> DEFINE i == Nth(S, k)
             j == Nth(S, l)
             UpToI == {h \in S : h <= i}
             UpToJ == {h \in S : h <= j}
  <1>1. /\ Cardinality(S) \in Nat /\ i \in S /\ j \in S
        /\ Cardinality(UpToI) = k /\ Cardinality(UpToJ) = l
    BY NthFacts
  <1> HIDE DEF i, j
  <1>2. SUFFICES ASSUME j <= i PROVE FALSE
    <2>1. i \in Nat /\ j \in Nat
      BY <1>1
    <2>2. i < j \/ j <= i
      BY <2>1
    <2>3. QED
      BY <2>2 DEF i, j
  <1>3. UpToJ \in SUBSET UpToI
    <2>1. ASSUME NEW h \in S, h <= j PROVE h <= i
      <3>1. h \in Nat /\ i \in Nat /\ j \in Nat
        BY <1>1
      <3>2. QED
        BY <1>2, <2>1, <3>1
    <2>2. QED
      BY <2>1
  <1>4. IsFiniteSet(UpToI)
    BY FS_Subset
  <1>5. Cardinality(UpToJ) <= Cardinality(UpToI)
    BY <1>3, <1>4, FS_Subset
  <1>6. QED
    BY <1>1, <1>5

\* What is picked are the entries at these positions, each once and in order.
LEMMA PickedFacts ==
  ASSUME NEW T, NEW s \in Seq(T), NEW S \in SUBSET (1..Len(s))
  PROVE  /\ Picked(s, S) \in Seq(T)
         /\ Len(Picked(s, S)) \in Nat
         /\ \A k \in 1..Len(Picked(s, S)) : Nth(S, k) \in S /\ Picked(s, S)[k] = s[Nth(S, k)]
         /\ \A i \in S : \E k \in 1..Len(Picked(s, S)) : Picked(s, S)[k] = s[i]
         /\ \A k, l \in 1..Len(Picked(s, S)) : Nth(S, k) = Nth(S, l) => k = l
  <1> DEFINE n == Cardinality(S)
             f == [k \in 1..n |-> s[Nth(S, k)]]
  <1>1. Len(s) \in Nat /\ \A i \in 1..Len(s) : s[i] \in T
    BY LenProperties, ElementOfSeq
  <1>2. S \in SUBSET Nat /\ IsFiniteSet(S)
    <2>1. IsFiniteSet(1..Len(s))
      BY <1>1, FS_Interval
    <2>2. IsFiniteSet(S)
      BY <2>1, FS_Subset
    <2>3. QED
      BY <1>1, <2>2
  <1>3. /\ n \in Nat /\ \A k \in 1..n : Nth(S, k) \in S
        /\ \A i \in S : \E k \in 1..n : Nth(S, k) = i
    BY <1>2, NthFacts
  <1>4. \A k, l \in 1..n : Nth(S, k) = Nth(S, l) => k = l
    <2>1. ASSUME NEW k \in 1..n, NEW l \in 1..n, k < l PROVE Nth(S, k) # Nth(S, l)
      <3>1. Nth(S, k) < Nth(S, l) /\ Nth(S, k) \in Nat
        BY <1>2, <1>3, <2>1, NthAscends
      <3>2. QED
        BY <3>1
    <2>2. \A k, l \in 1..n : k = l \/ k < l \/ l < k
      BY <1>3
    <2>3. QED
      BY <2>1, <2>2
  <1>5. Picked(s, S) = f
    BY DEF Picked
  <1>6. f \in Seq(T) /\ Len(f) = n
    <2>1. f \in [1..n -> T]
      BY <1>1, <1>3
    <2> HIDE DEF f, n
    <2>2. QED
      BY <1>3, <2>1
  <1>7. QED
    BY <1>3, <1>4, <1>5, <1>6


\* A function that goes through S in order gives its numbers one by one.
LEMMA NthIs ==
  ASSUME NEW S \in SUBSET Nat, NEW n \in Nat, NEW g \in [1..n -> S],
         \A k, l \in 1..n : k < l => g[k] < g[l],
         \A i \in S : \E k \in 1..n : g[k] = i
  PROVE  /\ IsFiniteSet(S) /\ Cardinality(S) = n
         /\ \A k \in 1..n : Nth(S, k) = g[k]
  <1>1. ASSUME NEW k \in 1..n, NEW l \in 1..n, g[k] = g[l] PROVE k = l
    <2>1. g[k] \in Nat /\ g[l] \in Nat
      OBVIOUS
    <2>2. ~ (g[k] < g[l]) /\ ~ (g[l] < g[k])
      BY <1>1, <2>1
    <2>3. QED
      BY <2>2
  <1>2. ASSUME NEW m \in 0..n, NEW T \in SUBSET S,
               \A i \in T : \E k \in 1..m : g[k] = i, \A k \in 1..m : g[k] \in T
        PROVE  IsFiniteSet(T) /\ Cardinality(T) = m
    <2> DEFINE h == [k \in 1..m |-> g[k]]
    <2>1. \A k \in 1..m : k \in 1..n /\ h[k] = g[k]
      OBVIOUS
    <2>2. h \in [1..m -> T]
      BY <1>2
    <2> HIDE DEF h
    <2>3. h \in Bijection(1..m, T)
      <3>1. \A k, l \in 1..m : h[k] = h[l] => k = l
        BY <1>1, <2>1
      <3>2. \A i \in T : \E k \in 1..m : h[k] = i
        BY <1>2, <2>1
      <3>3. QED
        BY <2>2, <3>1, <3>2 DEF Bijection, Injection, Surjection, IsInjective
    <2>4. ExistsBijection(1..m, T)
      BY <2>3 DEF ExistsBijection
    <2>5. IsFiniteSet(1..m) /\ Cardinality(1..m) = m
      BY FS_Interval
    <2>6. QED
      BY <2>4, <2>5, FS_Bijection
  <1>3. IsFiniteSet(S) /\ Cardinality(S) = n
    <2>1. n \in 0..n /\ S \in SUBSET S
      OBVIOUS
    <2>2. QED
      BY <1>2, <2>1
  <1>4. ASSUME NEW k \in 1..n
        PROVE  Cardinality({j \in S : j <= g[k]}) = k
    <2> DEFINE T == {j \in S : j <= g[k]}
    <2>1. k \in 0..n /\ T \in SUBSET S
      OBVIOUS
    <2>2. ASSUME NEW i \in T PROVE \E l \in 1..k : g[l] = i
      <3>1. PICK l \in 1..n : g[l] = i
        OBVIOUS
      <3>2. g[l] \in Nat /\ g[k] \in Nat /\ g[l] <= g[k]
        BY <3>1
      <3>3. ~ (g[k] < g[l])
        BY <3>2
      <3>4. l <= k
        BY <3>3
      <3>5. QED
        BY <3>1, <3>4
    <2>3. ASSUME NEW l \in 1..k PROVE g[l] \in T
      <3>1. l \in 1..n /\ (l = k \/ l < k)
        OBVIOUS
      <3>2. g[l] \in S /\ g[l] \in Nat /\ g[k] \in Nat /\ (g[l] = g[k] \/ g[l] < g[k])
        BY <3>1
      <3>3. QED
        BY <3>2
    <2> HIDE DEF T
    <2>4. QED
      BY <1>2, <2>1, <2>2, <2>3 DEF T
  <1>5. ASSUME NEW k \in 1..n PROVE Nth(S, k) = g[k]
    <2>1. Nth(S, k) \in S /\ Cardinality({j \in S : j <= Nth(S, k)}) = k
      BY <1>3, NthFacts
    <2>2. PICK l \in 1..n : g[l] = Nth(S, k)
      BY <2>1
    <2>3. Cardinality({j \in S : j <= g[l]}) = l
      BY <1>4
    <2>4. l = k
      BY <2>1, <2>2, <2>3
    <2>5. QED
      BY <2>2, <2>4
  <1>6. QED
    BY <1>3, <1>5

LEMMA PickedAll ==
  ASSUME NEW T, NEW s \in Seq(T)
  PROVE  Picked(s, 1..Len(s)) = s
  <1> DEFINE n == Len(s)
             g == [k \in 1..n |-> k]
  <1>1. n \in Nat
    BY LenProperties
  <1>2. g \in [1..n -> 1..n] /\ \A k \in 1..n : g[k] = k
    OBVIOUS
  <1> DEFINE S == 1..n
  <1>3. S \in SUBSET Nat /\ g \in [1..n -> S] /\ \A k \in 1..n : k \in S
    BY <1>2
  <1>4. (\A k, l \in 1..n : k < l => g[k] < g[l]) /\ \A i \in S : \E k \in 1..n : g[k] = i
    BY <1>2
  <1> HIDE DEF g, S, n
  <1>5. Cardinality(S) = n /\ \A k \in 1..n : Nth(S, k) = k
    <2>1. Cardinality(S) = n /\ \A k \in 1..n : Nth(S, k) = g[k]
      BY <1>1, <1>3, <1>4, NthIs
    <2>2. QED
      BY <1>2, <2>1
  <1>6. Picked(s, S) = [k \in 1..n |-> s[k]]
    BY <1>5 DEF Picked
  <1>7. s = [k \in 1..n |-> s[k]]
    BY DEF n
  <1>8. QED
    BY <1>6, <1>7 DEF S, n

\* Positions of two sequences one after the other: those of the first, then
\* those of the second.
Joins(x, y, A, B, C) ==
  /\ A \subseteq 1..Len(x) /\ B \subseteq 1..Len(y) /\ C \subseteq 1..Len(x \o y)
  /\ \A i \in 1..Len(x) : i \in C <=> i \in A
  /\ \A j \in 1..Len(y) : Len(x) + j \in C <=> j \in B

\* Picking from two sequences one after the other.
LEMMA PickedJoin ==
  ASSUME NEW T, NEW x \in Seq(T), NEW y \in Seq(T), NEW A, NEW B, NEW C, Joins(x, y, A, B, C)
  PROVE  Picked(x \o y, C) = Picked(x, A) \o Picked(y, B)
  <1>0. /\ A \in SUBSET (1..Len(x)) /\ B \in SUBSET (1..Len(y)) /\ C \in SUBSET (1..Len(x \o y))
        /\ \A i \in 1..Len(x) : i \in C <=> i \in A
        /\ \A j \in 1..Len(y) : Len(x) + j \in C <=> j \in B
    BY DEF Joins
  <1> DEFINE m == Len(x)
             l == Len(y)
             a == Cardinality(A)
             b == Cardinality(B)
             g == [k \in 1..(a + b) |-> IF k <= a THEN Nth(A, k) ELSE m + Nth(B, k - a)]
  <1>1. m \in Nat /\ l \in Nat /\ Len(x \o y) = m + l
    BY LenProperties, ConcatProperties
  <1>2. /\ A \in SUBSET Nat /\ IsFiniteSet(A) /\ B \in SUBSET Nat /\ IsFiniteSet(B) /\ C \in SUBSET Nat
    <2>1. IsFiniteSet(1..m) /\ IsFiniteSet(1..l)
      BY <1>1, FS_Interval
    <2>2. A \in SUBSET (1..m) /\ B \in SUBSET (1..l) /\ C \in SUBSET (1..(m + l))
      BY <1>0, <1>1
    <2>3. IsFiniteSet(A) /\ IsFiniteSet(B)
      BY <2>1, <2>2, FS_Subset
    <2> HIDE DEF m, l
    <2>4. QED
      BY <1>1, <2>2, <2>3
  <1>3. /\ a \in Nat /\ b \in Nat
        /\ \A k \in 1..a : Nth(A, k) \in A /\ Nth(A, k) \in 1..m
        /\ \A k \in 1..b : Nth(B, k) \in B /\ Nth(B, k) \in 1..l
        /\ \A i \in A : \E k \in 1..a : Nth(A, k) = i
        /\ \A i \in B : \E k \in 1..b : Nth(B, k) = i
    BY <1>0, <1>2, NthFacts
  <1>4. /\ \A k, h \in 1..a : k < h => Nth(A, k) < Nth(A, h)
        /\ \A k, h \in 1..b : k < h => Nth(B, k) < Nth(B, h)
    BY <1>2, NthAscends
  <1>5. \A k \in 1..(a + b) : g[k] = IF k <= a THEN Nth(A, k) ELSE m + Nth(B, k - a)
    OBVIOUS
  <1>6. DOMAIN g = 1..(a + b)
    OBVIOUS
  <1>7. g = [k \in 1..(a + b) |-> g[k]]
    OBVIOUS
  <1> HIDE DEF m, l, a, b, g
  <1>8. ASSUME NEW k \in 1..a
        PROVE  k \in 1..(a + b) /\ g[k] = Nth(A, k) /\ g[k] \in 1..m /\ g[k] \in C
    <2>1. k \in 1..(a + b) /\ k <= a
      BY <1>3
    <2>2. g[k] = Nth(A, k)
      BY <1>5, <2>1
    <2>3. QED
      BY <1>0, <1>3, <2>1, <2>2 DEF m
  <1>9. ASSUME NEW k \in 1..b
        PROVE  /\ a + k \in 1..(a + b) /\ ~ (a + k <= a) /\ (a + k) - a = k
               /\ g[a + k] = m + Nth(B, k) /\ Nth(B, k) \in 1..l /\ g[a + k] \in C
    <2>1. a + k \in 1..(a + b) /\ ~ (a + k <= a) /\ (a + k) - a = k
      BY <1>3
    <2>2. g[a + k] = m + Nth(B, k)
      BY <1>5, <2>1
    <2>3. m + Nth(B, k) \in C
      BY <1>0, <1>3 DEF m, l
    <2>4. QED
      BY <1>3, <2>1, <2>2, <2>3
  <1>10. ASSUME NEW k \in 1..(a + b) PROVE k \in 1..a \/ (k - a \in 1..b /\ k = a + (k - a))
    BY <1>3
  <1>11. g \in [1..(a + b) -> C]
    <2>1. \A k \in 1..(a + b) : g[k] \in C
      BY <1>8, <1>9, <1>10
    <2>2. QED
      BY <1>7, <2>1
  <1>12. ASSUME NEW k \in 1..(a + b), NEW h \in 1..(a + b), k < h PROVE g[k] < g[h]
    <2>1. CASE k \in 1..a /\ h \in 1..a
      BY <1>4, <1>8, <1>12, <2>1
    <2>2. CASE k \in 1..a /\ h \notin 1..a
      <3>1. h - a \in 1..b /\ h = a + (h - a)
        BY <1>10, <2>2
      <3>2. g[k] \in 1..m /\ g[h] = m + Nth(B, h - a) /\ Nth(B, h - a) \in 1..l
        BY <1>8, <1>9, <2>2, <3>1
      <3>3. QED
        BY <1>1, <3>2
    <2>3. CASE k \notin 1..a
      <3>1. k - a \in 1..b /\ k = a + (k - a) /\ h - a \in 1..b /\ h = a + (h - a) /\ k - a < h - a
        BY <1>3, <1>10, <1>12, <2>3
      <3>2. /\ g[k] = m + Nth(B, k - a) /\ Nth(B, k - a) \in 1..l
            /\ g[h] = m + Nth(B, h - a) /\ Nth(B, h - a) \in 1..l
            /\ Nth(B, k - a) < Nth(B, h - a)
        BY <1>4, <1>9, <3>1
      <3>3. QED
        BY <1>1, <3>2
    <2>4. QED
      BY <2>1, <2>2, <2>3
  <1>13. ASSUME NEW i \in C PROVE \E k \in 1..(a + b) : g[k] = i
    <2>1. i \in 1..(m + l)
      BY <1>0, <1>1
    <2>2. CASE i \in 1..m
      <3>1. i \in A
        BY <1>0, <2>2 DEF m
      <3>2. PICK k \in 1..a : Nth(A, k) = i
        BY <1>3, <3>1
      <3>3. QED
        BY <1>8, <3>2
    <2>3. CASE i \notin 1..m
      <3>1. i - m \in 1..l /\ i = m + (i - m)
        BY <1>1, <2>1, <2>3
      <3>2. i - m \in B
        BY <1>0, <3>1 DEF m, l
      <3>3. PICK k \in 1..b : Nth(B, k) = i - m
        BY <1>3, <3>2
      <3>4. QED
        BY <1>9, <3>1, <3>3
    <2>4. QED
      BY <2>2, <2>3
  <1>14. Cardinality(C) = a + b /\ \A k \in 1..(a + b) : Nth(C, k) = g[k]
    <2>1. a + b \in Nat
      BY <1>3
    <2> DEFINE n == a + b
    <2> HIDE DEF n
    <2>2. /\ n \in Nat /\ g \in [1..n -> C] /\ \A k, h \in 1..n : k < h => g[k] < g[h]
          /\ \A i \in C : \E k \in 1..n : g[k] = i
      BY <1>11, <1>12, <1>13, <2>1 DEF n
    <2>3. Cardinality(C) = n /\ \A k \in 1..n : Nth(C, k) = g[k]
      BY <1>2, <2>2, NthIs
    <2>4. QED
      BY <2>3 DEF n
  <1> DEFINE z == x \o y
             px == Picked(x, A)
             py == Picked(y, B)
  <1>15. Picked(z, C) = [k \in 1..(a + b) |-> z[g[k]]]
    BY <1>14 DEF Picked
  <1>16. /\ px = [k \in 1..a |-> x[Nth(A, k)]] /\ py = [k \in 1..b |-> y[Nth(B, k)]]
    BY DEF Picked, a, b
  <1>17. px \in Seq(T) /\ py \in Seq(T) /\ Len(px) = a /\ Len(py) = b
    <2>1. \A k \in 1..a : x[Nth(A, k)] \in T
      BY <1>3, ElementOfSeq DEF m
    <2>2. \A k \in 1..b : y[Nth(B, k)] \in T
      BY <1>3, ElementOfSeq DEF l
    <2>3. px \in [1..a -> T] /\ py \in [1..b -> T]
      BY <1>16, <2>1, <2>2
    <2> HIDE DEF px, py
    <2>4. QED
      BY <1>3, <2>3
  <1>18. /\ \A i \in 1..m : z[i] = x[i]
         /\ \A i \in 1..l : z[m + i] = y[i]
    <2>1. \A i \in 1..l : m + i > Len(x) /\ m + i <= Len(x) + Len(y) /\ (m + i) - Len(x) = i
      BY <1>1 DEF m, l
    <2>2. QED
      BY <1>1, <2>1, ConcatProperties DEF m, l
  <1>19. /\ \A k \in 1..a : px[k] = x[Nth(A, k)]
         /\ \A k \in 1..b : py[k] = y[Nth(B, k)]
    BY <1>16
  <1> HIDE DEF px, py, z
  <1>20. px \o py = [k \in 1..(a + b) |-> IF k <= a THEN px[k] ELSE py[k - a]]
    <2> DEFINE j == px \o py
    <2>1. j \in Seq(T) /\ Len(j) = a + b
          /\ \A k \in 1..(a + b) : j[k] = IF k <= a THEN px[k] ELSE py[k - a]
      BY <1>17, ConcatProperties
    <2> HIDE DEF j
    <2>2. j = [k \in 1..(a + b) |-> j[k]]
      BY <2>1
    <2>3. QED
      BY <2>1, <2>2 DEF j
  <1>21. ASSUME NEW k \in 1..(a + b) PROVE z[g[k]] = IF k <= a THEN px[k] ELSE py[k - a]
    <2>1. CASE k \in 1..a
      <3>1. k <= a /\ z[g[k]] = x[Nth(A, k)]
        BY <1>3, <1>8, <1>18, <2>1
      <3>2. QED
        BY <1>19, <2>1, <3>1
    <2>2. CASE k \notin 1..a
      <3>1. k - a \in 1..b /\ k = a + (k - a)
        BY <1>10, <2>2
      <3>2. ~ (k <= a)
        BY <1>3, <2>2
      <3>3. g[k] = m + Nth(B, k - a) /\ Nth(B, k - a) \in 1..l
        BY <1>9, <3>1
      <3>4. z[g[k]] = y[Nth(B, k - a)]
        BY <1>18, <3>3
      <3>5. QED
        BY <1>19, <3>1, <3>2, <3>4
    <2>3. QED
      BY <2>1, <2>2
  <1>22. QED
    BY <1>15, <1>20, <1>21 DEF z, px, py
=============================================================================
