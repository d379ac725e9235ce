---------------------------- MODULE OrderLemmas ----------------------------
(***************************************************************************)
(* Facts about orders, and about loops, that the proofs share.             *)
(***************************************************************************)
EXTENDS Integers, FiniteSetTheorems, WellFoundedInduction, TLAPS

\* Every non-empty set of naturals has a least element.
LEMMA LeastNatural ==
  ASSUME NEW T, T \subseteq Nat, T # {}
  PROVE  \E x \in T : \A y \in T : x <= y
<1>1. PICK x \in T : \A y \in T : <<y, x>> \notin OpToRel(<, Nat)
  <2>1. IsWellFoundedOn(OpToRel(<, Nat), Nat)
    BY NatLessThanWellFounded
  <2>2. QED
    BY <2>1, WFMin
<1>2. \A y \in T : ~(y < x)
  BY <1>1 DEF OpToRel
<1>3. QED
  BY <1>2

\* Induction up to n over a property given as the set of numbers that have it.
LEMMA InductionUpTo ==
  ASSUME NEW n \in Nat, NEW P, 0 \in P, \A i \in 1..n : i - 1 \in P => i \in P
  PROVE  \A i \in 0..n : i \in P
<1> DEFINE Bad == {i \in Nat : i <= n /\ i \notin P}
<1>1. SUFFICES ASSUME Bad # {} PROVE FALSE
  OBVIOUS
<1>2. PICK m \in Bad : \A i \in Bad : m <= i
  <2>1. Bad \subseteq Nat
    OBVIOUS
  <2> HIDE DEF Bad
  <2>2. QED
    BY <1>1, <2>1, LeastNatural
<1>3. m \in 1..n /\ m - 1 \in Nat /\ m - 1 <= n /\ ~(m <= m - 1)
  OBVIOUS
<1>4. m - 1 \notin Bad
  <2> HIDE DEF Bad
  <2>1. QED
    BY <1>2, <1>3
<1>5. QED
  BY <1>3, <1>4

\* A loop of n steps over values in V, and what it has computed after each.
Loops(n, V, v0, step) ==
  n \in Nat /\ v0 \in V /\ \A i \in 1..n : \A v \in V : step[i][v] \in V

Computes(n, V, v0, step, f) ==
  f \in [0..n -> V] /\ f[0] = v0 /\ \A i \in 1..n : f[i] = step[i][f[i-1]]

LEMMA RecursionExists ==
  ASSUME NEW n, NEW V, NEW v0, NEW step, Loops(n, V, v0, step)
  PROVE  \E f : Computes(n, V, v0, step, f)
<1>0. n \in Nat /\ v0 \in V /\ \A i \in 1..n : \A v \in V : step[i][v] \in V
  BY DEF Loops
<1> USE <1>0
<1> DEFINE Carries(f, j) == f[0] = v0 /\ \A i \in 1..j : f[i] = step[i][f[i-1]]
           P == {j \in 0..n : \E f \in [0..j -> V] : Carries(f, j)}
<1>1. 0 \in P
  <2>1. [i \in 0..0 |-> v0] \in [0..0 -> V] /\ Carries([i \in 0..0 |-> v0], 0)
    OBVIOUS
  <2>2. \E f \in [0..0 -> V] : Carries(f, 0)
    BY <2>1
  <2> HIDE DEF Carries
  <2>3. QED
    BY <2>2
<1>2. ASSUME NEW j \in 1..n, j - 1 \in P PROVE j \in P
  <2>1. PICK f \in [0 .. j-1 -> V] : Carries(f, j - 1)
    BY <1>2
  <2> DEFINE h == [i \in 0..j |-> IF i = j THEN step[j][f[j-1]] ELSE f[i]]
  <2>2. h \in [0..j -> V]
    <3>1. f[j-1] \in V
      OBVIOUS
    <3>2. step[j][f[j-1]] \in V
      BY <3>1
    <3>3. QED
      BY <3>2
  <2>3. h[0] = v0
    BY <2>1
  <2>4. ASSUME NEW i \in 1..j PROVE h[i] = step[i][h[i-1]]
    <3>1. i - 1 \in 0..j /\ i - 1 # j /\ h[i-1] = f[i-1]
      OBVIOUS
    <3>2. CASE i = j
      BY <3>1, <3>2
    <3>3. CASE i # j
      <4>1. i \in 1 .. j-1
        BY <3>3
      <4>2. h[i] = f[i] /\ f[i] = step[i][f[i-1]]
        BY <2>1, <3>3, <4>1
      <4>3. QED
        BY <3>1, <4>2
    <3>4. QED
      BY <3>2, <3>3
  <2> HIDE DEF h
  <2>5. Carries(h, j)
    BY <2>3, <2>4
  <2> HIDE DEF Carries
  <2>6. QED
    BY <2>2, <2>5
<1>3. n \in P
  <2> HIDE DEF P
  <2>1. \A j \in 1..n : j - 1 \in P => j \in P
    BY <1>2
  <2>2. \A j \in 0..n : j \in P
    BY <1>1, <2>1, InductionUpTo
  <2>3. QED
    BY <2>2
<1>4. QED
  BY <1>3 DEF Computes

\* Comparing quotients a/x < b/y <= c/z by cross-multiplication.
LEMMA QuotientOrder ==
  ASSUME NEW a \in Nat, NEW b \in Nat, NEW c \in Nat,
         NEW x \in Nat \ {0}, NEW y \in Nat \ {0}, NEW z \in Nat \ {0},
         a * y < b * x, ~(c * y < b * z)
  PROVE  a * z < c * x
<1>1. /\ a * y \in Int /\ b * x \in Int /\ c * y \in Int /\ b * z \in Int
      /\ a * z \in Int /\ c * x \in Int
  OBVIOUS
<1>2. SUFFICES ASSUME a * z >= c * x PROVE FALSE
  BY <1>1
<1>3. (a * y) * z < (b * x) * z
  BY <1>1
<1>4. (b * z) * x <= (c * y) * x
  BY <1>1
<1>5. (c * x) * y <= (a * z) * y
  BY <1>1, <1>2
<1>6. /\ (a * y) * z = (a * z) * y
      /\ (b * x) * z = (b * z) * x
      /\ (c * y) * x = (c * x) * y
  OBVIOUS
<1>7. QED
  BY <1>3, <1>4, <1>5, <1>6

\* A finite set has an element that nothing precedes, in an order given as a
\* set of pairs: one with the fewest elements before it.
LEMMA MinimalExists ==
  ASSUME NEW S, IsFiniteSet(S), S # {}, NEW R,
         \A i, j \in S : <<i, j>> \in R => <<j, i>> \notin R,
         \A i, j, k \in S : <<i, j>> \in R /\ <<j, k>> \in R => <<i, k>> \in R
  PROVE  \E i \in S : \A j \in S : <<j, i>> \notin R
<1> DEFINE Before(i) == {j \in S : <<j, i>> \in R}
           rank(i) == Cardinality(Before(i))
<1>1. \A i \in S : IsFiniteSet(Before(i)) /\ rank(i) \in Nat
  BY FS_Subset, FS_CardinalityType
<1>2. ASSUME NEW i \in S, NEW j \in S, <<j, i>> \in R
      PROVE  rank(j) < rank(i)
  <2>1. Before(j) \subseteq Before(i) /\ j \in Before(i) /\ j \notin Before(j)
    BY <1>2
  <2> HIDE DEF Before
  <2>2. rank(j) # rank(i) /\ rank(j) <= rank(i)
    BY <1>1, <2>1, FS_Subset
  <2> HIDE DEF rank
  <2>3. QED
    BY <1>1, <2>2
<1> HIDE DEF rank, Before
<1>3. {rank(i) : i \in S} \subseteq Nat /\ {rank(i) : i \in S} # {}
  BY <1>1
<1>4. \E r \in {rank(i) : i \in S} : \A s \in {rank(i) : i \in S} : r <= s
  BY <1>3, LeastNatural
<1>5. PICK i \in S : \A j \in S : rank(i) <= rank(j)
  BY <1>4
<1>6. \A j \in S : <<j, i>> \notin R
  BY <1>1, <1>2, <1>5
<1>7. QED
  BY <1>6

\* The members of a finite set can be numbered in any order that is total on
\* it: each gets one more than the number of members before it.
LEMMA ArrangementExists ==
  ASSUME NEW S, IsFiniteSet(S), NEW R,
         \A a \in S : <<a, a>> \notin R,
         \A a, b, c \in S : <<a, b>> \in R /\ <<b, c>> \in R => <<a, c>> \in R,
         \A a, b \in S : a # b => <<a, b>> \in R \/ <<b, a>> \in R
  PROVE  \E s \in [1 .. Cardinality(S) -> S] :
           \A i, j \in 1 .. Cardinality(S) : i < j => <<s[i], s[j]>> \in R
<1> DEFINE n == Cardinality(S)
           Below(a) == {b \in S : <<b, a>> \in R}
           rank(a) == Cardinality(Below(a))
<1>1. n \in Nat
  BY FS_CardinalityType
<1>2. \A a \in S : IsFiniteSet(Below(a)) /\ rank(a) \in Nat
  BY FS_Subset, FS_CardinalityType
<1>3. ASSUME NEW a \in S PROVE rank(a) + 1 \in 1 .. n
  <2>1. Below(a) \subseteq S /\ Below(a) # S
    OBVIOUS
  <2> HIDE DEF Below
  <2>2. rank(a) <= n /\ rank(a) # n
    BY <2>1, FS_Subset
  <2> HIDE DEF rank, n
  <2>3. QED
    BY <1>1, <1>2, <2>2
<1>4. ASSUME NEW a \in S, NEW b \in S, <<a, b>> \in R PROVE rank(a) < rank(b)
  <2>1. Below(a) \subseteq Below(b) /\ a \in Below(b) /\ a \notin Below(a)
    BY <1>4
  <2> HIDE DEF Below
  <2>2. rank(a) <= rank(b) /\ rank(a) # rank(b)
    BY <1>2, <2>1, FS_Subset
  <2> HIDE DEF rank
  <2>3. QED
    BY <1>2, <2>2
<1> DEFINE f == [a \in S |-> rank(a) + 1]
<1> HIDE DEF rank
<1>5. f \in [S -> 1 .. n] /\ \A a \in S : f[a] = rank(a) + 1
  BY <1>3
<1> HIDE DEF f
<1>6. ASSUME NEW a \in S, NEW b \in S, <<a, b>> \in R PROVE f[a] < f[b]
  <2>1. rank(a) < rank(b) /\ rank(a) \in Nat /\ rank(b) \in Nat
    BY <1>2, <1>4, <1>6
  <2>2. f[a] = rank(a) + 1 /\ f[b] = rank(b) + 1
    BY <1>5
  <2>3. QED
    BY <2>1, <2>2
<1>7. f \in Injection(S, 1 .. n)
  <2>1. ASSUME NEW a \in S, NEW b \in S, f[a] = f[b], a # b PROVE FALSE
    <3>1. f[a] < f[b] \/ f[b] < f[a]
      BY <1>6, <2>1
    <3>2. f[a] \in Int
      BY <1>1, <1>5
    <3>3. QED
      BY <2>1, <3>1, <3>2
  <2>2. QED
    BY <1>5, <2>1 DEF Injection, IsInjective
<1>8. \A i \in 1 .. n : \E a \in S : f[a] = i
  <2>1. IsFiniteSet(1 .. n) /\ Cardinality(1 .. n) = n
    BY <1>1, FS_Interval
  <2>2. f \in Surjection(S, 1 .. n)
    BY <1>7, <2>1, FS_Injection
  <2>3. QED
    BY <2>2 DEF Surjection
<1> DEFINE s == [i \in 1 .. n |-> CHOOSE a \in S : f[a] = i]
<1>9. \A i \in 1 .. n : s[i] \in S /\ f[s[i]] = i
  BY <1>8
<1>10. s \in [1 .. n -> S]
  BY <1>9
<1> HIDE DEF s
<1>11. ASSUME NEW i \in 1 .. n, NEW j \in 1 .. n, i < j PROVE <<s[i], s[j]>> \in R
  <2>1. s[i] # s[j]
    BY <1>1, <1>9, <1>11
  <2>2. ~(f[s[j]] < f[s[i]])
    BY <1>1, <1>9, <1>11
  <2>3. QED
    BY <1>6, <1>9, <2>1, <2>2
<1>12. QED
  BY <1>10, <1>11

\* A numbering that respects an order names every member exactly once.
LEMMA ArrangementCovers ==
  ASSUME NEW S, IsFiniteSet(S), NEW R, \A a \in S : <<a, a>> \notin R
  PROVE  \A s \in [1 .. Cardinality(S) -> S] :
           (\A i, j \in 1 .. Cardinality(S) : i < j => <<s[i], s[j]>> \in R)
             => \A a \in S : \E i \in 1 .. Cardinality(S) : s[i] = a
<1> DEFINE n == Cardinality(S)
<1> SUFFICES ASSUME NEW s \in [1 .. n -> S], \A i, j \in 1 .. n : i < j => <<s[i], s[j]>> \in R
             PROVE  \A a \in S : \E i \in 1 .. n : s[i] = a
  OBVIOUS
<1>1. n \in Nat
  BY FS_CardinalityType
<1>2. ASSUME NEW i \in 1 .. n, NEW j \in 1 .. n, s[i] = s[j] PROVE i = j
  <2>1. s[i] \in S /\ <<s[i], s[i]>> \notin R
    OBVIOUS
  <2>2. ~(i < j) /\ ~(j < i)
    BY <1>2, <2>1
  <2>3. QED
    BY <1>1, <2>2
<1>3. s \in Injection(1 .. n, S)
  BY <1>2 DEF Injection, IsInjective
<1>4. Cardinality(1 .. n) = n
  BY <1>1, FS_Interval
<1>5. s \in Surjection(1 .. n, S)
  BY <1>3, <1>4, FS_Injection
<1>6. QED
  BY <1>5 DEF Surjection
=============================================================================
