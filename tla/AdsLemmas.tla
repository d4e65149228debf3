------------------------------ MODULE AdsLemmas ------------------------------
(***************************************************************************)
(* Facts about module AdsState that the proofs about the ADS client and    *)
(* about routing rest on, for any resources: what sorting, flattening,     *)
(* insertion and pruning leave, and in which order, what the conversions   *)
(* make of a resource, which conflicts a runtime configuration can have,   *)
(* and that a response with everything subscribed makes AdsState what the  *)
(* server's resources alone would make it.                                 *)
(*                                                                         *)
(* Where an induction is needed it is a least counterexample among the     *)
(* naturals (lemma Least).                                                 *)
(***************************************************************************)
EXTENDS AdsState, FiniteSetTheorems, TLAPS

-----------------------------------------------------------------------------
(* Naturals                                                                *)

\* A non-empty set of naturals has a least element.
LEMMA Least ==
  ASSUME NEW S, S \subseteq Nat, S # {}
  PROVE  \E x \in S : \A y \in S : x <= y
<1> DEFINE R == OpToRel(<, Nat)
<1>1. IsWellFoundedOn(R, Nat)
  BY NatLessThanWellFounded, Zenon
<1> HIDE DEF R
<1>2. PICK x \in S : \A y \in S : ~ (<<y, x>> \in R)
  BY <1>1, WFMin, Zenon
<1>3. \A y \in S : ~ (y < x)
  BY <1>2, Zenon DEF R, OpToRel
<1> QED
  BY <1>3

\* A non-empty set of positions has a greatest element, and Max picks it.
LEMMA MaxOfPositions ==
  ASSUME NEW n \in Nat, NEW S, S \subseteq 1..n, S # {}
  PROVE  Max(S) \in S /\ \A y \in S : y <= Max(S)
<1> DEFINE T == {n - x : x \in S}
<1>1. \A x \in S : x \in 1..n
  OBVIOUS
<1>2. T \subseteq Nat /\ T # {}
  <2>1. \A x \in S : n - x \in Nat
    BY <1>1
  <2>2. PICK x \in S : TRUE
    BY Zenon
  <2>3. n - x \in T
    OBVIOUS
  <2> QED  BY <2>1, <2>3
<1>3. PICK t \in T : \A u \in T : t <= u
  <2> HIDE DEF T
  <2> QED  BY <1>2, Least, Zenon
<1>4. PICK x \in S : t = n - x
  OBVIOUS
<1>5. \A y \in S : n - x <= n - y
  BY <1>3, <1>4, Zenon
<1>6. \A y \in S : x >= y
  BY <1>1, <1>5
<1> QED  BY <1>6, Zenon DEF Max

\* The first of a set of positions.
LEMMA FirstPosition ==
  ASSUME NEW P, P \subseteq Nat
  PROVE  /\ P = {} => First(P) = 0
         /\ P # {} => First(P) \in P /\ \A k \in P : First(P) <= k
<1>1. ASSUME P # {} PROVE First(P) \in P /\ \A k \in P : First(P) <= k
  <2>1. \E x \in P : \A y \in P : x <= y
    BY <1>1, Least, Zenon
  <2>2. First(P) = CHOOSE x \in P : \A y \in P : x <= y
    BY <1>1, Zenon DEF First, Min
  <2> QED  BY <2>1, <2>2, Zenon
<1> QED  BY <1>1 DEF First

Rank(S, n) == Cardinality({m \in S : m <= n})

\* In a finite set of naturals the elements are ranked without ties.
LEMMA RankOrder ==
  ASSUME NEW S, S \subseteq Nat, IsFiniteSet(S), NEW a \in S, NEW b \in S, a < b
  PROVE  Rank(S, a) < Rank(S, b)
<1> DEFINE A == {m \in S : m <= a}
           B == {m \in S : m <= b}
<1>1. a \in Nat /\ b \in Nat /\ \A m \in S : m \in Nat
  OBVIOUS
<1>2. A \subseteq B /\ b \in B /\ b \notin A /\ B \subseteq S
  <2>1. ASSUME NEW m \in S, m <= a PROVE m <= b
    BY <1>1, <2>1
  <2>2. b <= b /\ ~ (b <= a)
    BY <1>1
  <2> QED  BY <2>1, <2>2, Zenon
<1> HIDE DEF A, B
<1>3. IsFiniteSet(B) /\ Cardinality(B) \in Nat
  BY <1>2, FS_Subset, FS_CardinalityType, Zenon
<1>4. IsFiniteSet(A) /\ Cardinality(A) \in Nat /\ Cardinality(A) <= Cardinality(B)
      /\ Cardinality(A) # Cardinality(B)
  BY <1>2, <1>3, FS_Subset, FS_CardinalityType, Zenon
<1> QED  BY <1>3, <1>4 DEF Rank, A, B

\* A rank is a position among the members of the set.
LEMMA RankType ==
  ASSUME NEW S, S \subseteq Nat, IsFiniteSet(S), NEW a \in S
  PROVE  Rank(S, a) \in 1..Cardinality(S)
<1> DEFINE A == {m \in S : m <= a}
<1>1. A \subseteq S /\ a \in A
  OBVIOUS
<1> HIDE DEF A
<1>2. IsFiniteSet(A) /\ Cardinality(A) \in Nat /\ Cardinality(A) <= Cardinality(S)
      /\ Cardinality(S) \in Nat
  BY <1>1, FS_Subset, FS_CardinalityType, Zenon
<1>3. Cardinality(A) # 0
  BY <1>1, <1>2, FS_EmptySet
<1> QED  BY <1>2, <1>3 DEF Rank, A

\* Every rank is taken.
LEMMA RankOnto ==
  ASSUME NEW S, S \subseteq Nat, IsFiniteSet(S), NEW k \in 1..Cardinality(S)
  PROVE  \E a \in S : Rank(S, a) = k
<1> DEFINE n == Cardinality(S)
           r == [a \in S |-> Rank(S, a)]
<1>1. n \in Nat
  BY FS_CardinalityType
<1>2. r \in [S -> 1..n]
  BY RankType, Zenon
<1>3. r \in Injection(S, 1..n)
  <2>1. ASSUME NEW a \in S, NEW b \in S, r[a] = r[b] PROVE a = b
    <3>1. Rank(S, a) \in 1..n /\ Rank(S, b) \in 1..n
      BY RankType, Zenon
    <3>2. Rank(S, a) = Rank(S, b)
      BY <2>1
    <3> HIDE DEF n, r
    <3>3. a < b => Rank(S, a) < Rank(S, b)
      BY RankOrder, Zenon
    <3>4. b < a => Rank(S, b) < Rank(S, a)
      BY RankOrder, Zenon
    <3>5. a \in Nat /\ b \in Nat
      OBVIOUS
    <3> QED  BY <1>1, <3>1, <3>2, <3>3, <3>4, <3>5
  <2> HIDE DEF r
  <2> QED  BY <1>2, <2>1 DEF Injection, IsInjective
<1>4. IsFiniteSet(1..n) /\ Cardinality(1..n) = n
  <2> HIDE DEF n
  <2>1. Cardinality(1..n) = (IF 1 > n THEN 0 ELSE n - 1 + 1) /\ IsFiniteSet(1..n)
    BY <1>1, FS_Interval
  <2> QED  BY <1>1, <2>1
<1>5. r \in Surjection(S, 1..n)
  <2> HIDE DEF r
  <2> QED  BY <1>3, <1>4, FS_Injection
<1> QED  BY <1>5, Zenon DEF Surjection, Range

-----------------------------------------------------------------------------
(* Flattening                                                              *)

\* The vectors a flattening builds up, one for each number of vectors taken.
Concatenated(Q, n, ss) ==
  \E f \in [0..n -> Q] : f[0] = <<>> /\ \A i \in 1..n : f[i] = f[i - 1] \o ss[i]

\* They exist.
LEMMA Concatenations ==
  ASSUME NEW Q, NEW n \in Nat, NEW ss, <<>> \in Q, \A i \in 1..n : \A x \in Q : x \o ss[i] \in Q
  PROVE  Concatenated(Q, n, ss)
<1> DEFINE Upto(m) == \E f \in [0..m -> Q] : f[0] = <<>> /\ \A i \in 1..m : f[i] = f[i - 1] \o ss[i]
           Bad == {m \in 0..n : ~ Upto(m)}
<1>1. Upto(0)
  <2> DEFINE f == [i \in 0..0 |-> <<>>]
  <2>1. f \in [0..0 -> Q] /\ f[0] = <<>> /\ 1..0 = {}
    OBVIOUS
  <2> HIDE DEF f
  <2> QED  BY <2>1
<1>2. ASSUME NEW m \in 1..n, Upto(m - 1) PROVE Upto(m)
  <2>1. PICK f \in [0..(m - 1) -> Q] : f[0] = <<>> /\ \A i \in 1..(m - 1) : f[i] = f[i - 1] \o ss[i]
    BY <1>2, ZenonT(20)
  <2> DEFINE g == [i \in 0..m |-> IF i = m THEN f[m - 1] \o ss[m] ELSE f[i]]
  <2>2. f[m - 1] \o ss[m] \in Q
    BY <2>1
  <2>3. g \in [0..m -> Q] /\ g[0] = <<>>
    BY <2>1, <2>2
  <2>4. ASSUME NEW i \in 1..m PROVE g[i] = g[i - 1] \o ss[i]
    <3>1. CASE i = m
      <4>1. i \in 0..m /\ i - 1 \in 0..m /\ i - 1 # m
        BY <3>1
      <4>2. g[i] = f[m - 1] \o ss[m] /\ g[i - 1] = f[m - 1]
        BY <3>1, <4>1
      <4> QED  BY <3>1, <4>2, Zenon
    <3>2. CASE i # m
      <4>1. i \in 1..(m - 1) /\ i - 1 \in 0..(m - 1) /\ i - 1 # m
        BY <3>2
      <4>2. g[i] = f[i] /\ g[i - 1] = f[i - 1]
        BY <3>2, <4>1
      <4> QED  BY <2>1, <4>1, <4>2, Zenon
    <3> QED  BY <3>1, <3>2, Zenon
  <2> QED  BY <2>3, <2>4, Zenon
<1> HIDE DEF Upto
<1>3. Bad = {}
  <2> SUFFICES ASSUME Bad # {} PROVE FALSE
    OBVIOUS
  <2>1. PICK m \in Bad : \A k \in Bad : m <= k
    <3>1. Bad \subseteq Nat
      OBVIOUS
    <3> HIDE DEF Bad
    <3> QED  BY <3>1, Least, Zenon
  <2>2. m \in 1..n /\ Upto(m - 1)
    BY <1>1, <2>1
  <2> QED  BY <1>2, <2>2
<1>4. Upto(n)
  BY <1>3
<1> QED  BY <1>4 DEF Upto, Concatenated

\* Flattening vectors over S goes through vectors over S, each of them the one before
\* and one of the given.
LEMMA FlattenStages ==
  ASSUME NEW S, NEW ss \in Seq(Seq(S))
  PROVE  \E h \in [0..Len(ss) -> Seq(S)] : /\ h[0] = <<>> /\ flatten(ss) = h[Len(ss)]
                                          /\ \A i \in 1..Len(ss) : h[i] = h[i - 1] \o ss[i]
<1> DEFINE n == Len(ss)
           Q == Seq(S)
           Loop(g) == g = [i \in 0..n |-> IF i = 0 THEN <<>> ELSE g[i - 1] \o ss[i]]
<1>1. n \in Nat /\ (\A i \in 1..n : ss[i] \in Q) /\ <<>> \in Q
  OBVIOUS
<1>2. \A s, t \in Q : s \o t \in Q
  OBVIOUS
<1>3. flatten(ss) = (CHOOSE h : Loop(h))[n]
  BY DEF flatten
<1> HIDE DEF n, Q
<1>4. PICK f \in [0..n -> Q] : f[0] = <<>> /\ \A i \in 1..n : f[i] = f[i - 1] \o ss[i]
  <2>1. \A i \in 1..n : \A x \in Q : x \o ss[i] \in Q
    BY <1>1, <1>2
  <2>2. Concatenated(Q, n, ss)
    BY <1>1, <2>1, Concatenations
  <2> QED  BY <2>2, Zenon DEF Concatenated
<1>5. Loop(f)
  <2>1. ASSUME NEW i \in 0..n, i # 0 PROVE f[i] = f[i - 1] \o ss[i]
    <3>1. i \in 1..n /\ i - 1 \in 0..n
      BY <1>1, <2>1
    <3> QED  BY <1>4, <3>1, Zenon
  <2> QED  BY <1>4, <2>1, Zenon
<1> DEFINE h == CHOOSE h : Loop(h)
<1>6. Loop(h)
  <2> HIDE DEF Loop
  <2> QED  BY <1>5
<1> HIDE DEF h
<1>7. \A i \in 0..n : h[i] = IF i = 0 THEN <<>> ELSE h[i - 1] \o ss[i]
  BY <1>6, Zenon
<1> DEFINE Bad == {i \in 0..n : h[i] \notin Q}
<1>8. Bad = {}
  <2> SUFFICES ASSUME Bad # {} PROVE FALSE
    OBVIOUS
  <2>1. PICK i \in Bad : \A j \in Bad : i <= j
    <3>1. Bad \subseteq Nat
      OBVIOUS
    <3> HIDE DEF Bad
    <3> QED  BY <3>1, Least, Zenon
  <2>2. i \in 0..n /\ h[i] \notin Q
    OBVIOUS
  <2>3. i # 0
    BY <1>1, <1>7, <2>2
  <2>4. i - 1 \in 0..n /\ i \in 1..n /\ h[i - 1] \in Q
    BY <1>1, <2>1, <2>2, <2>3
  <2>5. h[i] = h[i - 1] \o ss[i] /\ ss[i] \in Q
    BY <1>1, <1>7, <2>2, <2>3, <2>4, Zenon
  <2> QED  BY <1>2, <2>2, <2>4, <2>5
<1>9. h \in [0..n -> Q]
  <2>1. DOMAIN h = 0..n /\ h = [i \in DOMAIN h |-> h[i]]
    BY <1>6
  <2> QED  BY <1>8, <2>1
<1>10. h[0] = <<>> /\ \A i \in 1..n : h[i] = h[i - 1] \o ss[i]
  <2>1. 0 \in 0..n /\ \A i \in 1..n : i \in 0..n /\ i # 0
    BY <1>1
  <2> QED  BY <1>7, <2>1, Zenon
<1>11. flatten(ss) = h[n]
  BY <1>3 DEF h
<1> QED  BY <1>9, <1>10, <1>11, Zenon DEF n, Q

\* So nothing but their elements comes out.
LEMMA FlattenType ==
  ASSUME NEW S, NEW ss \in Seq(Seq(S))
  PROVE  flatten(ss) \in Seq(S)
<1>1. PICK h \in [0..Len(ss) -> Seq(S)] : flatten(ss) = h[Len(ss)]
  BY FlattenStages, Zenon
<1> QED  BY <1>1

\* q is the vectors ss one after the other, the i-th of them after off[i] places.
Joined(q, ss, off) ==
  /\ off \in [DOMAIN ss -> Nat]
  /\ \A i \in DOMAIN ss : \A j \in DOMAIN ss[i] :
       off[i] + j \in DOMAIN q /\ q[off[i] + j] = ss[i][j]
  /\ \A k \in DOMAIN q : \E i \in DOMAIN ss : \E j \in DOMAIN ss[i] : k = off[i] + j
  /\ \A i, j \in DOMAIN ss : i < j => off[i] + Len(ss[i]) <= off[j]

\* h has what flattening ss goes through.
Stages(h, ss, S) ==
  /\ ss \in Seq(Seq(S)) /\ h \in [0..Len(ss) -> Seq(S)] /\ h[0] = <<>>
  /\ \A i \in 1..Len(ss) : h[i] = h[i - 1] \o ss[i]

\* The first m of the vectors, in h[m].
JoinedUpTo(h, ss, m) ==
  /\ \A i \in 1..m : Len(h[i - 1]) + Len(ss[i]) <= Len(h[m])
  /\ \A i \in 1..m : \A j \in 1..Len(ss[i]) : h[m][Len(h[i - 1]) + j] = ss[i][j]
  /\ \A k \in 1..Len(h[m]) : \E i \in 1..m : \E j \in 1..Len(ss[i]) : k = Len(h[i - 1]) + j

\* What one vector after another is.
LEMMA Concatenation ==
  ASSUME NEW S, NEW s \in Seq(S), NEW t \in Seq(S)
  PROVE  /\ Len(s) \in Nat /\ Len(t) \in Nat /\ Len(s \o t) = Len(s) + Len(t)
         /\ \A i \in 1..Len(s) : (s \o t)[i] = s[i]
         /\ \A j \in 1..Len(t) : (s \o t)[Len(s) + j] = t[j]
OBVIOUS

\* Vectors of vectors.
LEMMA VectorsOf ==
  ASSUME NEW S, NEW ss \in Seq(Seq(S))
  PROVE  /\ Len(ss) \in Nat /\ DOMAIN ss = 1..Len(ss)
         /\ \A i \in 1..Len(ss) : ss[i] \in Seq(S) /\ Len(ss[i]) \in Nat /\ DOMAIN ss[i] = 1..Len(ss[i])
OBVIOUS

\* One more vector.
LEMMA JoinedNext ==
  ASSUME NEW S, NEW ss, NEW h, Stages(h, ss, S),
         NEW m \in 1..Len(ss), JoinedUpTo(h, ss, m - 1)
  PROVE  JoinedUpTo(h, ss, m)
<1>1. Len(ss) \in Nat /\ \A i \in 1..Len(ss) : ss[i] \in Seq(S) /\ Len(ss[i]) \in Nat
  BY VectorsOf DEF Stages
<1>2. ASSUME NEW i \in 0..Len(ss) PROVE h[i] \in Seq(S) /\ Len(h[i]) \in Nat
  <2>1. h[i] \in Seq(S)
    BY Zenon DEF Stages
  <2> QED  BY <2>1
<1> DEFINE g == h[m - 1]
           t == ss[m]
<1>3. h[m] = g \o t /\ g \in Seq(S) /\ t \in Seq(S)
  <2>1. m - 1 \in 0..Len(ss)
    BY <1>1
  <2> QED  BY <1>1, <1>2, <2>1, Zenon DEF Stages
<1> HIDE DEF g, t
<1>4. Len(g) \in Nat /\ Len(t) \in Nat /\ Len(h[m]) = Len(g) + Len(t)
  BY <1>3, Concatenation
<1>5. /\ \A i \in 1..Len(g) : h[m][i] = g[i]
      /\ \A j \in 1..Len(t) : h[m][Len(g) + j] = t[j]
  BY <1>3, Concatenation
<1>6. ASSUME NEW i \in 1..m PROVE Len(h[i - 1]) + Len(ss[i]) <= Len(h[m])
  <2>1. CASE i = m
    BY <1>4, <2>1 DEF g, t
  <2>2. CASE i # m
    <3>1. i \in 1..(m - 1) /\ Len(h[i - 1]) \in Nat /\ Len(ss[i]) \in Nat
      BY <1>1, <1>2, <2>2
    <3>2. Len(h[i - 1]) + Len(ss[i]) <= Len(g)
      BY <3>1, Zenon DEF JoinedUpTo, g
    <3> DEFINE a == Len(h[i - 1])
               b == Len(ss[i])
    <3>3. a \in Nat /\ b \in Nat /\ a + b <= Len(g)
      BY <3>1, <3>2, Zenon
    <3> HIDE DEF a, b
    <3>4. a + b <= Len(h[m])
      BY <1>4, <3>3
    <3> QED  BY <3>4, Zenon DEF a, b
  <2> QED  BY <2>1, <2>2, Zenon
<1>7. ASSUME NEW i \in 1..m, NEW j \in 1..Len(ss[i]) PROVE h[m][Len(h[i - 1]) + j] = ss[i][j]
  <2>1. CASE i = m
    BY <1>5, <2>1 DEF g, t
  <2>2. CASE i # m
    <3>1. i \in 1..(m - 1) /\ Len(h[i - 1]) \in Nat /\ Len(ss[i]) \in Nat
      BY <1>1, <1>2, <2>2
    <3>2. Len(h[i - 1]) + Len(ss[i]) <= Len(g) /\ g[Len(h[i - 1]) + j] = ss[i][j]
      BY <3>1, Zenon DEF JoinedUpTo, g
    <3>3. Len(h[i - 1]) + j \in 1..Len(g)
      <4> DEFINE a == Len(h[i - 1])
                 b == Len(ss[i])
      <4>1. a \in Nat /\ b \in Nat /\ j \in 1..b /\ a + b <= Len(g)
        BY <3>1, <3>2, Zenon
      <4> HIDE DEF a, b
      <4>2. a + j \in 1..Len(g)
        BY <1>4, <4>1
      <4> QED  BY <4>2 DEF a
    <3> QED  BY <1>5, <3>2, <3>3
  <2> QED  BY <2>1, <2>2
<1>8. ASSUME NEW k \in 1..Len(h[m])
      PROVE  \E i \in 1..m : \E j \in 1..Len(ss[i]) : k = Len(h[i - 1]) + j
  <2>1. CASE k <= Len(g)
    <3>1. k \in 1..Len(g)
      BY <1>4, <2>1
    <3>2. PICK i \in 1..(m - 1) : \E j \in 1..Len(ss[i]) : k = Len(h[i - 1]) + j
      BY <3>1, Zenon DEF JoinedUpTo, g
    <3>3. i \in 1..m
      BY <1>1
    <3> QED  BY <3>2, <3>3
  <2>2. CASE ~ (k <= Len(g))
    <3>1. k - Len(g) \in 1..Len(t) /\ k = Len(g) + (k - Len(g))
      BY <1>4, <2>2
    <3>2. m \in 1..m
      BY <1>1
    <3> QED  BY <3>1, <3>2 DEF g, t
  <2> QED  BY <2>1, <2>2
<1> QED  BY <1>6, <1>7, <1>8, Zenon DEF JoinedUpTo

\* flatten puts the vectors one after the other.
LEMMA FlattenJoins ==
  ASSUME NEW S, NEW ss, ss \in Seq(Seq(S))
  PROVE  \E off : Joined(flatten(ss), ss, off)
<1> DEFINE n == Len(ss)
<1>1. PICK h : Stages(h, ss, S) /\ flatten(ss) = h[n]
  BY FlattenStages, Zenon DEF Stages
<1>2. n \in Nat /\ DOMAIN ss = 1..n /\ \A i \in 1..n : Len(ss[i]) \in Nat /\ DOMAIN ss[i] = 1..Len(ss[i])
  BY VectorsOf
<1>3. \A i \in 0..n : Len(h[i]) \in Nat /\ DOMAIN h[i] = 1..Len(h[i])
  BY <1>1 DEF Stages
<1> DEFINE Bad == {m \in 0..n : ~ JoinedUpTo(h, ss, m)}
<1>4. Bad = {}
  <2> SUFFICES ASSUME Bad # {} PROVE FALSE
    OBVIOUS
  <2>1. PICK m \in Bad : \A k \in Bad : m <= k
    <3>1. Bad \subseteq Nat
      OBVIOUS
    <3> HIDE DEF Bad
    <3> QED  BY <3>1, Least, Zenon
  <2>2. JoinedUpTo(h, ss, 0)
    <3>1. Len(h[0]) = 0 /\ 1..0 = {}
      BY <1>1 DEF Stages
    <3> QED  BY <3>1 DEF JoinedUpTo
  <2>3. m \in 1..n /\ m - 1 \notin Bad /\ m - 1 \in 0..n
    BY <1>2, <2>1, <2>2
  <2>4. JoinedUpTo(h, ss, m - 1)
    BY <2>3
  <2>5. JoinedUpTo(h, ss, m)
    <3> HIDE DEF Bad
    <3> QED  BY <1>1, <2>3, <2>4, JoinedNext
  <2> QED  BY <2>1, <2>5
<1>5. \A m \in 0..n : JoinedUpTo(h, ss, m)
  BY <1>4
<1> HIDE DEF Bad, n
<1> DEFINE off == [i \in 1..n |-> Len(h[i - 1])]
           q == h[n]
<1>6. off \in [1..n -> Nat] /\ \A i \in 1..n : off[i] = Len(h[i - 1])
  BY <1>2, <1>3
<1>7. JoinedUpTo(h, ss, n) /\ Len(q) \in Nat /\ DOMAIN q = 1..Len(q)
  BY <1>2, <1>3, <1>5
<1> HIDE DEF off, q
<1>8. ASSUME NEW i \in 1..n, NEW j \in 1..Len(ss[i])
      PROVE  off[i] + j \in DOMAIN q /\ q[off[i] + j] = ss[i][j]
  <2>1. off[i] \in Nat /\ Len(ss[i]) \in Nat
    BY <1>2, <1>6
  <2>2. off[i] + Len(ss[i]) <= Len(q) /\ q[off[i] + j] = ss[i][j]
    BY <1>6, <1>7, Zenon DEF JoinedUpTo, q
  <2> QED  BY <1>7, <2>1, <2>2
<1>9. ASSUME NEW k \in DOMAIN q PROVE \E i \in 1..n : \E j \in 1..Len(ss[i]) : k = off[i] + j
  <2>1. k \in 1..Len(q)
    BY <1>7
  <2>2. PICK i \in 1..n : \E j \in 1..Len(ss[i]) : k = Len(h[i - 1]) + j
    BY <1>7, <2>1, Zenon DEF JoinedUpTo, q
  <2> QED  BY <1>6, <2>2, Zenon
<1>10. ASSUME NEW i \in 1..n, NEW j \in 1..n, i < j PROVE off[i] + Len(ss[i]) <= off[j]
  <2>1. j - 1 \in 0..n /\ i \in 1..(j - 1)
    BY <1>2, <1>10
  <2>2. Len(h[i - 1]) + Len(ss[i]) <= Len(h[j - 1])
    BY <1>5, <2>1, Zenon DEF JoinedUpTo
  <2> QED  BY <1>6, <2>2, Zenon
<1>11. Joined(q, ss, off)
  <2>1. off \in [DOMAIN ss -> Nat]
    BY <1>2, <1>6
  <2>2. ASSUME NEW i \in DOMAIN ss, NEW j \in DOMAIN ss[i]
        PROVE  off[i] + j \in DOMAIN q /\ q[off[i] + j] = ss[i][j]
    BY <1>2, <1>8
  <2>3. \A k \in DOMAIN q : \E i \in DOMAIN ss : \E j \in DOMAIN ss[i] : k = off[i] + j
    BY <1>2, <1>9, Zenon
  <2>4. \A i, j \in DOMAIN ss : i < j => off[i] + Len(ss[i]) <= off[j]
    BY <1>2, <1>10
  <2> QED  BY <2>1, <2>2, <2>3, <2>4 DEF Joined
<1> QED  BY <1>1, <1>11 DEF q

\* The order of the places is the order of the vectors, and within them.
LEMMA JoinedOrder ==
  ASSUME NEW S, NEW ss, ss \in Seq(Seq(S)), NEW q, NEW off, Joined(q, ss, off),
         NEW i \in DOMAIN ss, NEW j \in DOMAIN ss[i], NEW k \in DOMAIN ss, NEW l \in DOMAIN ss[k]
  PROVE  /\ off[i] + j < off[k] + l => i < k \/ (i = k /\ j < l)
         /\ off[i] + j = off[k] + l => i = k /\ j = l
<1> DEFINE a == off[i]
           b == off[k]
           x == Len(ss[i])
           y == Len(ss[k])
<1>1. /\ i \in Nat /\ k \in Nat /\ x \in Nat /\ y \in Nat /\ j \in 1..x /\ l \in 1..y
  BY VectorsOf
<1>2. a \in Nat /\ b \in Nat /\ (i < k => a + x <= b) /\ (k < i => b + y <= a) /\ (i = k => a = b)
  BY Zenon DEF Joined
<1> HIDE DEF a, b, x, y
<1>3. (a + j < b + l => i < k \/ (i = k /\ j < l)) /\ (a + j = b + l => i = k /\ j = l)
  BY <1>1, <1>2
<1> QED  BY <1>3 DEF a, b

-----------------------------------------------------------------------------
(* Order                                                                   *)

\* sorted_unique lists a finite set of names in order, each of them once.
LEMMA SortedFacts ==
  ASSUME NEW S, S \subseteq Nat, IsFiniteSet(S)
  PROVE  LET s == sorted_unique(S) IN
           /\ Cardinality(S) \in Nat /\ DOMAIN s = 1..Cardinality(S)
           /\ \A i \in DOMAIN s : s[i] \in S
           /\ \A i, j \in DOMAIN s : i < j => s[i] < s[j]
           /\ \A n \in S : \E i \in DOMAIN s : s[i] = n
<1> DEFINE N == Cardinality(S)
           s == sorted_unique(S)
<1>1. N \in Nat
  BY FS_CardinalityType
<1>2. DOMAIN s = 1..N
  BY DEF sorted_unique
<1>3. ASSUME NEW i \in 1..N PROVE s[i] \in S /\ Rank(S, s[i]) = i
  <2>1. \E n \in S : Rank(S, n) = i
    BY RankOnto, Zenon
  <2>2. s[i] = CHOOSE n \in S : Rank(S, n) = i
    BY Zenon DEF sorted_unique, Rank
  <2> HIDE DEF s, N
  <2> QED  BY <2>1, <2>2
<1> HIDE DEF N, s
<1>4. ASSUME NEW a \in S, NEW b \in S, Rank(S, a) = Rank(S, b) PROVE a = b
  <2>1. Rank(S, a) \in 1..N /\ a \in Nat /\ b \in Nat
    BY RankType, Zenon DEF N
  <2>2. ~ (a < b) /\ ~ (b < a)
    <3>1. ASSUME a < b PROVE FALSE
      <4>1. Rank(S, a) < Rank(S, b)
        BY <3>1, RankOrder, Zenon
      <4> QED  BY <1>1, <1>4, <2>1, <4>1
    <3>2. ASSUME b < a PROVE FALSE
      <4>1. Rank(S, b) < Rank(S, a)
        BY <3>2, RankOrder, Zenon
      <4> QED  BY <1>1, <1>4, <2>1, <4>1
    <3> QED  BY <3>1, <3>2
  <2> QED  BY <2>1, <2>2
<1>5. ASSUME NEW i \in 1..N, NEW j \in 1..N, i < j PROVE s[i] < s[j]
  <2>1. s[i] \in S /\ s[j] \in S /\ s[i] \in Nat /\ s[j] \in Nat
    BY <1>3, Zenon
  <2>2. s[i] # s[j]
    BY <1>1, <1>3, <1>5
  <2>3. ASSUME s[j] < s[i] PROVE FALSE
    <3>1. Rank(S, s[j]) < Rank(S, s[i])
      BY <2>1, <2>3, RankOrder, Zenon
    <3> QED  BY <1>1, <1>3, <1>5, <3>1
  <2> QED  BY <2>1, <2>2, <2>3
<1>6. ASSUME NEW n \in S PROVE \E i \in 1..N : s[i] = n
  <2>1. Rank(S, n) \in 1..N
    BY RankType, Zenon DEF N
  <2> QED  BY <1>3, <1>4, <2>1, Zenon
<1> QED  BY <1>1, <1>2, <1>3, <1>5, <1>6 DEF N, s

\* The place of a name among the sorted ones is its rank.
LEMMA SortedRank ==
  ASSUME NEW S, S \subseteq Nat, IsFiniteSet(S), NEW n \in S
  PROVE  Rank(S, n) \in 1..Cardinality(S) /\ sorted_unique(S)[Rank(S, n)] = n
<1> DEFINE k == Rank(S, n)
           N == Cardinality(S)
           s == sorted_unique(S)
<1>1. k \in 1..N /\ N \in Nat
  BY RankType, FS_CardinalityType, Zenon
<1>2. s[k] = CHOOSE m \in S : Rank(S, m) = k
  BY <1>1, Zenon DEF sorted_unique, Rank
<1> HIDE DEF k, s
<1>3. s[k] \in S /\ Rank(S, s[k]) = k
  BY <1>2 DEF k
<1>4. s[k] \in Nat /\ n \in Nat /\ Rank(S, n) = k
  BY <1>3, Zenon DEF k
<1>5. ~ (s[k] < n) /\ ~ (n < s[k])
  <2>1. s[k] < n => Rank(S, s[k]) < Rank(S, n)
    BY <1>3, RankOrder, Zenon
  <2>2. n < s[k] => Rank(S, n) < Rank(S, s[k])
    BY <1>3, RankOrder, Zenon
  <2> HIDE DEF N
  <2> QED  BY <1>1, <1>3, <1>4, <2>1, <2>2
<1>6. s[k] = n
  BY <1>4, <1>5
<1> QED  BY <1>1, <1>6 DEF k, s

-----------------------------------------------------------------------------
(* Insertion                                                               *)

\* Finitely many positions have finitely many values.
LEMMA FiniteImage ==
  ASSUME NEW K, IsFiniteSet(K), NEW f
  PROVE  IsFiniteSet({f[i] : i \in K})
<1> DEFINE T == {f[i] : i \in K}
           g == [i \in K |-> f[i]]
<1>1. g \in Surjection(K, T)
  BY DEF Surjection, Range
<1> HIDE DEF g, T
<1>2. IsFiniteSet(T)
  BY <1>1, FS_Surjection
<1> QED  BY <1>2 DEF T

\* The resources of a name, by position.
Positions(rs, kept, n) == {i \in kept : rs[i].name = n}

\* b is a with the resources kept inserted one after another; value has what each
\* of them is stored as.
Insertion(a, b, rs, kept, value) ==
  /\ DOMAIN b = DOMAIN a \cup {rs[i].name : i \in kept}
  /\ \A n \in DOMAIN b :
       \/ /\ Max(Positions(rs, kept, n)) \in Positions(rs, kept, n)
          /\ b[n] = value[Max(Positions(rs, kept, n))]
       \/ Positions(rs, kept, n) = {} /\ n \in DOMAIN a /\ b[n] = a[n]

\* A name that a resource carries has a last resource that carries it.
LEMMA LastPosition ==
  ASSUME NEW O, NEW rs \in Seq(O), NEW kept, kept \subseteq DOMAIN rs, NEW n
  PROVE  /\ n \in {rs[i].name : i \in kept} <=> Positions(rs, kept, n) # {}
         /\ Positions(rs, kept, n) # {} =>
              /\ Max(Positions(rs, kept, n)) \in Positions(rs, kept, n)
              /\ \A i \in Positions(rs, kept, n) : i <= Max(Positions(rs, kept, n))
<1> DEFINE P == Positions(rs, kept, n)
<1>1. P \subseteq 1..Len(rs) /\ Len(rs) \in Nat
  BY DEF Positions
<1>2. n \in {rs[i].name : i \in kept} <=> P # {}
  BY DEF Positions
<1> HIDE DEF P
<1>3. P # {} => Max(P) \in P /\ \A i \in P : i <= Max(P)
  BY <1>1, MaxOfPositions, Zenon
<1> QED  BY <1>2, <1>3 DEF P

ListenerValues(rs) == [i \in DOMAIN rs |-> listener_snapshot(rs[i])]
RouteValues(rs) == [i \in DOMAIN rs |-> convert_virtual_hosts(rs[i].virtual_hosts)]
ClusterValues(rs) == [i \in DOMAIN rs |-> cluster_snapshot(rs[i])]
EndpointValues(rs) == [i \in DOMAIN rs |-> endpoints_from_assignment(rs[i])]

\* The four loops of insert are insertions: the last resource of a name decides.
LEMMA InsertListeners ==
  ASSUME NEW O, NEW rs \in Seq(O), NEW a
  PROVE  Insertion(a, insert_listeners(a, rs), rs, DOMAIN rs, ListenerValues(rs))
<1> DEFINE b == insert_listeners(a, rs)
<1>1. /\ DOMAIN b = DOMAIN a \cup {rs[i].name : i \in DOMAIN rs}
      /\ \A n \in DOMAIN b :
           b[n] = IF n \in {rs[i].name : i \in DOMAIN rs}
                  THEN listener_snapshot(rs[Max(Positions(rs, DOMAIN rs, n))]) ELSE a[n]
  BY DEF insert_listeners, Inserted, Positions
<1> HIDE DEF b
<1>2. \A n \in DOMAIN b : Max(Positions(rs, DOMAIN rs, n)) \in Positions(rs, DOMAIN rs, n) =>
        Max(Positions(rs, DOMAIN rs, n)) \in DOMAIN rs
  BY DEF Positions
<1> QED  BY <1>1, <1>2, LastPosition DEF Insertion, ListenerValues, b

\* The same for route configurations.
LEMMA InsertRoutes ==
  ASSUME NEW O, NEW rs \in Seq(O), NEW a
  PROVE  Insertion(a, insert_routes(a, rs), rs, DOMAIN rs, RouteValues(rs))
<1> DEFINE b == insert_routes(a, rs)
           K == DOMAIN rs
<1>1. K \subseteq DOMAIN rs
  BY DEF Named
<1>2. /\ DOMAIN b = DOMAIN a \cup {rs[i].name : i \in K}
      /\ \A n \in DOMAIN b :
           b[n] = IF n \in {rs[i].name : i \in K}
                  THEN convert_virtual_hosts(rs[Max(Positions(rs, K, n))].virtual_hosts) ELSE a[n]
  BY DEF insert_routes, Inserted, Positions
<1> HIDE DEF b, K
<1>3. \A n \in DOMAIN b : Max(Positions(rs, K, n)) \in Positions(rs, K, n) =>
        Max(Positions(rs, K, n)) \in DOMAIN rs
  BY <1>1 DEF Positions
<1> QED  BY <1>1, <1>2, <1>3, LastPosition DEF Insertion, RouteValues, b, K

\* The same for clusters.
LEMMA InsertClusters ==
  ASSUME NEW O, NEW rs \in Seq(O), NEW a
  PROVE  Insertion(a, insert_clusters(a, rs), rs, Named(rs), ClusterValues(rs))
<1> DEFINE b == insert_clusters(a, rs)
           K == Named(rs)
<1>1. K \subseteq DOMAIN rs
  BY DEF Named
<1>2. /\ DOMAIN b = DOMAIN a \cup {rs[i].name : i \in K}
      /\ \A n \in DOMAIN b :
           b[n] = IF n \in {rs[i].name : i \in K}
                  THEN cluster_snapshot(rs[Max(Positions(rs, K, n))]) ELSE a[n]
  BY DEF insert_clusters, Inserted, Positions
<1> HIDE DEF b, K
<1>3. \A n \in DOMAIN b : Max(Positions(rs, K, n)) \in Positions(rs, K, n) =>
        Max(Positions(rs, K, n)) \in DOMAIN rs
  BY <1>1 DEF Positions
<1> QED  BY <1>1, <1>2, <1>3, LastPosition DEF Insertion, ClusterValues, b, K

\* The same for load assignments.
LEMMA InsertEndpoints ==
  ASSUME NEW O, NEW rs \in Seq(O), NEW a
  PROVE  Insertion(a, insert_endpoints(a, rs), rs, Named(rs), EndpointValues(rs))
<1> DEFINE b == insert_endpoints(a, rs)
           K == Named(rs)
<1>1. K \subseteq DOMAIN rs
  BY DEF Named
<1>2. /\ DOMAIN b = DOMAIN a \cup {rs[i].name : i \in K}
      /\ \A n \in DOMAIN b :
           b[n] = IF n \in {rs[i].name : i \in K}
                  THEN endpoints_from_assignment(rs[Max(Positions(rs, K, n))]) ELSE a[n]
  BY DEF insert_endpoints, Inserted, Positions
<1> HIDE DEF b, K
<1>3. \A n \in DOMAIN b : Max(Positions(rs, K, n)) \in Positions(rs, K, n) =>
        Max(Positions(rs, K, n)) \in DOMAIN rs
  BY <1>1 DEF Positions
<1> QED  BY <1>1, <1>2, <1>3, LastPosition DEF Insertion, EndpointValues, b, K

\* The clusters that bring their endpoints, by position.
InlineOf(rs) == {i \in Named(rs) : rs[i].assignment # None}

\* Endpoints that come inside a cluster are stored under its service.
LEMMA InsertAssigned ==
  ASSUME NEW O, NEW rs \in Seq(O), NEW a
  PROVE  LET b == insert_assigned(a, rs)
         IN  /\ DOMAIN a \subseteq DOMAIN b
             /\ \A n \in DOMAIN b :
                  \/ \E i \in InlineOf(rs) : /\ n = cluster_snapshot(rs[i]).eds_service_name
                                            /\ b[n] = endpoints_from_assignment(rs[i].assignment[1])
                  \/ n \in DOMAIN a /\ b[n] = a[n]
<1> DEFINE b == insert_assigned(a, rs)
           K == InlineOf(rs)
           P(n) == {i \in K : cluster_snapshot(rs[i]).eds_service_name = n}
<1>1. K \subseteq 1..Len(rs) /\ Len(rs) \in Nat
  BY DEF Named, InlineOf
<1>2. /\ DOMAIN b = DOMAIN a \cup {cluster_snapshot(rs[i]).eds_service_name : i \in K}
      /\ \A n \in DOMAIN b :
           b[n] = IF n \in {cluster_snapshot(rs[i]).eds_service_name : i \in K}
                  THEN endpoints_from_assignment(rs[Max(P(n))].assignment[1]) ELSE a[n]
  BY DEF insert_assigned, Inserted, InlineOf
<1> HIDE DEF b, K
<1>3. ASSUME NEW n \in {cluster_snapshot(rs[i]).eds_service_name : i \in K}
      PROVE  Max(P(n)) \in P(n)
  <2>1. P(n) # {} /\ P(n) \subseteq 1..Len(rs)
    BY <1>1
  <2> HIDE DEF P
  <2> QED  BY <1>1, <2>1, MaxOfPositions
<1> QED  BY <1>2, <1>3, Zenon DEF b, K

\* prune_requested only removes, and removes what is about to be replaced.
LEMMA PruneFacts ==
  ASSUME NEW m, NEW names
  PROVE  LET p == prune_requested(m, names) IN
           /\ DOMAIN p \subseteq DOMAIN m
           /\ \A n \in DOMAIN p : p[n] = m[n] /\ n \notin names /\ names # {}
BY DEF prune_requested, EmptyMap

\* Some of a sequence's elements, in their order.
LEMMA InOrderFacts ==
  ASSUME NEW O, NEW rs \in Seq(O), NEW K, K \subseteq DOMAIN rs
  PROVE  /\ InOrder(rs, K) \in Seq(O)
         /\ DOMAIN InOrder(rs, K) = DOMAIN sorted_unique(K)
         /\ \A i \in DOMAIN InOrder(rs, K) :
              sorted_unique(K)[i] \in K /\ InOrder(rs, K)[i] = rs[sorted_unique(K)[i]]
<1> DEFINE s == sorted_unique(K)
           q == InOrder(rs, K)
<1>1. K \subseteq 1..Len(rs) /\ Len(rs) \in Nat
  OBVIOUS
<1>2. IsFiniteSet(1..Len(rs)) /\ K \subseteq Nat
  BY <1>1, FS_Interval
<1>3. IsFiniteSet(K)
  BY <1>1, <1>2, FS_Subset
<1>4. /\ Cardinality(K) \in Nat /\ DOMAIN s = 1..Cardinality(K)
      /\ \A i \in DOMAIN s : s[i] \in K
  BY <1>2, <1>3, SortedFacts
<1> HIDE DEF s
<1>5. q = [i \in DOMAIN s |-> rs[s[i]]]
  BY DEF InOrder, s
<1> HIDE DEF q
<1>6. \A i \in 1..Cardinality(K) : rs[s[i]] \in O
  BY <1>1, <1>4
<1> QED  BY <1>4, <1>5, <1>6 DEF s, q

-----------------------------------------------------------------------------
(* Conversion                                                              *)

\* A route with no destination is dropped.
LEMMA ConvertRoute ==
  ASSUME NEW route
  PROVE  \/ convert_route(route) = <<>>
         \/ \E x : convert_route(route) = <<x>> /\ x.weighted_clusters # <<>>
<1> DEFINE ws == Destinations(route)
<1> HIDE DEF ws
<1>1. CASE ws = <<>>
  BY <1>1 DEF convert_route, ws
<1>2. CASE ws # <<>>
  <2>1. convert_route(route) = RouteTo(route, ws)
    BY <1>2 DEF convert_route, ws
  <2>2. RouteTo(route, ws) = <<>> \/ \E m : RouteTo(route, ws) = <<[matches |-> m, weighted_clusters |-> ws]>>
    BY Zenon DEF RouteTo
  <2> QED  BY <1>2, <2>1, <2>2
<1> QED  BY <1>1, <1>2

\* A virtual host whose routes all have destinations.
Directed(h) == \A r \in DOMAIN h.routes : h.routes[r].weighted_clusters # <<>>

\* convert_route drops the routes that forward nowhere.
LEMMA RoutesDirected ==
  ASSUME NEW routes, Vector(routes)
  PROVE  \A r \in DOMAIN filter_map(convert_route, routes) :
           filter_map(convert_route, routes)[r].weighted_clusters # <<>>
<1> DEFINE ss == [i \in DOMAIN routes |-> convert_route(routes[i])]
           some == {i \in DOMAIN routes : convert_route(routes[i]) # <<>>}
           S == {convert_route(routes[i])[1] : i \in some}
<1>1. filter_map(convert_route, routes) = flatten(ss)
  BY DEF filter_map
<1>2. DOMAIN routes = 1..Len(routes) /\ Len(routes) \in Nat
  BY DEF Vector
<1>3. \A i \in DOMAIN routes : convert_route(routes[i]) \in Seq(S)
  <2> SUFFICES ASSUME NEW i \in DOMAIN routes PROVE convert_route(routes[i]) \in Seq(S)
    OBVIOUS
  <2>1. CASE convert_route(routes[i]) = <<>>
    BY <2>1
  <2>2. CASE convert_route(routes[i]) # <<>>
    <3>1. PICK x : convert_route(routes[i]) = <<x>>
      BY <2>2, ConvertRoute
    <3>2. x \in S
      BY <2>2, <3>1
    <3> HIDE DEF S
    <3> QED  BY <3>1, <3>2
  <2> QED  BY <2>1, <2>2
<1>4. ASSUME NEW x \in S PROVE x.weighted_clusters # <<>>
  <2>1. PICK i \in some : x = convert_route(routes[i])[1]
    OBVIOUS
  <2>2. convert_route(routes[i]) # <<>>
    OBVIOUS
  <2> QED  BY <2>1, <2>2, ConvertRoute
<1>5. ss \in Seq(Seq(S))
  <2> HIDE DEF S
  <2> QED  BY <1>2, <1>3
<1> HIDE DEF ss, S
<1>6. flatten(ss) \in Seq(S)
  BY <1>5, FlattenType
<1> QED  BY <1>1, <1>4, <1>6

\* The virtual hosts of a route configuration, and those inside a listener.
LEMMA HostsDirected ==
  ASSUME NEW vhosts, VirtualHosts(vhosts)
  PROVE  /\ convert_virtual_hosts(vhosts) \in Seq(Range(convert_virtual_hosts(vhosts)))
         /\ \A h \in Range(convert_virtual_hosts(vhosts)) : Directed(h)
<1> DEFINE q == convert_virtual_hosts(vhosts)
<1>1. DOMAIN vhosts = 1..Len(vhosts) /\ Len(vhosts) \in Nat
  BY DEF VirtualHosts, Vector
<1>2. q = [i \in DOMAIN vhosts |-> q[i]]
  BY DEF convert_virtual_hosts
<1>3. \A i \in DOMAIN vhosts : q[i].routes = filter_map(convert_route, vhosts[i].routes)
  BY DEF convert_virtual_hosts
<1> HIDE DEF q
<1>4. \A i \in DOMAIN vhosts : Vector(vhosts[i].routes)
  BY DEF VirtualHosts
<1>5. \A i \in DOMAIN vhosts : Directed(q[i])
  BY <1>3, <1>4, RoutesDirected DEF Directed
<1>6. \A i \in 1..Len(vhosts) : q[i] \in Range(q)
  BY <1>1, <1>2 DEF Range
<1>7. q \in Seq(Range(q))
  BY <1>1, <1>2, <1>6
<1> QED  BY <1>2, <1>5, <1>7 DEF Range, q

\* The virtual hosts inside a listener come from its own managers, and their
\* routes forward somewhere.
LEMMA InlineDirected ==
  ASSUME NEW l, WellFormed("listener", l)
  PROVE  LET q == listener_snapshot(l).inline_virtual_hosts
         IN  q \in Seq({h \in UNION {Range(convert_virtual_hosts(l.managers[i].virtual_hosts))
                                     : i \in DOMAIN l.managers} : Directed(h)})
<1> DEFINE ms == l.managers
           hosts(i) == convert_virtual_hosts(ms[i].virtual_hosts)
           S == {h \in UNION {Range(hosts(i)) : i \in DOMAIN ms} : Directed(h)}
           ss == [i \in DOMAIN ms |-> IF ms[i].specifier = "inline" THEN hosts(i) ELSE <<>>]
           q == listener_snapshot(l).inline_virtual_hosts
<1>1. q = flatten(ss)
  BY DEF listener_snapshot, filter_map
<1>2. DOMAIN ms = 1..Len(ms) /\ Len(ms) \in Nat
  BY DEF WellFormed, Vector
<1>3. ASSUME NEW i \in DOMAIN ms PROVE hosts(i) \in Seq(S)
  <2>1. VirtualHosts(ms[i].virtual_hosts)
    BY DEF WellFormed
  <2>2. hosts(i) \in Seq(Range(hosts(i))) /\ \A h \in Range(hosts(i)) : Directed(h)
    BY <2>1, HostsDirected
  <2>3. Range(hosts(i)) \subseteq S
    BY <2>2
  <2> HIDE DEF S, hosts
  <2> QED  BY <2>2, <2>3
<1>4. ss \in Seq(Seq(S))
  <2> HIDE DEF S, hosts
  <2> QED  BY <1>2, <1>3
<1>5. flatten(ss) \in Seq(S)
  <2> HIDE DEF S, ss
  <2> QED  BY <1>4, FlattenType
<1> QED  BY <1>1, <1>5

-----------------------------------------------------------------------------
(* The runtime configuration                                               *)

\* What a map of AdsState holds comes from resources the server offered, each
\* under its own name.
ListenersFrom(m, O) ==
  /\ IsFiniteSet(DOMAIN m) /\ DOMAIN m \subseteq Nat
  /\ \A n \in DOMAIN m : \E l \in O : l.name = n /\ m[n] = listener_snapshot(l)
RoutesFrom(m, O) ==
  \A n \in DOMAIN m : \E r \in O : r.name = n /\ m[n] = convert_virtual_hosts(r.virtual_hosts)
ClustersFrom(m, O) ==
  /\ IsFiniteSet(DOMAIN m) /\ DOMAIN m \subseteq Nat
  /\ \A n \in DOMAIN m : \E c \in O : c.name = n /\ m[n] = cluster_snapshot(c)

\* BTreeMap::values come in the order of the keys.
LEMMA ValuesFacts ==
  ASSUME NEW m, IsFiniteSet(DOMAIN m), DOMAIN m \subseteq Nat
  PROVE  LET ks == sorted_unique(DOMAIN m) IN
           /\ DOMAIN values(m) = DOMAIN ks /\ DOMAIN ks \subseteq Nat
           /\ \A i \in DOMAIN ks : ks[i] \in DOMAIN m /\ values(m)[i] = m[ks[i]]
           /\ \A i, j \in DOMAIN ks : i < j => ks[i] # ks[j]
<1> DEFINE ks == sorted_unique(DOMAIN m)
<1>1. /\ DOMAIN ks = 1..Cardinality(DOMAIN m)
      /\ \A i \in DOMAIN ks : ks[i] \in DOMAIN m
      /\ \A i, j \in DOMAIN ks : i < j => ks[i] < ks[j]
  BY SortedFacts
<1>2. /\ DOMAIN values(m) = DOMAIN ks
      /\ \A i \in DOMAIN ks : values(m)[i] = m[ks[i]]
  BY DEF values, InOrder
<1> HIDE DEF ks
<1>3. DOMAIN ks \subseteq Nat
  BY <1>1
<1>4. \A i, j \in DOMAIN ks : i < j => ks[i] # ks[j]
  BY <1>1
<1> QED  BY <1>1, <1>2, <1>3, <1>4 DEF ks

Port(l) == unwrap_or(listener_port(l), 80)

\* The virtual hosts of the routes a listener names, as far as they have come.
Routed(a, s) ==
  LET names == sorted_unique(s.route_names)
  IN  flatten([k \in DOMAIN names |-> IF names[k] \in DOMAIN a.routes
                                         THEN a.routes[names[k]] ELSE <<>>])

\* A listener of the configuration, made from a resource and the routes at hand.
ConfiguredAs(c, a, l) ==
  /\ c.name = l.name
  /\ c.bind = [ip |-> "unspecified", port |-> Port(l)]
  /\ c.protocol = IF Port(l) = 443 THEN "https" ELSE "http"
  /\ c.tls_secret = None
  /\ c.virtual_hosts = listener_snapshot(l).inline_virtual_hosts \o Routed(a, listener_snapshot(l))

\* A listener of the configuration is made of one listener of AdsState.
LEMMA ConfigListener ==
  ASSUME NEW a, NEW v, NEW l, NEW i \in DOMAIN values(a.listeners),
         values(a.listeners)[i] = listener_snapshot(l)
  PROVE  ConfiguredAs(runtime_config(a, v).listeners[i], a, l)
<1> DEFINE s == listener_snapshot(l)
           vh == s.inline_virtual_hosts \o Routed(a, s)
           c == runtime_config(a, v).listeners[i]
<1>1. s.listener = [name |-> l.name, bind |-> [ip |-> "unspecified", port |-> Port(l)],
                    protocol |-> IF Port(l) = 443 THEN "https" ELSE "http",
                    tls_secret |-> None, virtual_hosts |-> <<>>]
  BY ZenonT(20) DEF listener_snapshot, Port
<1>2. c = [s.listener EXCEPT !.virtual_hosts = vh]
  <2> HIDE DEF s
  <2>1. values(a.listeners)[i] = s
    BY DEF s
  <2> QED  BY <2>1, Zenon DEF runtime_config, Routed, filter_map
<1> HIDE DEF s, vh, c
<1>3. /\ c.name = l.name
      /\ c.bind = [ip |-> "unspecified", port |-> Port(l)]
      /\ c.protocol = IF Port(l) = 443 THEN "https" ELSE "http"
      /\ c.tls_secret = None
      /\ c.virtual_hosts = vh
  BY <1>1, <1>2
<1> QED  BY <1>3 DEF s, vh, c, ConfiguredAs

\* The configuration has a listener and a cluster for each of AdsState.
LEMMA ConfigDomains ==
  ASSUME NEW a, NEW v
  PROVE  /\ DOMAIN runtime_config(a, v).listeners = DOMAIN values(a.listeners)
         /\ DOMAIN runtime_config(a, v).clusters = DOMAIN values(a.clusters)
         /\ \A i \in DOMAIN values(a.clusters) :
              runtime_config(a, v).clusters[i].name = values(a.clusters)[i].name
BY Zenon DEF runtime_config

\* A listener names finitely many route configurations.
LEMMA RouteNamesFinite ==
  ASSUME NEW l, WellFormed("listener", l)
  PROVE  IsFiniteSet(listener_snapshot(l).route_names) /\ listener_snapshot(l).route_names \subseteq Nat
<1> DEFINE N == listener_snapshot(l).route_names
           K == {i \in DOMAIN l.managers : l.managers[i].specifier = "rds"}
           f == [i \in K |-> l.managers[i].route_config_name]
<1>1. N = {f[i] : i \in K} \ {EmptyName}
  BY Zenon DEF listener_snapshot
<1>2. K \subseteq 1..Len(l.managers) /\ Len(l.managers) \in Nat
  BY DEF WellFormed, Vector
<1>3. \A i \in K : f[i] \in Nat
  BY DEF WellFormed
<1> HIDE DEF K, f, N
<1>4. IsFiniteSet(K)
  <2>1. IsFiniteSet(1..Len(l.managers))
    BY <1>2, FS_Interval
  <2> QED  BY <1>2, <2>1, FS_Subset, Zenon
<1>5. IsFiniteSet({f[i] : i \in K})
  BY <1>4, FiniteImage
<1>6. N \subseteq Nat /\ N \subseteq {f[i] : i \in K}
  BY <1>1, <1>3
<1>7. IsFiniteSet(N)
  BY <1>5, <1>6, FS_Subset, Zenon
<1> QED  BY <1>6, <1>7 DEF N

\* The virtual hosts a listener ends up with have no route without destination.
LEMMA RoutedDirected ==
  ASSUME NEW a, NEW O, RoutesFrom(a.routes, O), \A r \in O : WellFormed("route", r),
         NEW l, WellFormed("listener", l)
  PROVE  LET s == listener_snapshot(l)
             q == s.inline_virtual_hosts \o Routed(a, s)
         IN  \A h \in DOMAIN q : Directed(q[h])
<1> DEFINE s == listener_snapshot(l)
           names == sorted_unique(s.route_names)
           T == UNION {Range(a.routes[n]) : n \in DOMAIN a.routes}
           U == UNION {Range(convert_virtual_hosts(l.managers[i].virtual_hosts)) : i \in DOMAIN l.managers}
           D == {h \in T \cup U : Directed(h)}
           ss == [k \in DOMAIN names |-> IF names[k] \in DOMAIN a.routes
                                         THEN a.routes[names[k]] ELSE <<>>]
           q1 == s.inline_virtual_hosts
           q2 == Routed(a, s)
<1>1. q1 \in Seq({h \in U : Directed(h)})
  BY InlineDirected
<1>2. q1 \in Seq(D)
  <2>1. {h \in U : Directed(h)} \subseteq D
    OBVIOUS
  <2> HIDE DEF D, U, q1
  <2> QED  BY <1>1, <2>1
<1>3. ASSUME NEW n \in DOMAIN a.routes PROVE a.routes[n] \in Seq(D)
  <2>1. PICK r \in O : a.routes[n] = convert_virtual_hosts(r.virtual_hosts)
    BY DEF RoutesFrom
  <2>2. a.routes[n] \in Seq(Range(a.routes[n])) /\ \A h \in Range(a.routes[n]) : Directed(h)
    BY <2>1, HostsDirected DEF WellFormed
  <2>3. Range(a.routes[n]) \subseteq D
    BY <2>2
  <2> HIDE DEF D
  <2> QED  BY <2>2, <2>3
<1>4. DOMAIN names = 1..Cardinality(s.route_names) /\ Cardinality(s.route_names) \in Nat
  BY RouteNamesFinite, SortedFacts
<1> HIDE DEF D
<1>5. ss \in Seq(Seq(D))
  <2> DEFINE N == Cardinality(s.route_names)
             Q == Seq(D)
             R == a.routes
  <2>1. <<>> \in Q /\ N \in Nat /\ DOMAIN names = 1..N
    BY <1>4
  <2>2. \A n \in DOMAIN R : R[n] \in Q
    BY <1>3
  <2> HIDE DEF names, N, Q, R
  <2>3. [k \in DOMAIN names |-> IF names[k] \in DOMAIN R THEN R[names[k]] ELSE <<>>] \in Seq(Q)
    BY <2>1, <2>2
  <2> QED  BY <2>3 DEF Q, R
<1>6. q2 \in Seq(D)
  <2>1. q2 = flatten(ss)
    BY DEF Routed
  <2> HIDE DEF ss, q2
  <2> QED  BY <1>5, <2>1, FlattenType
<1>7. \A h \in D : Directed(h)
  BY DEF D
<1> HIDE DEF q1, q2
<1>8. q1 \o q2 \in Seq(D)
  BY <1>2, <1>6
<1>9. \A h \in DOMAIN (q1 \o q2) : (q1 \o q2)[h] \in D
  BY <1>8
<1> QED  BY <1>7, <1>9 DEF q1, q2

\* Only clusters can be missing: the names of listeners and clusters are the keys
\* of maps, a port determines the protocol, and routes without destinations have
\* been dropped.
LEMMA OnlyClustersMissing ==
  ASSUME NEW a, NEW v, NEW OL, NEW OR, NEW OC,
         ListenersFrom(a.listeners, OL), RoutesFrom(a.routes, OR), ClustersFrom(a.clusters, OC),
         \A l \in OL : WellFormed("listener", l), \A r \in OR : WellFormed("route", r)
  PROVE  \A c \in validate(runtime_config(a, v)) : c.kind = "missing-cluster"
<1> DEFINE cfg == runtime_config(a, v)
           lk == sorted_unique(DOMAIN a.listeners)
           ck == sorted_unique(DOMAIN a.clusters)
<1>1. /\ DOMAIN values(a.listeners) = DOMAIN lk /\ DOMAIN lk \subseteq Nat
      /\ \A i \in DOMAIN lk : lk[i] \in DOMAIN a.listeners /\ values(a.listeners)[i] = a.listeners[lk[i]]
      /\ \A i, j \in DOMAIN lk : i < j => lk[i] # lk[j]
  BY ValuesFacts DEF ListenersFrom
<1>2. /\ DOMAIN values(a.clusters) = DOMAIN ck /\ DOMAIN ck \subseteq Nat
      /\ \A i \in DOMAIN ck : ck[i] \in DOMAIN a.clusters /\ values(a.clusters)[i] = a.clusters[ck[i]]
      /\ \A i, j \in DOMAIN ck : i < j => ck[i] # ck[j]
  BY ValuesFacts DEF ClustersFrom
<1>3. DOMAIN cfg.listeners = DOMAIN lk /\ DOMAIN cfg.clusters = DOMAIN ck
  BY <1>1, <1>2, ConfigDomains
<1>4. \A l : \A i \in DOMAIN values(a.listeners) :
         values(a.listeners)[i] = listener_snapshot(l) => ConfiguredAs(cfg.listeners[i], a, l)
  BY ConfigListener
<1> HIDE DEF lk, ck, cfg
<1>5. ASSUME NEW i \in DOMAIN lk
      PROVE  \E l \in OL : /\ l.name = lk[i] /\ i \in DOMAIN values(a.listeners)
                           /\ values(a.listeners)[i] = listener_snapshot(l)
  BY <1>1 DEF ListenersFrom
<1>6. \A i \in DOMAIN lk : cfg.listeners[i].name = lk[i]
  <2> TAKE i \in DOMAIN lk
  <2>1. PICK l \in OL : /\ l.name = lk[i] /\ i \in DOMAIN values(a.listeners)
                        /\ values(a.listeners)[i] = listener_snapshot(l)
    BY <1>5
  <2> QED  BY <2>1, <1>4, ZenonT(20) DEF ConfiguredAs
<1>7. Repeated(cfg.listeners) = {}
  <2> SUFFICES ASSUME NEW i \in DOMAIN cfg.listeners, NEW j \in 1..(i - 1),
                      cfg.listeners[j].name = cfg.listeners[i].name
               PROVE  FALSE
    BY DEF Repeated
  <2>1. i \in DOMAIN lk /\ j \in DOMAIN lk /\ j < i
    BY <1>1, <1>3, SortedFacts DEF lk, ListenersFrom
  <2> QED  BY <1>1, <1>6, <2>1
<1>8. Repeated(cfg.clusters) = {}
  <2> SUFFICES ASSUME NEW i \in DOMAIN cfg.clusters, NEW j \in 1..(i - 1),
                      cfg.clusters[j].name = cfg.clusters[i].name
               PROVE  FALSE
    BY DEF Repeated
  <2>1. i \in DOMAIN ck /\ j \in DOMAIN ck /\ j < i
    BY <1>2, <1>3, SortedFacts DEF ck, ClustersFrom
  <2>2. \A k \in DOMAIN ck : cfg.clusters[k].name = ck[k]
    <3> TAKE k \in DOMAIN ck
    <3>1. cfg.clusters[k].name = a.clusters[ck[k]].name
      BY <1>2, ConfigDomains DEF cfg
    <3>2. PICK c \in OC : c.name = ck[k] /\ a.clusters[ck[k]] = cluster_snapshot(c)
      BY <1>2 DEF ClustersFrom
    <3> QED  BY <3>1, <3>2 DEF cluster_snapshot
  <2> QED  BY <1>2, <2>1, <2>2
<1>9. BindConflicts(cfg.listeners) = {}
  <2>1. ASSUME NEW i \in DOMAIN lk, NEW j \in DOMAIN lk, cfg.listeners[j].bind = cfg.listeners[i].bind
        PROVE  ~ Incompatible(cfg.listeners[j], cfg.listeners[i])
    <3>1. PICK l \in OL : /\ i \in DOMAIN values(a.listeners)
                          /\ values(a.listeners)[i] = listener_snapshot(l)
      BY <1>5
    <3>2. PICK m \in OL : /\ j \in DOMAIN values(a.listeners)
                          /\ values(a.listeners)[j] = listener_snapshot(m)
      BY <1>5
    <3>3. /\ cfg.listeners[i].bind = [ip |-> "unspecified", port |-> Port(l)]
          /\ cfg.listeners[i].protocol = IF Port(l) = 443 THEN "https" ELSE "http"
          /\ cfg.listeners[i].tls_secret = None
      BY <3>1, <1>4 DEF ConfiguredAs
    <3>4. /\ cfg.listeners[j].bind = [ip |-> "unspecified", port |-> Port(m)]
          /\ cfg.listeners[j].protocol = IF Port(m) = 443 THEN "https" ELSE "http"
          /\ cfg.listeners[j].tls_secret = None
      BY <3>2, <1>4 DEF ConfiguredAs
    <3>5. Port(l) = Port(m)
      BY <2>1, <3>3, <3>4
    <3> QED  BY <3>3, <3>4, <3>5 DEF Incompatible, tls_enabled
  <2>2. ASSUME NEW i \in DOMAIN lk, Replaced(cfg.listeners, i) # 0
        PROVE  /\ Replaced(cfg.listeners, i) \in DOMAIN lk
               /\ cfg.listeners[Replaced(cfg.listeners, i)].bind = cfg.listeners[i].bind
    <3> DEFINE E == {j \in 1..(i - 1) : cfg.listeners[j].bind = cfg.listeners[i].bind}
    <3>1. E # {} /\ Replaced(cfg.listeners, i) = Max(E)
      BY <2>2 DEF Replaced
    <3>2. i - 1 \in Nat /\ \A j \in 1..(i - 1) : j \in DOMAIN lk
      BY <1>1, SortedFacts DEF lk, ListenersFrom
    <3>3. E \subseteq 1..(i - 1)
      OBVIOUS
    <3>4. Max(E) \in E
      <4> HIDE DEF E
      <4> QED  BY <3>1, <3>2, <3>3, MaxOfPositions, Zenon
    <3> QED  BY <3>1, <3>2, <3>4
  <2> QED  BY <1>3, <2>1, <2>2 DEF BindConflicts
<1>10. ASSUME NEW p \in RoutePositions(cfg) PROVE RouteAt(cfg, p).weighted_clusters # <<>>
  <2>1. PICK i \in DOMAIN cfg.listeners : \E h \in DOMAIN cfg.listeners[i].virtual_hosts :
          \E r \in DOMAIN cfg.listeners[i].virtual_hosts[h].routes : p = <<i, h, r>>
    BY DEF RoutePositions
  <2>2. PICK h \in DOMAIN cfg.listeners[i].virtual_hosts :
          \E r \in DOMAIN cfg.listeners[i].virtual_hosts[h].routes : p = <<i, h, r>>
    BY <2>1
  <2>3. PICK r \in DOMAIN cfg.listeners[i].virtual_hosts[h].routes : p = <<i, h, r>>
    BY <2>2
  <2>4. PICK l \in OL : /\ i \in DOMAIN values(a.listeners)
                        /\ values(a.listeners)[i] = listener_snapshot(l)
    BY <1>3, <1>5
  <2>5. cfg.listeners[i].virtual_hosts = listener_snapshot(l).inline_virtual_hosts
                                           \o Routed(a, listener_snapshot(l))
    BY <2>4, <1>4, ZenonT(20) DEF ConfiguredAs
  <2>6. \A k \in DOMAIN cfg.listeners[i].virtual_hosts : Directed(cfg.listeners[i].virtual_hosts[k])
    BY <2>5, RoutedDirected, Zenon
  <2> QED  BY <2>3, <2>6 DEF RouteAt, Directed
<1>11. {p \in RoutePositions(cfg) : RouteAt(cfg, p).weighted_clusters = <<>>} = {}
  BY <1>10
<1>12. ASSUME NEW c \in validate(cfg) PROVE c.kind = "missing-cluster"
  <2>1. c \in {[kind |-> "missing-cluster", at |-> d] : d \in MissingDestinations(cfg)}
    BY <1>7, <1>8, <1>9, <1>11 DEF validate
  <2> QED  BY <2>1
<1> QED  BY <1>12 DEF cfg

-----------------------------------------------------------------------------
(* What a response leaves in the maps                                      *)

\* The keys stay a finite set of names.
LEMMA InsertionDomain ==
  ASSUME NEW O, NEW rs \in Seq(O), \A r \in O : r.name \in Nat,
         NEW kept, kept \subseteq DOMAIN rs, NEW value,
         NEW m, IsFiniteSet(DOMAIN m), DOMAIN m \subseteq Nat,
         NEW p, DOMAIN p \subseteq DOMAIN m,
         NEW b, Insertion(p, b, rs, kept, value)
  PROVE  IsFiniteSet(DOMAIN b) /\ DOMAIN b \subseteq Nat
<1> DEFINE f == [i \in kept |-> rs[i].name]
           F == {f[i] : i \in kept}
<1>1. kept \subseteq 1..Len(rs) /\ Len(rs) \in Nat /\ \A i \in kept : rs[i] \in O
  OBVIOUS
<1>2. IsFiniteSet(kept)
  <2>1. IsFiniteSet(1..Len(rs))
    BY <1>1, FS_Interval
  <2> QED  BY <1>1, <2>1, FS_Subset
<1>3. DOMAIN b \subseteq DOMAIN m \cup F /\ F \subseteq Nat
  BY <1>1 DEF Insertion
<1>4. IsFiniteSet(F)
  <2> HIDE DEF f
  <2> QED  BY <1>2, FiniteImage
<1> HIDE DEF F
<1>5. IsFiniteSet(DOMAIN m \cup F)
  BY <1>4, FS_Union, Zenon
<1> QED  BY <1>3, <1>5, FS_Subset

\* apply_listeners keeps in AdsState only listeners that were offered.
LEMMA ListenersInserted ==
  ASSUME NEW O, \A r \in O : r.name \in Nat, NEW rs \in Seq(O), NEW names,
         NEW m, ListenersFrom(m, O)
  PROVE  ListenersFrom(insert_listeners(prune_requested(m, names), rs), O)
<1> DEFINE p == prune_requested(m, names)
           b == insert_listeners(p, rs)
<1>1. Insertion(p, b, rs, DOMAIN rs, ListenerValues(rs))
  BY InsertListeners
<1>2. DOMAIN p \subseteq DOMAIN m /\ \A n \in DOMAIN p : p[n] = m[n]
  BY PruneFacts
<1> HIDE DEF p, b
<1>3. IsFiniteSet(DOMAIN b) /\ DOMAIN b \subseteq Nat
  <2>1. IsFiniteSet(DOMAIN m) /\ DOMAIN m \subseteq Nat
    BY DEF ListenersFrom
  <2> QED  BY <1>1, <1>2, <2>1, InsertionDomain
<1>4. ASSUME NEW n \in DOMAIN b PROVE \E l \in O : l.name = n /\ b[n] = listener_snapshot(l)
  <2> DEFINE k == Max(Positions(rs, DOMAIN rs, n))
  <2>1. CASE k \in Positions(rs, DOMAIN rs, n) /\ b[n] = ListenerValues(rs)[k]
    <3> HIDE DEF k
    <3>1. k \in DOMAIN rs /\ rs[k] \in O /\ rs[k].name = n /\ b[n] = listener_snapshot(rs[k])
      BY <2>1 DEF Positions, ListenerValues
    <3> QED  BY <3>1
  <2>2. CASE n \in DOMAIN p /\ b[n] = p[n]
    BY <1>2, <2>2 DEF ListenersFrom
  <2> QED  BY <1>1, <2>1, <2>2 DEF Insertion
<1> QED  BY <1>3, <1>4 DEF ListenersFrom, p, b

\* The same for apply_routes.
LEMMA RoutesInserted ==
  ASSUME NEW O, NEW rs \in Seq(O), NEW names, NEW m, RoutesFrom(m, O)
  PROVE  RoutesFrom(insert_routes(prune_requested(m, names), rs), O)
<1> DEFINE p == prune_requested(m, names)
           b == insert_routes(p, rs)
<1>1. Insertion(p, b, rs, DOMAIN rs, RouteValues(rs))
  BY InsertRoutes
<1>2. DOMAIN p \subseteq DOMAIN m /\ \A n \in DOMAIN p : p[n] = m[n]
  BY PruneFacts
<1> HIDE DEF p, b
<1>3. ASSUME NEW n \in DOMAIN b
      PROVE  \E r \in O : r.name = n /\ b[n] = convert_virtual_hosts(r.virtual_hosts)
  <2> DEFINE k == Max(Positions(rs, DOMAIN rs, n))
  <2>1. CASE k \in Positions(rs, DOMAIN rs, n) /\ b[n] = RouteValues(rs)[k]
    <3> HIDE DEF k
    <3>1. k \in DOMAIN rs /\ rs[k] \in O /\ rs[k].name = n
          /\ b[n] = convert_virtual_hosts(rs[k].virtual_hosts)
      BY <2>1 DEF Positions, RouteValues
    <3> QED  BY <3>1
  <2>2. CASE n \in DOMAIN p /\ b[n] = p[n]
    BY <1>2, <2>2 DEF RoutesFrom
  <2> QED  BY <1>1, <2>1, <2>2 DEF Insertion
<1> QED  BY <1>3 DEF RoutesFrom, p, b

\* The same for apply_clusters.
LEMMA ClustersInserted ==
  ASSUME NEW O, \A r \in O : r.name \in Nat, NEW rs \in Seq(O), NEW names,
         NEW m, ClustersFrom(m, O)
  PROVE  ClustersFrom(insert_clusters(prune_requested(m, names), rs), O)
<1> DEFINE p == prune_requested(m, names)
           b == insert_clusters(p, rs)
           K == Named(rs)
<1>1. Insertion(p, b, rs, K, ClusterValues(rs)) /\ K \subseteq DOMAIN rs
  BY InsertClusters DEF Named
<1>2. DOMAIN p \subseteq DOMAIN m /\ \A n \in DOMAIN p : p[n] = m[n]
  BY PruneFacts
<1> HIDE DEF p, b, K
<1>3. IsFiniteSet(DOMAIN b) /\ DOMAIN b \subseteq Nat
  <2>1. IsFiniteSet(DOMAIN m) /\ DOMAIN m \subseteq Nat
    BY DEF ClustersFrom
  <2> QED  BY <1>1, <1>2, <2>1, InsertionDomain
<1>4. ASSUME NEW n \in DOMAIN b PROVE \E c \in O : c.name = n /\ b[n] = cluster_snapshot(c)
  <2> DEFINE k == Max(Positions(rs, K, n))
  <2>1. CASE k \in Positions(rs, K, n) /\ b[n] = ClusterValues(rs)[k]
    <3> HIDE DEF k
    <3>1. k \in DOMAIN rs /\ rs[k] \in O /\ rs[k].name = n /\ b[n] = cluster_snapshot(rs[k])
      BY <1>1, <2>1 DEF Positions, ClusterValues
    <3> QED  BY <3>1
  <2>2. CASE n \in DOMAIN p /\ b[n] = p[n]
    BY <1>2, <2>2 DEF ClustersFrom
  <2> QED  BY <1>1, <2>1, <2>2 DEF Insertion
<1> QED  BY <1>3, <1>4 DEF ClustersFrom, p, b

-----------------------------------------------------------------------------
(* AdsState and its configuration as values                                *)

\* A BTreeMap is a function on its keys.
IsMap(m) == m = [n \in DOMAIN m |-> m[n]]

\* What an insertion leaves is a map again.
LEMMA InsertedMaps ==
  ASSUME NEW a, NEW rs
  PROVE  /\ IsMap(EmptyMap)
         /\ IsMap(insert_listeners(a, rs)) /\ IsMap(insert_routes(a, rs))
         /\ IsMap(insert_clusters(a, rs)) /\ IsMap(insert_assigned(a, rs))
         /\ IsMap(insert_endpoints(a, rs))
<1>1. IsMap(EmptyMap)
  BY DEF IsMap, EmptyMap
<1>2. IsMap(insert_listeners(a, rs))
  BY DEF IsMap, insert_listeners, Inserted
<1>3. IsMap(insert_routes(a, rs))
  BY DEF IsMap, insert_routes, Inserted
<1>4. IsMap(insert_clusters(a, rs))
  BY DEF IsMap, insert_clusters, Inserted
<1>5. IsMap(insert_assigned(a, rs))
  BY DEF IsMap, insert_assigned, Inserted
<1>6. IsMap(insert_endpoints(a, rs))
  BY DEF IsMap, insert_endpoints, Inserted
<1> QED  BY <1>1, <1>2, <1>3, <1>4, <1>5, <1>6

\* A listener and a cluster of the configuration.
ConfiguredListener(a, s) ==
  [s.listener EXCEPT !.virtual_hosts = s.inline_virtual_hosts \o Routed(a, s)]
ConfiguredCluster(a, c) ==
  [name |-> c.name,
   endpoints |-> IF c.eds_service_name \in DOMAIN a.endpoints THEN a.endpoints[c.eds_service_name] ELSE <<>>,
   tls |-> c.tls]

\* The configuration, part by part.
LEMMA ConfigParts ==
  ASSUME NEW a, NEW v
  PROVE  runtime_config(a, v) =
           [version |-> IF v = "" THEN "ads" ELSE v,
            listeners |-> [i \in DOMAIN values(a.listeners) |->
                             ConfiguredListener(a, values(a.listeners)[i])],
            clusters |-> [i \in DOMAIN values(a.clusters) |->
                            ConfiguredCluster(a, values(a.clusters)[i])]]
BY DEF runtime_config, ConfiguredListener, ConfiguredCluster, Routed, filter_map

\* The configuration depends on the resources alone, not on the subscriptions.
LEMMA ConfigOfResources ==
  ASSUME NEW a, NEW b, NEW v,
         a.listeners = b.listeners, a.routes = b.routes, a.clusters = b.clusters,
         a.endpoints = b.endpoints
  PROVE  runtime_config(a, v) = runtime_config(b, v)
<1>1. ASSUME NEW s PROVE Routed(a, s) = Routed(b, s)
  <2> DEFINE names == sorted_unique(s.route_names)
             f == [k \in DOMAIN names |-> IF names[k] \in DOMAIN a.routes THEN a.routes[names[k]] ELSE <<>>]
             g == [k \in DOMAIN names |-> IF names[k] \in DOMAIN b.routes THEN b.routes[names[k]] ELSE <<>>]
  <2>1. f = g
    OBVIOUS
  <2>2. Routed(a, s) = flatten(f) /\ Routed(b, s) = flatten(g)
    BY DEF Routed
  <2> QED  BY <2>1, <2>2
<1>2. ASSUME NEW s PROVE ConfiguredListener(a, s) = ConfiguredListener(b, s)
  BY <1>1, Zenon DEF ConfiguredListener
<1>3. ASSUME NEW c PROVE ConfiguredCluster(a, c) = ConfiguredCluster(b, c)
  BY DEF ConfiguredCluster
<1> DEFINE la == [i \in DOMAIN values(a.listeners) |-> ConfiguredListener(a, values(a.listeners)[i])]
           lb == [i \in DOMAIN values(b.listeners) |-> ConfiguredListener(b, values(b.listeners)[i])]
           ca == [i \in DOMAIN values(a.clusters) |-> ConfiguredCluster(a, values(a.clusters)[i])]
           cb == [i \in DOMAIN values(b.clusters) |-> ConfiguredCluster(b, values(b.clusters)[i])]
           version == IF v = "" THEN "ads" ELSE v
<1>4. la = lb /\ ca = cb
  BY <1>2, <1>3
<1>5. /\ runtime_config(a, v) = [version |-> version, listeners |-> la, clusters |-> ca]
      /\ runtime_config(b, v) = [version |-> version, listeners |-> lb, clusters |-> cb]
  BY ConfigParts, Zenon
<1> HIDE DEF la, lb, ca, cb, version
<1> QED  BY <1>4, <1>5

\* The listeners of a configuration depend on the listeners and on the routes that
\* these name.
LEMMA ConfigListenersSame ==
  ASSUME NEW a, NEW b, NEW v, NEW w, NEW O, ListenersFrom(a.listeners, O),
         \A l \in O : WellFormed("listener", l),
         DOMAIN a.listeners = DOMAIN b.listeners,
         \A n \in DOMAIN a.listeners : a.listeners[n] = b.listeners[n],
         \A n \in route_names(a) : SameAt(a.routes, b.routes, n)
  PROVE  runtime_config(a, v).listeners = runtime_config(b, w).listeners
<1> DEFINE ks == sorted_unique(DOMAIN a.listeners)
           va == values(a.listeners)
           vb == values(b.listeners)
<1>1. /\ DOMAIN va = DOMAIN ks
      /\ \A i \in DOMAIN ks : ks[i] \in DOMAIN a.listeners /\ va[i] = a.listeners[ks[i]]
  BY ValuesFacts DEF ListenersFrom
<1>2. IsFiniteSet(DOMAIN b.listeners) /\ DOMAIN b.listeners \subseteq Nat
  BY DEF ListenersFrom
<1>3. DOMAIN vb = DOMAIN ks /\ \A i \in DOMAIN ks : vb[i] = b.listeners[ks[i]]
  BY <1>2, ValuesFacts
<1> HIDE DEF ks, va, vb
<1>4. ASSUME NEW i \in DOMAIN ks
      PROVE  ConfiguredListener(a, va[i]) = ConfiguredListener(b, vb[i])
  <2>1. PICK l \in O : va[i] = listener_snapshot(l)
    BY <1>1 DEF ListenersFrom
  <2> DEFINE s == va[i]
             names == sorted_unique(s.route_names)
             f == [k \in DOMAIN names |-> IF names[k] \in DOMAIN a.routes THEN a.routes[names[k]] ELSE <<>>]
             g == [k \in DOMAIN names |-> IF names[k] \in DOMAIN b.routes THEN b.routes[names[k]] ELSE <<>>]
  <2>2. vb[i] = s
    BY <1>1, <1>3
  <2>3. s.route_names \subseteq route_names(a)
    BY <1>1 DEF route_names
  <2>4. \A k \in DOMAIN names : names[k] \in s.route_names
    BY <2>1, RouteNamesFinite, SortedFacts
  <2>5. \A k \in DOMAIN names : SameAt(a.routes, b.routes, names[k])
    BY <2>3, <2>4
  <2>6. Routed(a, s) = flatten(f) /\ Routed(b, s) = flatten(g)
    BY DEF Routed
  <2> HIDE DEF s, names
  <2>7. f = g
    BY <2>5 DEF SameAt
  <2> HIDE DEF f, g
  <2>8. Routed(a, s) = Routed(b, s)
    BY <2>6, <2>7
  <2> QED  BY <2>2, <2>8 DEF ConfiguredListener, s
<1> DEFINE la == [i \in DOMAIN va |-> ConfiguredListener(a, va[i])]
           lb == [i \in DOMAIN vb |-> ConfiguredListener(b, vb[i])]
<1>5. la = lb
  BY <1>1, <1>3, <1>4
<1>6. runtime_config(a, v).listeners = la /\ runtime_config(b, w).listeners = lb
  BY ConfigParts, Zenon DEF va, vb
<1> QED  BY <1>5, <1>6

\* cs are the clusters of AdsState, under their names.
ClustersOf(cs, a) ==
  /\ \A i \in DOMAIN cs : \E n \in DOMAIN a.clusters :
       cs[i].name = n /\ cs[i] = ConfiguredCluster(a, a.clusters[n])
  /\ \A n \in DOMAIN a.clusters : \E i \in DOMAIN cs :
       cs[i].name = n /\ cs[i] = ConfiguredCluster(a, a.clusters[n])

\* Those of a configuration are.
LEMMA ConfigClusters ==
  ASSUME NEW a, NEW v, NEW O, ClustersFrom(a.clusters, O)
  PROVE  ClustersOf(runtime_config(a, v).clusters, a)
<1> DEFINE ks == sorted_unique(DOMAIN a.clusters)
           vs == values(a.clusters)
           cs == runtime_config(a, v).clusters
<1>1. /\ DOMAIN vs = DOMAIN ks
      /\ \A i \in DOMAIN ks : ks[i] \in DOMAIN a.clusters /\ vs[i] = a.clusters[ks[i]]
  BY ValuesFacts DEF ClustersFrom
<1>2. \A n \in DOMAIN a.clusters : \E i \in DOMAIN ks : ks[i] = n
  BY SortedFacts DEF ClustersFrom
<1>3. DOMAIN cs = DOMAIN vs /\ \A i \in DOMAIN vs : cs[i] = ConfiguredCluster(a, vs[i])
  BY ConfigParts, Zenon
<1>4. ASSUME NEW n \in DOMAIN a.clusters PROVE ConfiguredCluster(a, a.clusters[n]).name = n
  <2>1. PICK c \in O : c.name = n /\ a.clusters[n] = cluster_snapshot(c)
    BY DEF ClustersFrom
  <2>2. a.clusters[n].name = n
    BY <2>1 DEF cluster_snapshot
  <2> QED  BY <2>2 DEF ConfiguredCluster
<1> HIDE DEF ks, vs, cs
<1>5. \A i \in DOMAIN cs : /\ ks[i] \in DOMAIN a.clusters /\ cs[i].name = ks[i]
                           /\ cs[i] = ConfiguredCluster(a, a.clusters[ks[i]])
  BY <1>1, <1>3, <1>4
<1>6. \A n \in DOMAIN a.clusters : \E i \in DOMAIN cs :
        cs[i].name = n /\ cs[i] = ConfiguredCluster(a, a.clusters[n])
  BY <1>1, <1>2, <1>3, <1>5
<1>7. ClustersOf(cs, a)
  BY <1>5, <1>6 DEF ClustersOf
<1> QED  BY <1>7 DEF cs

\* A configuration that could only lack clusters is valid if it lacks none.
LEMMA ValidIfComplete ==
  ASSUME NEW cfg, \A c \in validate(cfg) : c.kind = "missing-cluster",
         \A l \in DOMAIN cfg.listeners :
           VirtualHostClusters(cfg.listeners[l].virtual_hosts) \subseteq ClusterNames(cfg)
  PROVE  Valid(cfg)
<1>1. MissingDestinations(cfg) = {}
  <2> SUFFICES ASSUME NEW p \in RoutePositions(cfg), NEW d \in DOMAIN RouteAt(cfg, p).weighted_clusters
               PROVE  RouteAt(cfg, p).weighted_clusters[d].name \in ClusterNames(cfg)
    BY DEF MissingDestinations
  <2>1. PICK l \in DOMAIN cfg.listeners : \E h \in DOMAIN cfg.listeners[l].virtual_hosts :
          \E r \in DOMAIN cfg.listeners[l].virtual_hosts[h].routes : p = <<l, h, r>>
    BY DEF RoutePositions
  <2>2. PICK h \in DOMAIN cfg.listeners[l].virtual_hosts :
          \E r \in DOMAIN cfg.listeners[l].virtual_hosts[h].routes : p = <<l, h, r>>
    BY <2>1
  <2>3. PICK r \in DOMAIN cfg.listeners[l].virtual_hosts[h].routes : p = <<l, h, r>>
    BY <2>2
  <2> DEFINE vhosts == cfg.listeners[l].virtual_hosts
  <2>4. RouteAt(cfg, p) = vhosts[h].routes[r]
    BY <2>3 DEF RouteAt
  <2> DEFINE to(k, q) == {vhosts[k].routes[q].weighted_clusters[e].name
                          : e \in DOMAIN vhosts[k].routes[q].weighted_clusters}
             of(k) == UNION {to(k, q) : q \in DOMAIN vhosts[k].routes}
  <2>5. VirtualHostClusters(vhosts) = UNION {of(k) : k \in DOMAIN vhosts}
    BY ZenonT(20) DEF VirtualHostClusters
  <2>6. RouteAt(cfg, p).weighted_clusters[d].name \in to(h, r)
    BY <2>4, ZenonT(20)
  <2>7. to(h, r) \subseteq of(h)
    BY Zenon
  <2> HIDE DEF of
  <2>8. of(h) \subseteq VirtualHostClusters(vhosts)
    BY <2>5
  <2> QED  BY <2>6, <2>7, <2>8, Zenon
<1>2. ASSUME NEW c \in validate(cfg) PROVE FALSE
  <2>1. c.kind = "missing-cluster"
    OBVIOUS
  <2>2. \/ \E i \in Repeated(cfg.listeners) : c = [kind |-> "duplicate-listener", at |-> i]
        \/ \E i \in BindConflicts(cfg.listeners) : c = [kind |-> "listener-bind-conflict", at |-> i]
        \/ \E i \in Repeated(cfg.clusters) : c = [kind |-> "duplicate-cluster", at |-> i]
        \/ \E p : c = [kind |-> "empty-route-destination", at |-> p]
    BY <1>1 DEF validate
  <2> QED  BY <2>1, <2>2
<1> QED  BY <1>2 DEF Valid

-----------------------------------------------------------------------------
(* A response with everything subscribed                                   *)

\* The resources a subscription selects, by position, and their positions among
\* those selected.
Chosen(rs, names) == {i \in DOMAIN rs : names = {} \/ rs[i].name \in names}
Among(K, kept) == {i \in DOMAIN sorted_unique(K) : sorted_unique(K)[i] \in kept}

\* The last resource of a name is still the last of that name among those selected.
LEMMA LastInOrder ==
  ASSUME NEW O, NEW rs \in Seq(O), NEW K, K \subseteq DOMAIN rs,
         NEW kept, kept \subseteq DOMAIN rs, NEW n, \A i \in kept : rs[i].name = n => i \in K
  PROVE  LET P == Positions(rs, kept, n)
             R == Positions(InOrder(rs, K), Among(K, kept), n)
         IN  /\ P = {} <=> R = {}
             /\ R # {} => /\ Max(R) \in R /\ Max(R) \in DOMAIN InOrder(rs, K)
                          /\ Max(P) \in P /\ sorted_unique(K)[Max(R)] = Max(P)
<1> DEFINE s == sorted_unique(K)
           q == InOrder(rs, K)
           P == Positions(rs, kept, n)
           R == Positions(q, Among(K, kept), n)
           N == Cardinality(K)
<1>1. DOMAIN rs = 1..Len(rs) /\ Len(rs) \in Nat
  OBVIOUS
<1>2. K \subseteq Nat /\ IsFiniteSet(K)
  <2>1. IsFiniteSet(1..Len(rs))
    BY <1>1, FS_Interval
  <2> QED  BY <1>1, <2>1, FS_Subset
<1>3. /\ N \in Nat /\ DOMAIN s = 1..N
      /\ \A i \in DOMAIN s : s[i] \in K
      /\ \A i, j \in DOMAIN s : i < j => s[i] < s[j]
      /\ \A k \in K : \E i \in DOMAIN s : s[i] = k
  BY <1>2, SortedFacts
<1>4. DOMAIN q = DOMAIN s /\ \A i \in DOMAIN s : q[i] = rs[s[i]]
  BY DEF InOrder
<1> HIDE DEF s, q, N
<1>5. R = {i \in DOMAIN s : s[i] \in P}
  BY <1>4 DEF Positions, Among, s
<1>6. P \subseteq K
  BY DEF Positions
<1>7. P \subseteq 1..Len(rs) /\ R \subseteq 1..N
  BY <1>1, <1>3, <1>5 DEF Positions
<1> HIDE DEF P, R
<1>8. P = {} <=> R = {}
  BY <1>3, <1>5, <1>6
<1>9. ASSUME R # {}
      PROVE  Max(R) \in R /\ Max(R) \in DOMAIN q /\ Max(P) \in P /\ s[Max(R)] = Max(P)
  <2>1. Max(R) \in R /\ \A i \in R : i <= Max(R)
    BY <1>3, <1>7, <1>9, MaxOfPositions, Zenon
  <2>2. Max(P) \in P /\ \A i \in P : i <= Max(P)
    BY <1>1, <1>7, <1>8, <1>9, MaxOfPositions, Zenon
  <2>3. PICK j \in R : s[j] = Max(P)
    BY <1>3, <1>5, <1>6, <2>2
  <2>4. s[Max(R)] \in P /\ s[Max(R)] <= Max(P)
    BY <1>5, <2>1, <2>2
  <2>5. ~ (j < Max(R))
    <3> SUFFICES ASSUME j < Max(R) PROVE FALSE
      OBVIOUS
    <3>1. s[j] < s[Max(R)]
      BY <1>3, <1>5, <2>1
    <3>2. \A i \in P : i \in Nat
      BY <1>1, <1>7
    <3>3. s[Max(R)] \in Nat /\ Max(P) \in Nat
      BY <2>2, <2>4, <3>2
    <3> QED  BY <2>3, <2>4, <3>1, <3>3
  <2>6. j = Max(R)
    <3>1. \A i \in R : i \in Nat
      BY <1>3, <1>7
    <3>2. j \in Nat /\ Max(R) \in Nat /\ j <= Max(R)
      BY <2>1, <3>1
    <3> QED  BY <2>5, <3>2
  <2> QED  BY <1>4, <1>5, <2>1, <2>2, <2>3, <2>6
<1> QED  BY <1>8, <1>9 DEF P, R, s, q

\* What f and g have under a name is the same.
\* b is what inserting the selected resources, of values w, makes of a pruned map,
\* and g what all resources, of values v, make of an empty one.
BothInserted(rs, names, kept, m, v, w, b, g) ==
  LET K == Chosen(rs, names)
      q == InOrder(rs, K)
  IN  /\ kept \subseteq DOMAIN rs
      /\ \A i \in DOMAIN q : w[i] = v[sorted_unique(K)[i]]
      /\ Insertion(prune_requested(m, names), b, q, Among(K, kept), w)
      /\ Insertion(EmptyMap, g, rs, kept, v)

\* A map that a response with everything subscribed was inserted in agrees, on a
\* name subscribed, with the one all the resources would make.
LEMMA SameInsertion ==
  ASSUME NEW O, NEW rs \in Seq(O), NEW names, NEW n, names = {} \/ n \in names,
         NEW kept, NEW m, NEW v, NEW w, NEW b, NEW g,
         BothInserted(rs, names, kept, m, v, w, b, g)
  PROVE  SameAt(b, g, n)
<1> DEFINE K == Chosen(rs, names)
           q == InOrder(rs, K)
           A == Among(K, kept)
           P == Positions(rs, kept, n)
           R == Positions(q, A, n)
           p == prune_requested(m, names)
<1>0. /\ kept \subseteq DOMAIN rs
      /\ \A i \in DOMAIN q : w[i] = v[sorted_unique(K)[i]]
      /\ Insertion(p, b, q, A, w)
      /\ Insertion(EmptyMap, g, rs, kept, v)
  BY DEF BothInserted
<1>1. /\ P = {} <=> R = {}
      /\ R # {} => /\ Max(R) \in R /\ Max(R) \in DOMAIN q
                   /\ Max(P) \in P /\ sorted_unique(K)[Max(R)] = Max(P)
  <2>1. K \subseteq DOMAIN rs /\ \A i \in kept : rs[i].name = n => i \in K
    BY <1>0 DEF Chosen
  <2> HIDE DEF K
  <2> QED  BY <1>0, <2>1, LastInOrder
<1>2. n \notin DOMAIN p /\ n \notin DOMAIN EmptyMap
  BY PruneFacts DEF EmptyMap
<1>3. n \in DOMAIN b <=> R # {}
  <2>1. n \in {q[i].name : i \in A} <=> R # {}
    BY DEF Positions
  <2>2. DOMAIN b = DOMAIN p \cup {q[i].name : i \in A}
    BY <1>0 DEF Insertion
  <2> HIDE DEF q, A, R, p
  <2> QED  BY <1>2, <2>1, <2>2
<1>4. n \in DOMAIN g <=> P # {}
  <2>1. n \in {rs[i].name : i \in kept} <=> P # {}
    BY DEF Positions
  <2>2. DOMAIN g = DOMAIN EmptyMap \cup {rs[i].name : i \in kept}
    BY <1>0 DEF Insertion
  <2> QED  BY <1>2, <2>1, <2>2
<1>5. n \in DOMAIN b => b[n] = w[Max(R)]
  BY <1>0, <1>2 DEF Insertion
<1>6. n \in DOMAIN g => g[n] = v[Max(P)]
  BY <1>0, <1>2 DEF Insertion
<1> HIDE DEF K, q, A, P, R, p
<1> QED  BY <1>0, <1>1, <1>3, <1>4, <1>5, <1>6 DEF SameAt

\* The same, type by type.
LEMMA SameListeners ==
  ASSUME NEW O, NEW rs \in Seq(O), NEW names, NEW n, names = {} \/ n \in names, NEW m
  PROVE  SameAt(insert_listeners(prune_requested(m, names), InOrder(rs, Chosen(rs, names))),
                insert_listeners(EmptyMap, rs), n)
<1> DEFINE K == Chosen(rs, names)
           q == InOrder(rs, K)
<1>1. /\ q \in Seq(O) /\ DOMAIN q = DOMAIN sorted_unique(K)
      /\ \A i \in DOMAIN q : sorted_unique(K)[i] \in K /\ q[i] = rs[sorted_unique(K)[i]]
      /\ K \subseteq DOMAIN rs
  BY InOrderFacts DEF Chosen
<1>2. K = Chosen(rs, names) /\ q = InOrder(rs, Chosen(rs, names))
  OBVIOUS
<1> HIDE DEF K, q
<1>3. DOMAIN q = Among(K, DOMAIN rs)
  BY <1>1, Zenon DEF Among
<1>4. \A i \in DOMAIN q : ListenerValues(q)[i] = ListenerValues(rs)[sorted_unique(K)[i]]
  BY <1>1 DEF ListenerValues
<1>5. /\ Insertion(EmptyMap, insert_listeners(EmptyMap, rs), rs, DOMAIN rs, ListenerValues(rs))
      /\ Insertion(prune_requested(m, names), insert_listeners(prune_requested(m, names), q), q,
                   Among(K, DOMAIN rs), ListenerValues(q))
  BY <1>1, <1>3, InsertListeners
<1>6. BothInserted(rs, names, DOMAIN rs, m, ListenerValues(rs), ListenerValues(q),
                   insert_listeners(prune_requested(m, names), q), insert_listeners(EmptyMap, rs))
  BY <1>1, <1>2, <1>4, <1>5 DEF BothInserted
<1>7. SameAt(insert_listeners(prune_requested(m, names), q), insert_listeners(EmptyMap, rs), n)
  BY <1>6, SameInsertion
<1> QED  BY <1>2, <1>7

\* A response with what is subscribed leaves the route configuration of a
\* subscribed name as if all resources were inserted in an empty AdsState.
LEMMA SameRoutes ==
  ASSUME NEW O, NEW rs \in Seq(O), NEW names, NEW n, names = {} \/ n \in names, NEW m
  PROVE  SameAt(insert_routes(prune_requested(m, names), InOrder(rs, Chosen(rs, names))),
                insert_routes(EmptyMap, rs), n)
<1> DEFINE K == Chosen(rs, names)
           q == InOrder(rs, K)
<1>1. /\ q \in Seq(O) /\ DOMAIN q = DOMAIN sorted_unique(K)
      /\ \A i \in DOMAIN q : sorted_unique(K)[i] \in K /\ q[i] = rs[sorted_unique(K)[i]]
      /\ K \subseteq DOMAIN rs
  BY InOrderFacts DEF Chosen
<1>2. K = Chosen(rs, names) /\ q = InOrder(rs, Chosen(rs, names))
  OBVIOUS
<1> HIDE DEF K, q
<1>3. DOMAIN q = Among(K, DOMAIN rs)
  BY <1>1, Zenon DEF Among
<1>4. \A i \in DOMAIN q : RouteValues(q)[i] = RouteValues(rs)[sorted_unique(K)[i]]
  BY <1>1 DEF RouteValues
<1>5. /\ Insertion(EmptyMap, insert_routes(EmptyMap, rs), rs, DOMAIN rs, RouteValues(rs))
      /\ Insertion(prune_requested(m, names), insert_routes(prune_requested(m, names), q), q,
                   Among(K, DOMAIN rs), RouteValues(q))
  BY <1>1, <1>3, InsertRoutes
<1>6. BothInserted(rs, names, DOMAIN rs, m, RouteValues(rs), RouteValues(q),
                   insert_routes(prune_requested(m, names), q), insert_routes(EmptyMap, rs))
  BY <1>1, <1>2, <1>4, <1>5 DEF BothInserted
<1>7. SameAt(insert_routes(prune_requested(m, names), q), insert_routes(EmptyMap, rs), n)
  BY <1>6, SameInsertion
<1> QED  BY <1>2, <1>7

\* The same for clusters.
LEMMA SameClusters ==
  ASSUME NEW O, NEW rs \in Seq(O), NEW names, NEW n, names = {} \/ n \in names, NEW m
  PROVE  SameAt(insert_clusters(prune_requested(m, names), InOrder(rs, Chosen(rs, names))),
                insert_clusters(EmptyMap, rs), n)
<1> DEFINE K == Chosen(rs, names)
           q == InOrder(rs, K)
<1>1. /\ q \in Seq(O) /\ DOMAIN q = DOMAIN sorted_unique(K)
      /\ \A i \in DOMAIN q : sorted_unique(K)[i] \in K /\ q[i] = rs[sorted_unique(K)[i]]
      /\ K \subseteq DOMAIN rs /\ Named(rs) \subseteq DOMAIN rs
  BY InOrderFacts DEF Chosen, Named
<1>2. K = Chosen(rs, names) /\ q = InOrder(rs, Chosen(rs, names))
  OBVIOUS
<1> HIDE DEF K, q
<1>3. Named(q) = Among(K, Named(rs))
  BY <1>1 DEF Among, Named
<1>4. \A i \in DOMAIN q : ClusterValues(q)[i] = ClusterValues(rs)[sorted_unique(K)[i]]
  BY <1>1 DEF ClusterValues
<1>5. /\ Insertion(EmptyMap, insert_clusters(EmptyMap, rs), rs, Named(rs), ClusterValues(rs))
      /\ Insertion(prune_requested(m, names), insert_clusters(prune_requested(m, names), q), q,
                   Among(K, Named(rs)), ClusterValues(q))
  BY <1>1, <1>3, InsertClusters
<1>6. BothInserted(rs, names, Named(rs), m, ClusterValues(rs), ClusterValues(q),
                   insert_clusters(prune_requested(m, names), q), insert_clusters(EmptyMap, rs))
  BY <1>1, <1>2, <1>4, <1>5 DEF BothInserted
<1>7. SameAt(insert_clusters(prune_requested(m, names), q), insert_clusters(EmptyMap, rs), n)
  BY <1>6, SameInsertion
<1> QED  BY <1>2, <1>7

\* The same for load assignments.
LEMMA SameEndpoints ==
  ASSUME NEW O, NEW rs \in Seq(O), NEW names, NEW n, names = {} \/ n \in names, NEW m
  PROVE  SameAt(insert_endpoints(prune_requested(m, names), InOrder(rs, Chosen(rs, names))),
                insert_endpoints(EmptyMap, rs), n)
<1> DEFINE K == Chosen(rs, names)
           q == InOrder(rs, K)
<1>1. /\ q \in Seq(O) /\ DOMAIN q = DOMAIN sorted_unique(K)
      /\ \A i \in DOMAIN q : sorted_unique(K)[i] \in K /\ q[i] = rs[sorted_unique(K)[i]]
      /\ K \subseteq DOMAIN rs /\ Named(rs) \subseteq DOMAIN rs
  BY InOrderFacts DEF Chosen, Named
<1>2. K = Chosen(rs, names) /\ q = InOrder(rs, Chosen(rs, names))
  OBVIOUS
<1> HIDE DEF K, q
<1>3. Named(q) = Among(K, Named(rs))
  BY <1>1 DEF Among, Named
<1>4. \A i \in DOMAIN q : EndpointValues(q)[i] = EndpointValues(rs)[sorted_unique(K)[i]]
  BY <1>1 DEF EndpointValues
<1>5. /\ Insertion(EmptyMap, insert_endpoints(EmptyMap, rs), rs, Named(rs), EndpointValues(rs))
      /\ Insertion(prune_requested(m, names), insert_endpoints(prune_requested(m, names), q), q,
                   Among(K, Named(rs)), EndpointValues(q))
  BY <1>1, <1>3, InsertEndpoints
<1>6. BothInserted(rs, names, Named(rs), m, EndpointValues(rs), EndpointValues(q),
                   insert_endpoints(prune_requested(m, names), q), insert_endpoints(EmptyMap, rs))
  BY <1>1, <1>2, <1>4, <1>5 DEF BothInserted
<1>7. SameAt(insert_endpoints(prune_requested(m, names), q), insert_endpoints(EmptyMap, rs), n)
  BY <1>6, SameInsertion
<1> QED  BY <1>2, <1>7

==============================================================================
