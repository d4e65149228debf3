---------------------------- MODULE ForwardProofs ----------------------------
(***************************************************************************)
(* Theorems of modules Picker and Forward: for any number of concurrent    *)
(* requests, any valid configurations, weights, endpoints and widths of    *)
(* the arithmetic.                                                         *)
(*                                                                         *)
(* First what the picker's loops compute.  The two loops are recursive     *)
(* functions: that such a function satisfies its own equation, and what    *)
(* its values are, is shown by a least counterexample among the naturals   *)
(* (lemma Least).  Then what the proofs about forward rest on: the key of  *)
(* the client cache determines the client where no name in it contains the *)
(* separator, and lookups in a valid configuration find what they look     *)
(* for.  Then the inductive invariant, the steps and the theorems.         *)
(***************************************************************************)
EXTENDS Forward, SequenceTheorems, WellFoundedInduction, NaturalsInduction, TLAPS

-----------------------------------------------------------------------------
(* Naturals and loops                                                      *)

\* A non-empty set of naturals has a least element.
LEMMA Least ==
  ASSUME NEW S, S \subseteq Nat, S # {}
  PROVE  \E x \in S : \A y \in S : x <= y
<1> DEFINE R == OpToRel(<, Nat)
<1>1. IsWellFoundedOn(R, Nat)
  BY NatLessThanWellFounded
<1> HIDE DEF R
<1>2. PICK x \in S : \A y \in S : ~ (<<y, x>> \in R)
  BY <1>1, WFMin
<1>3. \A y \in S : ~ (y < x)
  BY <1>2 DEF R, OpToRel
<1> QED
  BY <1>3

\* Min picks it.
LEMMA MinOfNaturals ==
  ASSUME NEW S, S \subseteq Nat, S # {}
  PROVE  Min(S) \in S /\ \A y \in S : Min(S) <= y
BY Least DEF Min

\* The intermediate values of a loop that carries a value of S through n
\* iterations, the i-th of which applies step[i].
Runs(S, n, base, step) ==
  \E f \in [0..n -> S] : f[0] = base /\ \A i \in 1..n : f[i] = step[i][f[i - 1]]

\* Every such loop has them.
LEMMA Iteration ==
  ASSUME NEW S, NEW n \in Nat, NEW base \in S, NEW step \in [1..n -> [S -> S]]
  PROVE  Runs(S, n, base, step)
<1> DEFINE Upto(m) == \E f \in [0..m -> S] :
                        f[0] = base /\ \A i \in 1..m : f[i] = step[i][f[i - 1]]
           Bad == {m \in 0..n : ~ Upto(m)}
<1>1. Bad = {}
  <2> SUFFICES ASSUME Bad # {} PROVE FALSE
    OBVIOUS
  <2>1. PICK m \in Bad : \A k \in Bad : m <= k
    <3> HIDE DEF Upto
    <3>1. Bad \subseteq Nat
      OBVIOUS
    <3> HIDE DEF Bad
    <3> QED
      BY <3>1, Least
  <2>2. CASE m = 0
    <3> DEFINE f == [i \in 0..0 |-> base]
    <3>1. f \in [0..0 -> S] /\ f[0] = base /\ 1..0 = {}
      OBVIOUS
    <3> HIDE DEF f
    <3>2. \A i \in 1..0 : f[i] = step[i][f[i - 1]]
      BY <3>1
    <3>3. Upto(0)
      BY <3>1, <3>2
    <3> QED
      BY <2>2, <3>3
  <2>3. CASE m # 0
    <3>1. m - 1 \in 0..n /\ Upto(m - 1) /\ m \in 1..n
      <4> HIDE DEF Upto
      <4> QED
        BY <2>1, <2>3
    <3>2. PICK f \in [0..(m - 1) -> S] :
            f[0] = base /\ \A i \in 1..(m - 1) : f[i] = step[i][f[i - 1]]
      BY <3>1
    <3> DEFINE g == [i \in 0..m |-> IF i = m THEN step[m][f[m - 1]] ELSE f[i]]
    <3>3. step[m][f[m - 1]] \in S
      BY <3>1, <3>2
    <3>4. g \in [0..m -> S] /\ g[0] = base
      BY <2>3, <3>1, <3>2, <3>3
    <3>5. ASSUME NEW i \in 1..m
          PROVE  g[i] = step[i][g[i - 1]]
      <4>1. CASE i = m
        BY <3>1, <4>1
      <4>2. CASE i # m
        <5>1. i \in 1..(m - 1) /\ i - 1 \in 0..(m - 1) /\ i - 1 # m
          BY <4>2, <3>1
        <5>2. g[i] = f[i] /\ g[i - 1] = f[i - 1]
          BY <4>2, <5>1
        <5> QED
          BY <3>2, <5>1, <5>2
      <4> QED
        BY <4>1, <4>2
    <3>6. Upto(m)
      BY <3>4, <3>5
    <3> QED
      BY <2>1, <3>6
  <2> QED
    BY <2>2, <2>3
<1>2. Upto(n)
  <2> HIDE DEF Upto
  <2> QED
    BY <1>1
<1> QED
  BY <1>2 DEF Runs

-----------------------------------------------------------------------------
(* The picker                                                              *)

\* A number below the modulus is its own remainder.
LEMMA SmallRemainder ==
  ASSUME NEW m \in Nat \ {0}, NEW c \in 0..(m - 1)
  PROVE  c % m = c
BY SMTT(30)

\* A remainder is below the modulus.
LEMMA RemainderBound ==
  ASSUME NEW m \in Nat \ {0}, NEW c \in Nat
  PROVE  c % m \in 0..(m - 1)
BY SMTT(30)

\* The loop over the weights is well defined: some function satisfies its
\* equation.
LEMMA RunningWeightsExist ==
  ASSUME NEW n \in Nat, NEW ws, \A i \in 1..n : ws[i].weight \in Nat
  PROVE  \E f : f = [i \in 0..n |->
                       IF i = 0 THEN 0 ELSE (f[i - 1] + ws[i].weight) % WeightModulus]
<1> DEFINE step == [i \in 1..n |-> [x \in Nat |-> (x + ws[i].weight) % WeightModulus]]
<1>1. step \in [1..n -> [Nat -> Nat]]
  BY ModuliAssumption
<1>2. \A i \in 1..n : \A x \in Nat : step[i][x] = (x + ws[i].weight) % WeightModulus
  OBVIOUS
<1> HIDE DEF step
<1>3. PICK f \in [0..n -> Nat] : f[0] = 0 /\ \A i \in 1..n : f[i] = step[i][f[i - 1]]
  <2>1. Runs(Nat, n, 0, step)
    BY <1>1, Iteration
  <2> QED
    BY <2>1 DEF Runs
<1>4. ASSUME NEW i \in 0..n
      PROVE  f[i] = IF i = 0 THEN 0 ELSE (f[i - 1] + ws[i].weight) % WeightModulus
  <2>1. i # 0 => i \in 1..n /\ i - 1 \in 0..n
    OBVIOUS
  <2> QED
    BY <2>1, <1>2, <1>3
<1> QED
  BY <1>3, <1>4

\* The running sums are the ones the loop adds up, modulo the width of a weight.
LEMMA CursorFacts ==
  ASSUME NEW ws, Len(ws) \in Nat, \A i \in 1..Len(ws) : ws[i].weight \in Nat
  PROVE  /\ Cursor(ws, 0) = 0
         /\ \A i \in 1..Len(ws) :
              Cursor(ws, i) = (Cursor(ws, i - 1) + ws[i].weight) % WeightModulus
         /\ \A i \in 0..Len(ws) : Cursor(ws, i) \in 0..(WeightModulus - 1)
<1> DEFINE n == Len(ws)
           sum == RunningWeights(ws)
<1>1. sum = [i \in 0..n |-> IF i = 0 THEN 0 ELSE (sum[i - 1] + ws[i].weight) % WeightModulus]
  BY RunningWeightsExist DEF RunningWeights
<1> HIDE DEF sum
<1>2. sum[0] = 0 /\ \A i \in 1..n : sum[i] = (sum[i - 1] + ws[i].weight) % WeightModulus
  <2> DEFINE e == [i \in 0..n |->
                     IF i = 0 THEN 0 ELSE (sum[i - 1] + ws[i].weight) % WeightModulus]
  <2>1. e[0] = 0 /\ \A i \in 1..n : e[i] = (sum[i - 1] + ws[i].weight) % WeightModulus
    OBVIOUS
  <2>2. sum = e
    BY <1>1
  <2> HIDE DEF e
  <2> QED
    BY <2>1, <2>2
<1> DEFINE Bad == {i \in 0..n : sum[i] \notin 0..(WeightModulus - 1)}
<1>3. Bad = {}
  <2> SUFFICES ASSUME Bad # {} PROVE FALSE
    OBVIOUS
  <2>1. PICK m \in Bad : \A k \in Bad : m <= k
    <3>1. Bad \subseteq Nat
      OBVIOUS
    <3> HIDE DEF Bad
    <3> QED
      BY <3>1, Least
  <2>2. m # 0
    BY <1>2, ModuliAssumption
  <2>3. m \in 1..n /\ m - 1 \in 0..n /\ m - 1 \notin Bad
    BY <2>1, <2>2
  <2>4. sum[m - 1] \in Nat /\ ws[m].weight \in Nat
    BY <2>3
  <2>5. (sum[m - 1] + ws[m].weight) % WeightModulus \in 0..(WeightModulus - 1)
    <3>1. sum[m - 1] + ws[m].weight \in Nat
      BY <2>4
    <3> QED
      BY <3>1, RemainderBound, ModuliAssumption
  <2> QED
    BY <1>2, <2>3, <2>5
<1> QED
  BY <1>2, <1>3 DEF Cursor, sum

\* pick_cluster finds a cluster whenever the route names one, whatever the
\* weights add up to and wherever the counter stands, and never one of weight
\* zero unless all the weights together are zero: the cursor stands still on a
\* drained cluster, so the comparison that fails before it fails on it too.
THEOREM PicksUndrained ==
  ASSUME NEW ws, Len(ws) \in Nat, DOMAIN ws = 1..Len(ws), ws # <<>>,
         \A i \in 1..Len(ws) : ws[i].weight \in Nat,
         NEW count \in Nat
  PROVE  LET i == pick_cluster(ws, count)
         IN  i \in 1..Len(ws) /\ (ws[i].weight > 0 \/ TotalWeight(ws) = 0)
<1> DEFINE n == Len(ws)
           total == TotalWeight(ws)
<1>1. n \in Nat /\ n # 0
  OBVIOUS
<1>2. total \in 0..(WeightModulus - 1) /\ total = Cursor(ws, n)
  BY CursorFacts, <1>1 DEF TotalWeight
<1>3. CASE total = 0
  BY <1>1, <1>3 DEF pick_cluster
<1>4. CASE total # 0
  <2> DEFINE next == (count % WeightModulus) % total
             reached == {i \in DOMAIN ws : next < Cursor(ws, i)}
  <2>1. next \in 0..(total - 1)
    BY <1>2, <1>4, ModuliAssumption
  <2> HIDE DEF next
  <2>2. n \in reached
    BY <1>1, <1>2, <2>1
  <2>3. reached \subseteq Nat
    OBVIOUS
  <2> HIDE DEF reached
  <2>4. Min(reached) \in reached /\ \A y \in reached : Min(reached) <= y
    BY <2>2, <2>3, MinOfNaturals
  <2> DEFINE i == Min(reached)
  <2> HIDE DEF i
  <2>5. i \in 1..n /\ next < Cursor(ws, i) /\ \A y \in reached : i <= y
    BY <2>4 DEF i, reached
  <2>6. ws[i].weight # 0
    <3> SUFFICES ASSUME ws[i].weight = 0 PROVE FALSE
      OBVIOUS
    <3>1. Cursor(ws, i) = (Cursor(ws, i - 1) + 0) % WeightModulus
      BY CursorFacts, <2>5
    <3>2. i - 1 \in 0..n /\ Cursor(ws, i - 1) \in 0..(WeightModulus - 1)
      BY CursorFacts, <2>5
    <3>3. Cursor(ws, i) = Cursor(ws, i - 1)
      BY <3>1, <3>2, SmallRemainder, ModuliAssumption
    <3>4. CASE i = 1
      BY <3>3, <3>4, <2>5, <2>1, CursorFacts
    <3>5. CASE i # 1
      <4>1. i - 1 \in reached
        BY <3>3, <3>5, <2>5 DEF reached
      <4> QED
        BY <4>1, <2>5
    <3> QED
      BY <3>4, <3>5
  <2>7. pick_cluster(ws, count) = i
    BY <1>4, <2>2 DEF pick_cluster, Picked, i, reached, next
  <2>8. ws[i].weight > 0
    BY <2>5, <2>6
  <2> QED
    BY <2>5, <2>7, <2>8
<1> QED
  BY <1>3, <1>4

-----------------------------------------------------------------------------

\* The loop over the endpoints is well defined.
LEMMA HealthyAmongExists ==
  ASSUME NEW n \in Nat, NEW eps
  PROVE  \E f : f = [i \in 0..n |->
                       IF i = 0 THEN <<>>
                       ELSE IF eps[i].healthy THEN Append(f[i - 1], eps[i]) ELSE f[i - 1]]
<1> DEFINE E == {eps[i] : i \in 1..n}
           S == Seq(E)
           step == [i \in 1..n |->
                      [x \in S |-> IF eps[i].healthy THEN Append(x, eps[i]) ELSE x]]
<1>1. \A i \in 1..n : \A x \in S :
        (IF eps[i].healthy THEN Append(x, eps[i]) ELSE x) \in S
  <2>1. \A i \in 1..n : eps[i] \in E
    OBVIOUS
  <2> HIDE DEF E
  <2> QED
    BY <2>1
<1> HIDE DEF S
<1>2. step \in [1..n -> [S -> S]]
  BY <1>1
<1>3. \A i \in 1..n : \A x \in S :
        step[i][x] = IF eps[i].healthy THEN Append(x, eps[i]) ELSE x
  OBVIOUS
<1>4. <<>> \in S
  BY DEF S
<1> HIDE DEF step
<1>5. PICK f \in [0..n -> S] : f[0] = <<>> /\ \A i \in 1..n : f[i] = step[i][f[i - 1]]
  <2>1. Runs(S, n, <<>>, step)
    BY <1>2, <1>4, Iteration
  <2> QED
    BY <2>1 DEF Runs
<1>6. ASSUME NEW i \in 0..n
      PROVE  f[i] = IF i = 0 THEN <<>>
                    ELSE IF eps[i].healthy THEN Append(f[i - 1], eps[i]) ELSE f[i - 1]
  <2>1. i # 0 => i \in 1..n /\ i - 1 \in 0..n
    OBVIOUS
  <2>2. i # 0 => f[i] = step[i][f[i - 1]] /\ f[i - 1] \in S
    BY <2>1, <1>5
  <2> QED
    BY <2>1, <2>2, <1>3, <1>5
<1> QED
  BY <1>5, <1>6

\* The loop keeps healthy endpoints only, and all of them.
LEMMA HealthyAmongFacts ==
  ASSUME NEW eps, Len(eps) \in Nat, \A i \in 1..Len(eps) : eps[i].healthy \in BOOLEAN
  PROVE  LET good == {i \in 1..Len(eps) : eps[i].healthy}
             kept == HealthyAmong(eps)[Len(eps)]
         IN  kept \in Seq({eps[i] : i \in good}) /\ (kept = <<>> <=> good = {})
<1> DEFINE n == Len(eps)
           good == {i \in 1..n : eps[i].healthy}
           G == {eps[i] : i \in good}
           kept == HealthyAmong(eps)
           e == [i \in 0..n |->
                   IF i = 0 THEN <<>>
                   ELSE IF eps[i].healthy THEN Append(kept[i - 1], eps[i]) ELSE kept[i - 1]]
<1>1. kept = e
  BY HealthyAmongExists DEF HealthyAmong
<1>2. /\ e[0] = <<>>
      /\ \A i \in 1..n : eps[i].healthy => e[i] = Append(kept[i - 1], eps[i])
      /\ \A i \in 1..n : ~ eps[i].healthy => e[i] = kept[i - 1]
  <2> HIDE DEF kept
  <2> QED
    OBVIOUS
<1> HIDE DEF kept, e
<1>3. /\ kept[0] = <<>>
      /\ \A i \in 1..n : eps[i].healthy => kept[i] = Append(kept[i - 1], eps[i])
      /\ \A i \in 1..n : ~ eps[i].healthy => kept[i] = kept[i - 1]
  BY <1>1, <1>2
<1> DEFINE Right(i) == kept[i] \in Seq(G) /\ (kept[i] = <<>> <=> \A j \in 1..i : ~ eps[j].healthy)
           Bad == {i \in 0..n : ~ Right(i)}
<1>4. Bad = {}
  <2> SUFFICES ASSUME Bad # {} PROVE FALSE
    OBVIOUS
  <2>1. PICK m \in Bad : \A k \in Bad : m <= k
    <3> HIDE DEF Right
    <3>1. Bad \subseteq Nat
      OBVIOUS
    <3> HIDE DEF Bad
    <3> QED
      BY <3>1, Least
  <2>2. Right(0)
    BY <1>3
  <2>3. m # 0
    BY <2>1, <2>2
  <2>4. m \in 1..n /\ m - 1 \in 0..n /\ Right(m - 1)
    <3> HIDE DEF Right
    <3> QED
      BY <2>1, <2>3
  <2>5. CASE eps[m].healthy
    <3>1. eps[m] \in G
      BY <2>4, <2>5
    <3>2. kept[m] = Append(kept[m - 1], eps[m])
      BY <1>3, <2>4, <2>5
    <3>3. kept[m - 1] \in Seq(G)
      BY <2>4
    <3>4. kept[m] \in Seq(G) /\ kept[m] # <<>>
      <4> HIDE DEF G
      <4>1. Append(kept[m - 1], eps[m]) \in Seq(G) /\ Append(kept[m - 1], eps[m]) # <<>>
        BY <3>1, <3>3, AppendProperties, Zenon
      <4> QED
        BY <3>2, <4>1, Zenon
    <3>5. Right(m)
      BY <2>4, <2>5, <3>4
    <3> QED
      BY <2>1, <3>5
  <2>6. CASE ~ eps[m].healthy
    <3>1. kept[m] = kept[m - 1]
      BY <1>3, <2>4, <2>6
    <3>2. (\A j \in 1..m : ~ eps[j].healthy) <=> (\A j \in 1..(m - 1) : ~ eps[j].healthy)
      BY <2>4, <2>6
    <3>3. Right(m)
      BY <2>4, <3>1, <3>2
    <3> QED
      BY <2>1, <3>3
  <2> QED
    BY <2>5, <2>6
<1>5. Right(n)
  <2> HIDE DEF Right
  <2> QED
    BY <1>4
<1> QED
  BY <1>5 DEF kept

\* pick_endpoint returns a healthy endpoint of the cluster whenever there is one,
\* wherever the counter stands, and none otherwise.
THEOREM PicksHealthy ==
  ASSUME NEW eps, Len(eps) \in Nat, \A i \in 1..Len(eps) : eps[i].healthy \in BOOLEAN,
         NEW count \in Nat
  PROVE  \/ /\ pick_endpoint(eps, count) = None
            /\ \A i \in 1..Len(eps) : ~ eps[i].healthy
         \/ \E i \in 1..Len(eps) :
              eps[i].healthy /\ pick_endpoint(eps, count) = Some(eps[i])
<1> DEFINE good == {i \in 1..Len(eps) : eps[i].healthy}
           G == {eps[i] : i \in good}
           kept == HealthyAmong(eps)[Len(eps)]
           at == (count % Len(kept)) + 1
<1>1. kept \in Seq(G) /\ (kept = <<>> <=> good = {})
  BY HealthyAmongFacts
<1> HIDE DEF kept
<1>2. CASE kept = <<>>
  BY <1>1, <1>2 DEF pick_endpoint, kept, None
<1>3. CASE kept # <<>>
  <2>1. Len(kept) \in Nat /\ Len(kept) # 0
    <3> HIDE DEF G
    <3> QED
      BY <1>1, <1>3
  <2>2. at \in 1..Len(kept)
    BY <2>1
  <2>3. kept[at] \in G
    <3> HIDE DEF G, at
    <3> QED
      BY <1>1, <2>2
  <2>4. pick_endpoint(eps, count) = <<kept[at]>>
    BY <1>3 DEF pick_endpoint, kept
  <2> HIDE DEF at
  <2> QED
    BY <2>3, <2>4 DEF Some
<1> QED
  BY <1>2, <1>3

-----------------------------------------------------------------------------
(* The key of the client cache                                             *)

\* Texts are closed under concatenation.
LEMMA ConcatText ==
  ASSUME NEW x \in Seq(Characters), NEW y \in Seq(Characters)
  PROVE  x \o y \in Seq(Characters)
OBVIOUS

\* Joining texts gives a text.
LEMMA JoinText ==
  ASSUME NEW texts, Vector(texts), \A i \in DOMAIN texts : Text(texts[i]), NEW sep \in Characters
  PROVE  Text(Join(texts, sep))
<1> DEFINE n == Len(texts)
           S == Seq(Characters)
           piece(i) == IF i = 1 THEN texts[i] ELSE <<sep>> \o texts[i]
           step == [i \in 1..n |-> [x \in S |-> x \o piece(i)]]
<1>1. n \in Nat /\ DOMAIN texts = 1..n
  BY DEF Vector
<1>2. \A i \in 1..n : piece(i) \in S
  <2> SUFFICES ASSUME NEW i \in 1..n PROVE piece(i) \in S
    OBVIOUS
  <2>1. texts[i] \in S
    BY <1>1 DEF Text
  <2>2. <<sep>> \in S
    OBVIOUS
  <2>3. <<sep>> \o texts[i] \in S
    BY <2>1, <2>2
  <2> QED
    BY <2>1, <2>3
<1> HIDE DEF piece
<1>3. \A i \in 1..n : \A x \in S : x \o piece(i) \in S
  BY <1>2
<1>4. <<>> \in S
  OBVIOUS
<1> HIDE DEF S, n
<1>5. step \in [1..n -> [S -> S]]
  BY <1>3
<1>6. \A i \in 1..n : \A x \in S : step[i][x] = x \o piece(i)
  OBVIOUS
<1> HIDE DEF step
<1>7. PICK f \in [0..n -> S] : f[0] = <<>> /\ \A i \in 1..n : f[i] = step[i][f[i - 1]]
  <2>1. Runs(S, n, <<>>, step)
    BY <1>1, <1>4, <1>5, Iteration
  <2> QED
    BY <2>1 DEF Runs
<1>8. ASSUME NEW i \in 0..n
      PROVE  f[i] = IF i = 0 THEN <<>> ELSE f[i - 1] \o piece(i)
  <2>1. i # 0 => i \in 1..n /\ i - 1 \in 0..n
    BY <1>1
  <2>2. i # 0 => f[i] = step[i][f[i - 1]] /\ f[i - 1] \in S
    BY <2>1, <1>7
  <2> QED
    BY <2>1, <2>2, <1>6, <1>7
<1>9. f = [i \in 0..n |-> IF i = 0 THEN <<>> ELSE f[i - 1] \o piece(i)]
  BY <1>7, <1>8
<1> DEFINE F == CHOOSE g : g = [i \in 0..n |-> IF i = 0 THEN <<>> ELSE g[i - 1] \o piece(i)]
           e == [i \in 0..n |-> IF i = 0 THEN <<>> ELSE F[i - 1] \o piece(i)]
<1>10. F = e
  BY <1>9
<1>11. e[0] = <<>> /\ \A i \in 1..n : e[i] = F[i - 1] \o piece(i)
  <2> HIDE DEF F
  <2> QED
    BY <1>1
<1>12. F[n] = Join(texts, sep)
  BY DEF Join, n, piece
<1> HIDE DEF F, e
<1>13. F[0] = <<>> /\ \A i \in 1..n : F[i] = F[i - 1] \o piece(i)
  BY <1>10, <1>11
<1> DEFINE Bad == {i \in 0..n : F[i] \notin S}
<1>14. Bad = {}
  <2> SUFFICES ASSUME Bad # {} PROVE FALSE
    OBVIOUS
  <2>1. PICK m \in Bad : \A k \in Bad : m <= k
    <3>1. Bad \subseteq Nat
      BY <1>1
    <3> HIDE DEF Bad
    <3> QED
      BY <3>1, Least
  <2>2. m # 0
    BY <1>4, <1>13
  <2>3. m \in 1..n /\ m - 1 \in 0..n /\ m - 1 \notin Bad
    BY <1>1, <2>1, <2>2
  <2> QED
    BY <1>3, <1>13, <2>3
<1>15. F[n] \in S
  BY <1>1, <1>14
<1> QED
  BY <1>12, <1>15 DEF S, Text

\* The text before the first bar, and the text after it, can be read off.
LEMMA FirstBar ==
  ASSUME NEW s \in Seq(Characters), NEW t \in Seq(Characters),
         NEW x \in Seq(Characters), NEW y \in Seq(Characters),
         NoBar(s), NoBar(t), Barred(s, x) = Barred(t, y)
  PROVE  s = t /\ x = y
<1> DEFINE a == Barred(s, x)
           b == Barred(t, y)
<1>1. /\ Len(a) = Len(s) + 1 + Len(x)
      /\ \A i \in 1..Len(s) : a[i] = s[i]
      /\ a[Len(s) + 1] = "bar"
      /\ \A i \in 1..Len(x) : a[Len(s) + 1 + i] = x[i]
  BY DEF Barred
<1>2. /\ Len(b) = Len(t) + 1 + Len(y)
      /\ \A i \in 1..Len(t) : b[i] = t[i]
      /\ b[Len(t) + 1] = "bar"
      /\ \A i \in 1..Len(y) : b[Len(t) + 1 + i] = y[i]
  BY DEF Barred
<1>3. a = b
  OBVIOUS
<1> HIDE DEF a, b
<1>4. /\ Len(s) \in Nat /\ DOMAIN s = 1..Len(s)
      /\ Len(t) \in Nat /\ DOMAIN t = 1..Len(t)
      /\ Len(x) \in Nat /\ Len(y) \in Nat
  OBVIOUS
<1>5. ~ (Len(s) < Len(t))
  <2> SUFFICES ASSUME Len(s) < Len(t) PROVE FALSE
    OBVIOUS
  <2>1. Len(s) + 1 \in 1..Len(t)
    BY <1>4
  <2> QED
    BY <1>1, <1>2, <1>3, <1>4, <2>1 DEF NoBar
<1>6. ~ (Len(t) < Len(s))
  <2> SUFFICES ASSUME Len(t) < Len(s) PROVE FALSE
    OBVIOUS
  <2>1. Len(t) + 1 \in 1..Len(s)
    BY <1>4
  <2> QED
    BY <1>1, <1>2, <1>3, <1>4, <2>1 DEF NoBar
<1>7. Len(s) = Len(t)
  <2>1. \A m, n \in Nat : ~ (m < n) /\ ~ (n < m) => m = n
    OBVIOUS
  <2> QED
    BY ONLY <2>1, <1>4, <1>5, <1>6, Zenon
<1>8. Len(x) = Len(y)
  BY ONLY <1>1, <1>2, <1>3, <1>4, <1>7
<1>9. s = t
  <2>1. \A i \in 1..Len(s) : s[i] = t[i]
    BY ONLY <1>1, <1>2, <1>3, <1>7
  <2> QED
    BY <2>1, <1>7, SeqEqual, Zenon
<1>10. \A i \in 1..Len(x) : x[i] = y[i]
  BY <1>1, <1>2, <1>3, <1>7, <1>8
<1> QED
  BY <1>9, <1>10, <1>8

\* Settings whose names have no bar in them share a key only if they make the
\* same client.
LEMMA KeyDeterminesClient ==
  ASSUME NEW t, TlsSettings(t), Separable(t), NEW u, TlsSettings(u), Separable(u),
         mtls_cache_key(t) = mtls_cache_key(u)
  PROVE  Client(t) = Client(u)
<1> DEFINE sni(tls) == unwrap_or(tls.sni, <<>>)
           alpn(tls) == Join(tls.alpn_protocols, "comma")
           roots(tls) == Barred(root_provider(tls), alpn(tls))
           certs(tls) == Barred(cert_provider(tls), roots(tls))
           Field(x) == x \in Seq(Characters) /\ NoBar(x)
<1>1. ASSUME NEW tls, TlsSettings(tls), Separable(tls)
      PROVE  /\ Field(sni(tls)) /\ Field(cert_provider(tls)) /\ Field(root_provider(tls))
             /\ alpn(tls) \in Seq(Characters)
             /\ tls.sni = None \/ tls.sni = Some(sni(tls))
  <2>1. ASSUME NEW option, OptionalText(option), NEW default, Text(default)
        PROVE  Text(unwrap_or(option, default))
    BY <2>1 DEF OptionalText, unwrap_or
  <2>2. Text(<<>>) /\ Text(Default)
    BY CharactersAssumption DEF Default, Text
  <2>3. Text(sni(tls)) /\ Text(cert_provider(tls)) /\ Text(root_provider(tls))
    BY <1>1, <2>1, <2>2 DEF TlsSettings, cert_provider, root_provider
  <2>4. alpn(tls) \in Seq(Characters)
    BY <1>1, JoinText, CharactersAssumption DEF TlsSettings, Text
  <2>5. tls.sni = None \/ tls.sni = Some(sni(tls))
    BY <1>1 DEF TlsSettings, OptionalText, unwrap_or, Some
  <2> QED
    BY <1>1, <2>3, <2>4, <2>5 DEF Separable, Text
<1>2. ASSUME NEW tls, TlsSettings(tls), Separable(tls)
      PROVE  roots(tls) \in Seq(Characters) /\ certs(tls) \in Seq(Characters)
  <2>1. ASSUME NEW x \in Seq(Characters), NEW y \in Seq(Characters)
        PROVE  Barred(x, y) \in Seq(Characters)
    <3>1. <<"bar">> \in Seq(Characters)
      BY CharactersAssumption
    <3> QED
      BY <3>1, ConcatText DEF Barred
  <2>2. /\ alpn(tls) \in Seq(Characters)
        /\ root_provider(tls) \in Seq(Characters) /\ cert_provider(tls) \in Seq(Characters)
    BY <1>1, <1>2
  <2> QED
    BY <2>1, <2>2
<1>3. Barred(sni(t), certs(t)) = Barred(sni(u), certs(u))
  BY DEF mtls_cache_key
<1>4. sni(t) = sni(u) /\ certs(t) = certs(u)
  <2> HIDE DEF sni, certs
  <2> QED
    BY <1>1, <1>2, <1>3, FirstBar
<1>5. cert_provider(t) = cert_provider(u) /\ roots(t) = roots(u)
  <2>1. Barred(cert_provider(t), roots(t)) = Barred(cert_provider(u), roots(u))
    BY <1>4
  <2> HIDE DEF roots, sni
  <2> QED
    BY <1>1, <1>2, <2>1, FirstBar
<1>6. root_provider(t) = root_provider(u)
  <2>1. Barred(root_provider(t), alpn(t)) = Barred(root_provider(u), alpn(u))
    BY <1>5
  <2> HIDE DEF alpn, sni
  <2> QED
    BY <1>1, <2>1, FirstBar
<1>7. (IF t.sni = Some(<<>>) THEN None ELSE t.sni) = (IF u.sni = Some(<<>>) THEN None ELSE u.sni)
  <2>1. sni(t) = IF t.sni = None THEN <<>> ELSE t.sni[1]
    BY DEF unwrap_or
  <2>2. sni(u) = IF u.sni = None THEN <<>> ELSE u.sni[1]
    BY DEF unwrap_or
  <2> HIDE DEF sni
  <2> QED
    BY <1>1, <1>4, <2>1, <2>2 DEF Some
<1> QED
  BY <1>5, <1>6, <1>7 DEF Client

-----------------------------------------------------------------------------
(* Lookups                                                                 *)

\* cluster finds a cluster of the name when there is one.
LEMMA ClusterFacts ==
  ASSUME NEW cfg, Vector(cfg.clusters), NEW name, name \in ClusterNames(cfg)
  PROVE  /\ cluster(cfg, name) \in DOMAIN cfg.clusters
         /\ cluster(cfg, name) # 0
         /\ cfg.clusters[cluster(cfg, name)].name = name
<1> DEFINE I == {i \in DOMAIN cfg.clusters : cfg.clusters[i].name = name}
<1>1. Len(cfg.clusters) \in Nat /\ DOMAIN cfg.clusters = 1..Len(cfg.clusters)
  BY DEF Vector
<1>2. I # {} /\ I \subseteq Nat
  BY <1>1 DEF ClusterNames
<1>3. Min(I) \in I
  <2> HIDE DEF I
  <2> QED
    BY <1>2, MinOfNaturals
<1>4. cluster(cfg, name) = Min(I)
  BY <1>2 DEF cluster, First
<1> QED
  BY <1>1, <1>3, <1>4

\* route_for finds a route of the configuration, or none: among the routes that
\* match there is a first one.
LEMMA RouteForFacts ==
  ASSUME NEW cfg, NEW port, NEW input,
         \A l \in DOMAIN cfg.listeners :
           /\ Vector(cfg.listeners[l].virtual_hosts)
           /\ \A h \in DOMAIN cfg.listeners[l].virtual_hosts :
                Vector(cfg.listeners[l].virtual_hosts[h].routes)
  PROVE  route_for(cfg, port, input) = <<>> \/ route_for(cfg, port, input) \in RoutePositions(cfg)
<1> DEFINE l == listener_by_port(cfg, port)
           found == {p \in RoutePositions(cfg) :
                       /\ p[1] = l
                       /\ matches_host(cfg.listeners[l].virtual_hosts[p[2]], input.host)
                       /\ route_matches(RouteAt(cfg, p), input)}
           Foremost(p) == \A q \in found : p[2] < q[2] \/ (p[2] = q[2] /\ p[3] <= q[3])
<1>1. \A p \in RoutePositions(cfg) : p[2] \in Nat /\ p[3] \in Nat
  BY DEF RoutePositions, Vector
<1>2. route_for(cfg, port, input) = IF found = {} THEN <<>> ELSE CHOOSE p \in found : Foremost(p)
  BY DEF route_for
<1>3. found \subseteq RoutePositions(cfg)
  OBVIOUS
<1> HIDE DEF found
<1>4. ASSUME found # {} PROVE \E p \in found : Foremost(p)
  <2> DEFINE hosts == {p[2] : p \in found}
  <2>1. hosts \subseteq Nat /\ hosts # {}
    BY <1>1, <1>3, <1>4
  <2> HIDE DEF hosts
  <2>2. PICK h \in hosts : \A y \in hosts : h <= y
    BY <2>1, Least
  <2> DEFINE routes == {p[3] : p \in {p \in found : p[2] = h}}
  <2>3. routes \subseteq Nat /\ routes # {}
    BY <1>1, <1>3, <2>2 DEF hosts
  <2> HIDE DEF routes
  <2>4. PICK r \in routes : \A y \in routes : r <= y
    BY <2>3, Least
  <2>5. PICK p \in found : p[2] = h /\ p[3] = r
    BY <2>4 DEF routes
  <2>6. ASSUME NEW q \in found
        PROVE  p[2] < q[2] \/ (p[2] = q[2] /\ p[3] <= q[3])
    <3>1. q[2] \in hosts /\ h <= q[2] /\ h \in Nat /\ q[2] \in Nat
      BY <2>1, <2>2 DEF hosts
    <3>2. CASE q[2] = h
      BY <2>4, <2>5, <3>2 DEF routes
    <3>3. CASE q[2] # h
      BY <2>5, <3>1, <3>3
    <3> QED
      BY <3>2, <3>3
  <2> QED
    BY <2>6
<1> HIDE DEF Foremost
<1> QED
  BY <1>2, <1>3, <1>4

\* What validate guarantees forward: every route names a cluster, and every
\* cluster a route names is there.
LEMMA ValidFacts ==
  ASSUME NEW cfg, Valid(cfg), NEW p \in RoutePositions(cfg)
  PROVE  LET ws == RouteAt(cfg, p).weighted_clusters
         IN  ws # <<>> /\ \A d \in DOMAIN ws : ws[d].name \in ClusterNames(cfg)
<1>1. validate(cfg) = {}
  BY DEF Valid
<1>2. {[kind |-> "empty-route-destination", at |-> q] : q \in
         {q \in RoutePositions(cfg) : RouteAt(cfg, q).weighted_clusters = <<>>}} = {}
  BY <1>1 DEF validate
<1>3. {[kind |-> "missing-cluster", at |-> d] : d \in MissingDestinations(cfg)} = {}
  BY <1>1 DEF validate
<1>4. MissingDestinations(cfg) = {}
  BY <1>3
<1>5. RouteAt(cfg, p).weighted_clusters # <<>>
  BY <1>2
<1>6. ASSUME NEW d \in DOMAIN RouteAt(cfg, p).weighted_clusters,
             RouteAt(cfg, p).weighted_clusters[d].name \notin ClusterNames(cfg)
      PROVE  FALSE
  <2>1. <<p, d>> \in MissingDestinations(cfg)
    BY <1>6 DEF MissingDestinations
  <2> QED
    BY <1>4, <2>1
<1> QED
  BY <1>5, <1>6

-----------------------------------------------------------------------------
(* The inductive invariant: what a call of forward knows at each step.     *)

Step(r) == r.pc \in {"idle", "cluster", "endpoint", "send", "upstream", "replied"}

\* The local state of a call has its seven fields.
Record(r) ==
  r = [pc |-> r.pc, cfg |-> r.cfg, route |-> r.route, cluster |-> r.cluster,
       endpoint |-> r.endpoint, client |-> r.client, reply |-> r.reply]

\* The route is one of the configuration the call cloned.
RouteKnown(r) ==
  /\ r.cfg \in Configs
  /\ \E p \in RoutePositions(r.cfg) : r.route = RouteAt(r.cfg, p).weighted_clusters

\* The cluster is one of that configuration, and the route names it with a
\* weight unless nothing has one.
ClusterKnown(r) ==
  \E c \in DOMAIN r.cfg.clusters, i \in DOMAIN r.route :
    /\ r.cluster = Some(r.cfg.clusters[c])
    /\ r.route[i].name = r.cfg.clusters[c].name
    /\ r.route[i].weight > 0 \/ TotalWeight(r.route) = 0

EndpointKnown(r) ==
  \E k \in DOMAIN r.cluster[1].endpoints :
    r.endpoint = Some(r.cluster[1].endpoints[k]) /\ r.cluster[1].endpoints[k].healthy

\* The client was built from settings with the cluster's key.
MadeFor(tls, client) ==
  \E s \in Settings : client = Some(Client(s)) /\ mtls_cache_key(s) = mtls_cache_key(tls)

ClientKnown(r) ==
  IF r.pc = "upstream" /\ r.cluster[1].tls # None
  THEN MadeFor(r.cluster[1].tls[1], r.client) ELSE r.client = None

CallInv(r) ==
  /\ Record(r) /\ Step(r) /\ ClientKnown(r)
  /\ r.reply \in Replies \ {"route_has_no_clusters", "cluster_not_found"}
  /\ r.pc \in {"cluster", "endpoint", "send", "upstream"} => RouteKnown(r)
  /\ r.pc \in {"endpoint", "send", "upstream"} => ClusterKnown(r)
  /\ r.pc \in {"send", "upstream"} => EndpointKnown(r)

\* A client is cached under the key of settings it was built from.
CacheInv ==
  \A key \in DOMAIN clients : \E tls \in Settings :
    key = mtls_cache_key(tls) /\ clients[key] = Client(tls)

SharedInv ==
  /\ config \in Configs \cup {empty("bootstrap")}
  /\ picker_counter \in 0..(CounterModulus - 1)
  /\ mtls \in {"disabled", "error", "available"}
  /\ readable \subseteq Providers

\* The inductive invariant: what the shared state holds, what the cache holds and
\* what every call of forward has established so far.
IndInv ==
  /\ SharedInv
  /\ CacheInv
  /\ req = [q \in Requests |-> req[q]]
  /\ \A q \in Requests : CallInv(req[q])

\* The part of IndInv about the calls.
CallsInv ==
  /\ req = [q \in Requests |-> req[q]]
  /\ \A q \in Requests : CallInv(req[q])

-----------------------------------------------------------------------------
(* Lemmas                                                                  *)

\* A call that has replied, and one that has not begun, know nothing.
LEMMA RepliedInv ==
  ASSUME NEW r \in Replies \ {"route_has_no_clusters", "cluster_not_found"}
  PROVE  CallInv(Replied(r)) /\ CallInv(Idle)
BY DEF CallInv, Record, Step, ClientKnown, Idle, Call, Replied, Replies

\* A step of one call leaves the others as they are.
LEMMA OneCall ==
  ASSUME CallsInv, NEW q \in Requests, NEW x, CallInv(x), Becomes(q, x)
  PROVE  CallsInv'
<1>1. req' = [p \in Requests |-> IF p = q THEN x ELSE req[p]]
  BY DEF CallsInv, Becomes
<1>2. req' = [p \in Requests |-> req'[p]]
  BY <1>1
<1>3. \A p \in Requests : CallInv(req'[p])
  <2> SUFFICES ASSUME NEW p \in Requests PROVE CallInv(req'[p])
    OBVIOUS
  <2>1. req'[p] = IF p = q THEN x ELSE req[p]
    BY <1>1
  <2>2. CallInv(req[p])
    BY DEF CallsInv
  <2> QED
    BY <2>1, <2>2
<1> QED
  BY <1>2, <1>3 DEF CallsInv

\* A call that replies keeps the invariant of the calls.
LEMMA ReplyStep ==
  ASSUME CallsInv, NEW q \in Requests,
         NEW r \in Replies \ {"route_has_no_clusters", "cluster_not_found"}, Reply(q, r)
  PROVE  CallsInv'
BY RepliedInv, OneCall DEF Reply

\* Nothing but ApplyConfig and FilesChange touches the shared state other than the
\* counter.
LEMMA SharedStep ==
  ASSUME SharedInv, UNCHANGED <<config, mtls, readable>>, picker_counter' \in 0..(CounterModulus - 1)
  PROVE  SharedInv'
BY DEF SharedInv

\* A lookup in the configuration of the moment finds a route of a valid one.
LEMMA FoundRoute ==
  ASSUME SharedInv, NEW input, route_for(config, HTTP_LISTENER_PORT, input) # <<>>
  PROVE  /\ config \in Configs
         /\ route_for(config, HTTP_LISTENER_PORT, input) \in RoutePositions(config)
<1>1. CASE config \in Configs
  BY <1>1, RouteForFacts, ConfigsAssumption DEF WellFormed
<1>2. CASE config = empty("bootstrap")
  <2>1. DOMAIN config.listeners = {} /\ RoutePositions(config) = {}
    BY <1>2 DEF empty, RoutePositions
  <2>2. route_for(config, HTTP_LISTENER_PORT, input) \in RoutePositions(config)
    BY <2>1, RouteForFacts
  <2> QED
    BY <2>1, <2>2
<1> QED
  BY <1>1, <1>2 DEF SharedInv

\* A call in progress works on a valid configuration.
LEMMA KnownFacts ==
  ASSUME NEW r, RouteKnown(r)
  PROVE  /\ WellFormed(r.cfg)
         /\ Vector(r.route) /\ r.route # <<>>
         /\ \A d \in DOMAIN r.route : r.route[d].weight \in Nat /\ r.route[d].name \in ClusterNames(r.cfg)
<1>1. r.cfg \in Configs /\ Valid(r.cfg) /\ WellFormed(r.cfg)
  BY ConfigsAssumption DEF RouteKnown
<1>2. PICK p \in RoutePositions(r.cfg) : r.route = RouteAt(r.cfg, p).weighted_clusters
  BY DEF RouteKnown
<1>3. r.route # <<>> /\ \A d \in DOMAIN r.route : r.route[d].name \in ClusterNames(r.cfg)
  BY <1>1, <1>2, ValidFacts
<1>4. Vector(r.route) /\ \A d \in DOMAIN r.route : r.route[d].weight \in Nat
  BY <1>1, <1>2 DEF WellFormed
<1> QED
  BY <1>1, <1>3, <1>4

\* The settings of the cluster a call has chosen are those of a configuration.
LEMMA KnownSettings ==
  ASSUME NEW r, RouteKnown(r), ClusterKnown(r), r.cluster[1].tls # None
  PROVE  r.cluster[1].tls[1] \in Settings
<1>1. PICK c \in DOMAIN r.cfg.clusters : r.cluster = Some(r.cfg.clusters[c])
  BY DEF ClusterKnown
<1>2. r.cluster[1] = r.cfg.clusters[c]
  BY <1>1 DEF Some
<1>3. r.cfg \in Configs
  BY DEF RouteKnown
<1>4. r.cluster[1].tls[1] \in SettingsOf(r.cfg)
  BY <1>2 DEF SettingsOf
<1> QED
  BY <1>3, <1>4 DEF Settings

\* The settings of clusters have the shape the types give them.
LEMMA SettingsTyped ==
  ASSUME NEW tls \in Settings
  PROVE  TlsSettings(tls)
BY ConfigsAssumption DEF Settings, SettingsOf, WellFormed

-----------------------------------------------------------------------------
(* The steps                                                               *)

\* A call that arrives knows its route.
LEMMA ArriveStep ==
  ASSUME IndInv, NEW q \in Requests, NEW input, Arrive(q, input)
  PROVE  IndInv'
<1> DEFINE p == route_for(config, HTTP_LISTENER_PORT, input)
           x == Call("cluster", config, RouteAt(config, p).weighted_clusters, None, None, None)
<1>1. SharedInv /\ CallsInv /\ CacheInv
  BY DEF IndInv, CallsInv
<1>2. SharedInv' /\ CacheInv'
  BY <1>1 DEF Arrive, SharedInv, CacheInv
<1>3. CASE p = <<>>
  <2>1. Reply(q, "route_not_found")
    BY <1>3 DEF Arrive
  <2>2. "route_not_found" \in Replies \ {"route_has_no_clusters", "cluster_not_found"}
    BY DEF Replies
  <2>3. CallsInv'
    BY <1>1, <2>1, <2>2, ReplyStep
  <2> QED
    BY <1>2, <2>3 DEF IndInv, CallsInv
<1>4. CASE p # <<>>
  <2>1. Becomes(q, x)
    BY <1>4 DEF Arrive
  <2>2. config \in Configs /\ p \in RoutePositions(config)
    BY <1>1, <1>4, FoundRoute
  <2>3. CallInv(x)
    <3> HIDE DEF p
    <3>1. RouteKnown(x)
      BY <2>2 DEF RouteKnown, Call
    <3>2. Record(x) /\ Step(x) /\ ClientKnown(x) /\ x.pc = "cluster" /\ x.reply = "none"
      BY DEF Record, Step, ClientKnown, Call
    <3> HIDE DEF x
    <3> QED
      BY <3>1, <3>2 DEF CallInv, Replies
  <2>4. CallsInv'
    <3> HIDE DEF x
    <3> QED
      BY <1>1, <2>1, <2>3, OneCall
  <2> QED
    BY <1>2, <2>4 DEF IndInv, CallsInv
<1> QED
  BY <1>3, <1>4

\* A call that has picked knows its cluster.
LEMMA PickClusterStep ==
  ASSUME IndInv, NEW q \in Requests, PickCluster(q)
  PROVE  IndInv'
<1> DEFINE r == req[q]
           ws == r.route
           i == pick_cluster(ws, picker_counter)
           c == cluster(r.cfg, ws[i].name)
           x == Call("endpoint", r.cfg, ws, Some(r.cfg.clusters[c]), None, None)
<1>1. SharedInv /\ CallsInv /\ CacheInv /\ CallInv(r) /\ r.pc = "cluster"
  BY DEF IndInv, CallsInv, PickCluster
<1>2. picker_counter \in Nat /\ picker_counter' \in 0..(CounterModulus - 1)
  <2>1. picker_counter \in 0..(CounterModulus - 1) /\ picker_counter' = AfterPickCluster(ws, picker_counter)
    BY <1>1 DEF PickCluster, SharedInv
  <2>2. picker_counter \in Nat /\ picker_counter + 1 \in Nat
    BY <2>1, ModuliAssumption
  <2>3. (picker_counter + 1) % CounterModulus \in 0..(CounterModulus - 1)
    BY <2>2, RemainderBound, ModuliAssumption
  <2> QED
    BY <2>1, <2>2, <2>3 DEF AfterPickCluster
<1>3. SharedInv' /\ CacheInv'
  BY <1>1, <1>2, SharedStep DEF PickCluster, CacheInv
<1>4. RouteKnown(r)
  BY <1>1 DEF CallInv
<1>5. /\ WellFormed(r.cfg)
      /\ Vector(ws) /\ ws # <<>>
      /\ \A d \in DOMAIN ws : ws[d].weight \in Nat /\ ws[d].name \in ClusterNames(r.cfg)
  BY <1>4, KnownFacts
<1>6. i \in DOMAIN ws /\ i # 0 /\ (ws[i].weight > 0 \/ TotalWeight(ws) = 0)
  <2>1. Len(ws) \in Nat /\ DOMAIN ws = 1..Len(ws) /\ ws # <<>>
    BY <1>5 DEF Vector
  <2>2. \A d \in 1..Len(ws) : ws[d].weight \in Nat
    BY <1>5, <2>1
  <2> HIDE DEF r, ws
  <2>3. i \in 1..Len(ws) /\ (ws[i].weight > 0 \/ TotalWeight(ws) = 0)
    BY <1>2, <2>1, <2>2, PicksUndrained
  <2> QED
    BY <2>1, <2>3
<1>7. c \in DOMAIN r.cfg.clusters /\ c # 0 /\ r.cfg.clusters[c].name = ws[i].name
  BY <1>5, <1>6, ClusterFacts DEF WellFormed
<1>8. Becomes(q, x)
  BY <1>6, <1>7 DEF PickCluster
<1>9. CallInv(x)
  <2> HIDE DEF i, c
  <2>1. /\ Record(x) /\ Step(x) /\ ClientKnown(x) /\ x.pc = "endpoint" /\ x.reply = "none"
        /\ x.cfg = r.cfg /\ x.route = ws /\ x.cluster = Some(r.cfg.clusters[c])
    BY DEF Record, Step, ClientKnown, Call
  <2> HIDE DEF x, r
  <2>2. RouteKnown(x)
    BY <1>4, <2>1 DEF RouteKnown
  <2>3. ClusterKnown(x)
    BY <1>6, <1>7, <2>1 DEF ClusterKnown
  <2> QED
    BY <2>1, <2>2, <2>3 DEF CallInv, Replies
<1>10. CallsInv'
  <2> HIDE DEF x
  <2> QED
    BY <1>1, <1>8, <1>9, OneCall
<1> QED
  BY <1>3, <1>10 DEF IndInv, CallsInv

\* A call that has picked knows its endpoint.
LEMMA PickEndpointStep ==
  ASSUME IndInv, NEW q \in Requests, PickEndpoint(q)
  PROVE  IndInv'
<1> DEFINE r == req[q]
           eps == r.cluster[1].endpoints
           ep == pick_endpoint(eps, picker_counter)
           x == Call("send", r.cfg, r.route, r.cluster, ep, None)
<1>1. SharedInv /\ CallsInv /\ CacheInv /\ CallInv(r) /\ r.pc = "endpoint"
  BY DEF IndInv, CallsInv, PickEndpoint
<1>2. picker_counter \in Nat /\ picker_counter' \in 0..(CounterModulus - 1)
  <2>1. picker_counter \in 0..(CounterModulus - 1) /\ picker_counter' = AfterPickEndpoint(eps, picker_counter)
    BY <1>1 DEF PickEndpoint, SharedInv
  <2>2. picker_counter \in Nat /\ picker_counter + 1 \in Nat
    BY <2>1, ModuliAssumption
  <2>3. (picker_counter + 1) % CounterModulus \in 0..(CounterModulus - 1)
    BY <2>2, RemainderBound, ModuliAssumption
  <2> QED
    BY <2>1, <2>2, <2>3 DEF AfterPickEndpoint
<1>3. SharedInv' /\ CacheInv'
  BY <1>1, <1>2, SharedStep DEF PickEndpoint, CacheInv
<1>4. CASE ep = None
  <2>1. Reply(q, "no_healthy_endpoints")
    BY <1>4 DEF PickEndpoint
  <2>2. "no_healthy_endpoints" \in Replies \ {"route_has_no_clusters", "cluster_not_found"}
    BY DEF Replies
  <2> QED
    BY <1>1, <1>3, <2>1, <2>2, ReplyStep DEF IndInv, CallsInv
<1>5. CASE ep # None /\ ep[1].address \in Malformed
  <2>1. Reply(q, "invalid_upstream_uri")
    BY <1>5 DEF PickEndpoint
  <2>2. "invalid_upstream_uri" \in Replies \ {"route_has_no_clusters", "cluster_not_found"}
    BY DEF Replies
  <2> QED
    BY <1>1, <1>3, <2>1, <2>2, ReplyStep DEF IndInv, CallsInv
<1>6. CASE ep # None /\ ep[1].address \notin Malformed
  <2>1. Becomes(q, x)
    BY <1>6 DEF PickEndpoint
  <2>2. RouteKnown(r) /\ ClusterKnown(r)
    BY <1>1 DEF CallInv
  <2>3. PICK c \in DOMAIN r.cfg.clusters : r.cluster = Some(r.cfg.clusters[c])
    BY <2>2 DEF ClusterKnown
  <2>4. eps = r.cfg.clusters[c].endpoints
    BY <2>3 DEF Some
  <2>5. Vector(eps) /\ \A e \in DOMAIN eps : eps[e].healthy \in BOOLEAN
    BY <2>2, <2>4, KnownFacts DEF WellFormed
  <2>6. PICK k \in DOMAIN eps : eps[k].healthy /\ ep = Some(eps[k])
    BY <1>2, <1>6, <2>5, PicksHealthy DEF Vector
  <2>7. CallInv(x)
    <3> HIDE DEF ep
    <3>1. /\ Record(x) /\ Step(x) /\ ClientKnown(x) /\ x.pc = "send" /\ x.reply = "none"
          /\ x.cfg = r.cfg /\ x.route = r.route /\ x.cluster = r.cluster /\ x.endpoint = ep
      BY DEF Record, Step, ClientKnown, Call
    <3> HIDE DEF x, r
    <3>2. RouteKnown(x) /\ ClusterKnown(x)
      BY <2>2, <3>1 DEF RouteKnown, ClusterKnown
    <3>3. EndpointKnown(x)
      BY <2>6, <3>1 DEF EndpointKnown
    <3> QED
      BY <3>1, <3>2, <3>3 DEF CallInv, Replies
  <2>8. CallsInv'
    <3> HIDE DEF x
    <3> QED
      BY <1>1, <2>1, <2>7, OneCall
  <2> QED
    BY <1>3, <2>8 DEF IndInv, CallsInv
<1> QED
  BY <1>4, <1>5, <1>6

\* A call that is sent knows its client.
LEMMA SendStep ==
  ASSUME IndInv, NEW q \in Requests, SendPlain(q) \/ SendMtlsUnavailable(q) \/ SendMtls(q)
  PROVE  IndInv'
<1> DEFINE r == req[q]
           tls == r.cluster[1].tls[1]
           key == mtls_cache_key(tls)
           x(client) == Call("upstream", r.cfg, r.route, r.cluster, r.endpoint, client)
<1>1. SharedInv /\ CallsInv /\ CacheInv /\ CallInv(r) /\ r.pc = "send"
  BY DEF IndInv, CallsInv, SendPlain, SendMtlsUnavailable, SendMtls
<1>2. SharedInv'
  BY <1>1, SharedStep DEF SendPlain, SendMtlsUnavailable, SendMtls, SharedInv
<1>3. RouteKnown(r) /\ ClusterKnown(r) /\ EndpointKnown(r)
  BY <1>1 DEF CallInv
<1>4. ASSUME NEW client,
             IF r.cluster[1].tls # None THEN MadeFor(r.cluster[1].tls[1], client) ELSE client = None,
             Leave(q, client)
      PROVE  CallsInv'
  <2> DEFINE y == x(client)
  <2>1. /\ Record(y) /\ Step(y) /\ y.pc = "upstream" /\ y.reply = "none" /\ y.client = client
        /\ y.cfg = r.cfg /\ y.route = r.route /\ y.cluster = r.cluster /\ y.endpoint = r.endpoint
    BY DEF Record, Step, Call
  <2>2. Becomes(q, y)
    BY <1>4 DEF Leave
  <2> HIDE DEF y, r
  <2>3. RouteKnown(y) /\ ClusterKnown(y) /\ EndpointKnown(y) /\ ClientKnown(y)
    <3>1. RouteKnown(y)
      BY <1>3, <2>1 DEF RouteKnown
    <3>2. ClusterKnown(y)
      BY <1>3, <2>1 DEF ClusterKnown
    <3>3. EndpointKnown(y)
      BY <1>3, <2>1 DEF EndpointKnown
    <3>4. ClientKnown(y)
      BY <1>4, <2>1 DEF ClientKnown
    <3> QED
      BY <3>1, <3>2, <3>3, <3>4
  <2>4. CallInv(y)
    BY <2>1, <2>3 DEF CallInv, Replies
  <2> QED
    BY <1>1, <2>2, <2>4, OneCall
<1>5. CASE SendPlain(q)
  <2>1. Leave(q, None) /\ r.cluster[1].tls = None /\ clients' = clients
    BY <1>5 DEF SendPlain
  <2>2. CallsInv'
    BY <1>4, <2>1
  <2> QED
    BY <1>1, <1>2, <2>1, <2>2 DEF IndInv, CallsInv, CacheInv
<1>6. CASE SendMtlsUnavailable(q)
  <2>1. clients' = clients
        /\ Reply(q, IF mtls = "disabled" THEN "mTLS_not_configured" ELSE "mTLS_bootstrap_failed")
    BY <1>6 DEF SendMtlsUnavailable
  <2>2. {"mTLS_not_configured", "mTLS_bootstrap_failed"}
          \subseteq Replies \ {"route_has_no_clusters", "cluster_not_found"}
    BY DEF Replies
  <2>3. CallsInv'
    BY <1>1, <2>1, <2>2, ReplyStep
  <2> QED
    BY <1>1, <1>2, <2>1, <2>3 DEF IndInv, CallsInv, CacheInv
<1>7. CASE SendMtls(q) /\ ~ (key \in DOMAIN clients \/ tls_config_loads(tls))
  <2>1. clients' = clients /\ Reply(q, "mTLS_setup_failed")
    BY <1>7 DEF SendMtls
  <2>2. "mTLS_setup_failed" \in Replies \ {"route_has_no_clusters", "cluster_not_found"}
    BY DEF Replies
  <2>3. CallsInv'
    BY <1>1, <2>1, <2>2, ReplyStep
  <2> QED
    BY <1>1, <1>2, <2>1, <2>3 DEF IndInv, CallsInv, CacheInv
<1>8. CASE SendMtls(q) /\ (key \in DOMAIN clients \/ tls_config_loads(tls))
  <2> DEFINE client == IF key \in DOMAIN clients THEN clients[key] ELSE Client(tls)
  <2>1. /\ clients' = [k \in DOMAIN clients \cup {key} |-> IF k = key THEN client ELSE clients[k]]
        /\ Leave(q, Some(client)) /\ r.cluster[1].tls # None
    BY <1>8 DEF SendMtls
  <2>2. tls \in Settings
    BY <1>3, <2>1, KnownSettings
  <2> HIDE DEF r, tls
  <2>3. PICK u \in Settings : key = mtls_cache_key(u) /\ client = Client(u)
    BY <1>1, <2>2 DEF CacheInv
  <2> HIDE DEF client
  <2>4. CacheInv'
    <3> HIDE DEF key
    <3> SUFFICES ASSUME NEW k \in DOMAIN clients'
                 PROVE  \E s \in Settings : k = mtls_cache_key(s) /\ clients'[k] = Client(s)
      BY DEF CacheInv
    <3>1. CASE k = key
      BY <2>1, <2>3, <3>1
    <3>2. CASE k # key
      BY <1>1, <2>1, <3>2 DEF CacheInv
    <3> QED
      BY <3>1, <3>2
  <2>5. MadeFor(tls, Some(client))
    BY <2>3 DEF MadeFor
  <2>6. CallsInv'
    BY <1>4, <2>1, <2>5 DEF tls
  <2> QED
    BY <1>2, <2>4, <2>6 DEF IndInv, CallsInv
<1> QED
  BY <1>5, <1>6, <1>7, <1>8

\* The upstream's answer, a new configuration and a change of the files.
LEMMA EnvironmentStep ==
  ASSUME IndInv,
         \/ \E q \in Requests : UpstreamReplies(q)
         \/ \E cfg \in Configs : ApplyConfig(cfg)
         \/ \E p \in Providers : FilesChange(p)
  PROVE  IndInv'
<1>1. SharedInv /\ CallsInv /\ CacheInv
  BY DEF IndInv, CallsInv
<1>2. ASSUME NEW q \in Requests, UpstreamReplies(q)
      PROVE  IndInv'
  <2>1. PICK r \in {"upstream_reply", "upstream_error"} : Reply(q, r)
    BY <1>2 DEF UpstreamReplies
  <2>2. r \in Replies \ {"route_has_no_clusters", "cluster_not_found"}
    BY DEF Replies
  <2>3. CallsInv'
    BY <1>1, <2>1, <2>2, ReplyStep
  <2> QED
    BY <1>1, <1>2, <2>3 DEF IndInv, CallsInv, UpstreamReplies, SharedInv, CacheInv
<1>3. ASSUME NEW cfg \in Configs, ApplyConfig(cfg)
      PROVE  IndInv'
  BY <1>1, <1>3 DEF ApplyConfig, IndInv, CallsInv, SharedInv, CacheInv
<1>4. ASSUME NEW p \in Providers, FilesChange(p)
      PROVE  IndInv'
  BY <1>1, <1>4 DEF FilesChange, IndInv, CallsInv, SharedInv, CacheInv
<1> QED
  BY <1>2, <1>3, <1>4

-----------------------------------------------------------------------------
(* The theorems                                                            *)

\* The invariant of the calls of forward holds throughout.
THEOREM Invariance == Spec => []IndInv
<1>1. Init => IndInv
  <2> SUFFICES ASSUME Init PROVE IndInv
    OBVIOUS
  <2>1. "none" \in Replies \ {"route_has_no_clusters", "cluster_not_found"}
    BY DEF Replies
  <2>2. CallInv(Idle)
    BY <2>1, RepliedInv
  <2>3. SharedInv
    BY ModuliAssumption DEF Init, SharedInv
  <2>4. CacheInv /\ req = [q \in Requests |-> req[q]]
    BY DEF Init, CacheInv
  <2>5. \A q \in Requests : req[q] = Idle
    BY DEF Init
  <2> QED
    BY <2>2, <2>3, <2>4, <2>5 DEF IndInv
<1>2. IndInv /\ [Next]_vars => IndInv'
  <2> SUFFICES ASSUME IndInv, [Next]_vars PROVE IndInv'
    OBVIOUS
  <2>1. ASSUME NEW q \in Requests, NEW input \in Inputs, Arrive(q, input) PROVE IndInv'
    BY <2>1, ArriveStep
  <2>2. ASSUME NEW q \in Requests, forward(q) PROVE IndInv'
    BY <2>2, PickClusterStep, PickEndpointStep, SendStep DEF forward
  <2>3. CASE \/ \E q \in Requests : UpstreamReplies(q)
             \/ \E cfg \in Configs : ApplyConfig(cfg)
             \/ \E p \in Providers : FilesChange(p)
    BY <2>3, EnvironmentStep
  <2>4. CASE UNCHANGED vars
    BY <2>4 DEF vars, IndInv, SharedInv, CacheInv
  <2> QED
    BY <2>1, <2>2, <2>3, <2>4 DEF Next
<1> QED
  BY <1>1, <1>2, PTL DEF Spec

\* The state of the request path has its type, and a call's choices are those of
\* the configuration it cloned, whatever is applied meanwhile.
THEOREM TypeCorrect == Spec => []TypeOK
<1>1. IndInv => TypeOK
  <2> SUFFICES ASSUME IndInv PROVE TypeOK
    OBVIOUS
  <2>1. ASSUME NEW q \in Requests, req[q].pc \in {"endpoint", "send", "upstream"}
        PROVE  \E c \in DOMAIN req[q].cfg.clusters : req[q].cluster = Some(req[q].cfg.clusters[c])
    BY <2>1 DEF IndInv, CallInv, ClusterKnown
  <2>2. ASSUME NEW q \in Requests, req[q].pc \in {"send", "upstream"}
        PROVE  \E e \in DOMAIN req[q].cluster[1].endpoints :
                 req[q].endpoint = Some(req[q].cluster[1].endpoints[e])
    BY <2>2 DEF IndInv, CallInv, EndpointKnown
  <2>3. \A q \in Requests : Step(req[q]) /\ req[q].reply \in Replies
    BY DEF IndInv, CallInv
  <2> QED
    BY <2>1, <2>2, <2>3 DEF IndInv, SharedInv, Step, TypeOK
<1> QED
  BY <1>1, Invariance, PTL

\* forward never finds a hole in the configuration it works on, however many
\* requests and reloads interleave.
THEOREM NoHole == Spec => []NoConfigurationHole
<1>1. IndInv => NoConfigurationHole
  BY DEF IndInv, CallInv, NoConfigurationHole
<1> QED
  BY <1>1, Invariance, PTL

\* A drained cluster gets no request, for all weights and at every wrap of the
\* arithmetic, unless the weights add up to zero.
THEOREM NoDrainedCluster == Spec => []DrainedClusterUnused
<1>1. IndInv => DrainedClusterUnused
  <2> SUFFICES ASSUME IndInv, NEW q \in Requests, req[q].pc \in {"endpoint", "send", "upstream"}
               PROVE  \E i \in DOMAIN req[q].route :
                        /\ req[q].route[i].name = req[q].cluster[1].name
                        /\ req[q].route[i].weight > 0 \/ TotalWeight(req[q].route) = 0
    BY DEF DrainedClusterUnused
  <2>1. ClusterKnown(req[q])
    BY DEF IndInv, CallInv
  <2> QED
    BY <2>1 DEF ClusterKnown, Some
<1> QED
  BY <1>1, Invariance, PTL

\* A request leaves for a healthy endpoint of its own configuration.
THEOREM HealthyDestination == Spec => []SentToHealthyDestination
<1>1. IndInv => SentToHealthyDestination
  <2> SUFFICES ASSUME IndInv, NEW q \in Requests, req[q].pc = "upstream"
               PROVE  \E i \in DOMAIN req[q].cfg.clusters, j \in DOMAIN req[q].route :
                        LET c == req[q].cfg.clusters[i] IN
                          /\ c.name = req[q].route[j].name
                          /\ \E k \in DOMAIN c.endpoints :
                               c.endpoints[k] = req[q].endpoint[1] /\ c.endpoints[k].healthy
    BY DEF SentToHealthyDestination
  <2>1. ClusterKnown(req[q]) /\ EndpointKnown(req[q])
    BY DEF IndInv, CallInv
  <2> DEFINE r == req[q]
  <2>2. PICK i \in DOMAIN r.cfg.clusters, j \in DOMAIN r.route :
          r.cluster = Some(r.cfg.clusters[i]) /\ r.route[j].name = r.cfg.clusters[i].name
    BY <2>1 DEF ClusterKnown
  <2>3. r.cluster[1] = r.cfg.clusters[i]
    BY <2>2 DEF Some
  <2>4. PICK k \in DOMAIN r.cfg.clusters[i].endpoints :
          r.endpoint = Some(r.cfg.clusters[i].endpoints[k]) /\ r.cfg.clusters[i].endpoints[k].healthy
    BY <2>1, <2>3 DEF EndpointKnown
  <2>5. r.endpoint[1] = r.cfg.clusters[i].endpoints[k]
    <3> DEFINE e == r.cfg.clusters[i].endpoints[k]
    <3>1. r.endpoint = <<e>>
      BY <2>4 DEF Some
    <3> HIDE DEF e
    <3>2. r.endpoint[1] = e
      BY ONLY <3>1
    <3> QED
      BY <3>2 DEF e
  <2> QED
    BY <2>2, <2>4, <2>5
<1> QED
  BY <1>1, Invariance, PTL

\* For any names in the settings, a request to a TLS cluster leaves through an mTLS
\* client of the cluster's key, never in plaintext, and that client is the one the
\* cluster's own settings make, unless a name contains the separator of the key.
THEOREM OwnClient == Spec => []SentAsClusterRequires
<1>1. IndInv => SentAsClusterRequires
  <2> SUFFICES ASSUME IndInv, NEW q \in Requests, req[q].pc = "upstream"
               PROVE  LET tls == req[q].cluster[1].tls IN
                        IF tls = None THEN req[q].client = None
                        ELSE \E s \in Settings :
                               /\ req[q].client = Some(Client(s))
                               /\ mtls_cache_key(s) = mtls_cache_key(tls[1])
                               /\ Separable(s) /\ Separable(tls[1]) => Client(s) = Client(tls[1])
    BY DEF SentAsClusterRequires
  <2> DEFINE tls == req[q].cluster[1].tls
  <2>1. RouteKnown(req[q]) /\ ClusterKnown(req[q]) /\ ClientKnown(req[q])
    BY DEF IndInv, CallInv
  <2>2. CASE tls = None
    BY <2>1, <2>2 DEF ClientKnown
  <2>3. CASE tls # None
    <3>1. tls[1] \in Settings
      BY <2>1, <2>3, KnownSettings
    <3>2. PICK s \in Settings :
            req[q].client = Some(Client(s)) /\ mtls_cache_key(s) = mtls_cache_key(tls[1])
      BY <2>1, <2>3 DEF ClientKnown, MadeFor
    <3>3. Separable(s) /\ Separable(tls[1]) => Client(s) = Client(tls[1])
      BY <3>1, <3>2, SettingsTyped, KeyDeterminesClient
    <3> QED
      BY <2>3, <3>2, <3>3
  <2> QED
    BY <2>2, <2>3
<1> QED
  BY <1>1, Invariance, PTL

==============================================================================
