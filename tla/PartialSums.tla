----------------------------- MODULE PartialSums -----------------------------
(***************************************************************************)
(* Sums over an initial segment of the numbers, with the facts about them  *)
(* that proofs need.  A sum is a recursive function, so that its recursion *)
(* can be unfolded in a proof; the least number principle takes the place  *)
(* of induction.                                                           *)
(***************************************************************************)
EXTENDS Naturals, FiniteSetTheorems, TLAPS

\* count[1] + ... + count[k]
SumTo(count, k) ==
  LET upTo[n \in 0 .. k] == IF n = 0 THEN 0 ELSE upTo[n - 1] + count[n]
  IN  upTo[k]

\* The least number principle, from the finite sets being well founded under
\* strict inclusion: the intervals 1 .. n stand for the numbers n.
LEMMA LeastNumber ==
  ASSUME NEW S \in SUBSET Nat, S # {}
  PROVE  \E m \in S : \A n \in S : m <= n
<1> DEFINE T == {1 .. n : n \in S}
           R == StrictSubsetOrdering(Nat)
<1>1. IsWellFoundedOn(R, FiniteSubsetsOf(Nat))
  BY FS_StrictSubsetOrderingWellFounded
<1>2. T \subseteq FiniteSubsetsOf(Nat) /\ T # {}
  <2>1. \A n \in S : IsFiniteSet(1 .. n) /\ 1 .. n \in SUBSET Nat
    BY FS_Interval
  <2> QED BY <2>1 DEF FiniteSubsetsOf
<1> HIDE DEF R, T
<1>3. PICK t \in T : \A y \in T : ~(<<y, t>> \in R)
  BY <1>1, <1>2, WFMin
<1>4. PICK m \in S : t = 1 .. m
  BY DEF T
<1>5. ASSUME NEW n \in S, n < m PROVE FALSE
  <2>1. 1 .. n \in T
    BY DEF T
  <2>2. 1 .. n \subseteq 1 .. m /\ 1 .. n # 1 .. m
    <3>1. m \in 1 .. m /\ m \notin 1 .. n
      BY <1>5
    <3> QED BY <1>5, <3>1
  <2>3. <<1 .. n, 1 .. m>> \in R
    <3>1. 1 .. n \in SUBSET Nat /\ 1 .. m \in SUBSET Nat
      OBVIOUS
    <3> QED BY <3>1, <2>2 DEF R, StrictSubsetOrdering
  <2> QED BY <1>3, <1>4, <2>1, <2>3
<1> QED BY <1>5

\* What a function must satisfy to hold the sums of count up to n.
Sums(count, n) ==
  {g \in [0 .. n -> Nat] : g[0] = 0 /\ \A b \in 1 .. n : g[b] = g[b - 1] + count[b]}

LEMMA SumsExist ==
  ASSUME NEW size \in Nat, NEW count \in [1 .. size -> Nat]
  PROVE  \A n \in 0 .. size : Sums(count, n) # {}
<1> DEFINE S == {n \in 0 .. size : Sums(count, n) = {}}
<1> SUFFICES ASSUME S # {} PROVE FALSE
  OBVIOUS
<1>1. S \in SUBSET Nat
  OBVIOUS
<1>2. PICK n \in S : \A m \in S : n <= m
  BY <1>1, LeastNumber
<1>3. CASE n = 0
  <2>1. [b \in 0 .. 0 |-> 0] \in Sums(count, 0)
    BY DEF Sums
  <2> QED BY <2>1, <1>2, <1>3
<1>4. CASE n # 0
  <2>1. n - 1 \in 0 .. size /\ n - 1 \notin S /\ n \in 1 .. size
    BY <1>2, <1>4
  <2>2. PICK g \in [0 .. n - 1 -> Nat] :
           g[0] = 0 /\ \A b \in 1 .. n - 1 : g[b] = g[b - 1] + count[b]
    BY <2>1 DEF Sums
  <2> DEFINE h == [b \in 0 .. n |-> IF b = n THEN g[n - 1] + count[n] ELSE g[b]]
  <2>3. h \in [0 .. n -> Nat]
    BY <2>1
  <2>4. h[0] = 0
    BY <2>1, <2>2
  <2>5. ASSUME NEW b \in 1 .. n PROVE h[b] = h[b - 1] + count[b]
    <3>1. CASE b = n
      <4>1. h[n] = g[n - 1] + count[n] /\ h[n - 1] = g[n - 1]
        BY <2>1
      <4> QED BY <3>1, <4>1
    <3>2. CASE b # n
      <4>1. b \in 1 .. n - 1
        BY <3>2, <2>1
      <4>2. h[b] = g[b] /\ h[b - 1] = g[b - 1]
        BY <4>1, <2>1
      <4> QED BY <4>1, <4>2, <2>2
    <3> QED BY <3>1, <3>2
  <2> HIDE DEF h
  <2>6. h \in Sums(count, n)
    BY <2>3, <2>4, <2>5 DEF Sums
  <2> QED BY <2>6, <1>2
<1> QED BY <1>3, <1>4

\* The recursion of SumTo has a solution, and it is the one of Sums.
LEMMA SumToIsASum ==
  ASSUME NEW size \in Nat, NEW count \in [1 .. size -> Nat], NEW g \in Sums(count, size),
         NEW k \in 0 .. size
  PROVE  SumTo(count, k) = g[k]
<1> DEFINE P(f) == f = [b \in 0 .. k |-> IF b = 0 THEN 0 ELSE f[b - 1] + count[b]]
           s == CHOOSE f : P(f)
           h == [b \in 0 .. k |-> g[b]]
<1>1. g \in [0 .. size -> Nat] /\ g[0] = 0 /\ \A b \in 1 .. size : g[b] = g[b - 1] + count[b]
  BY DEF Sums
<1>2. P(h)
  <2>1. ASSUME NEW b \in 0 .. k
        PROVE  h[b] = IF b = 0 THEN 0 ELSE h[b - 1] + count[b]
    <3>1. CASE b = 0
      BY <1>1, <3>1
    <3>2. CASE b # 0
      <4>1. b \in 1 .. size /\ b - 1 \in 0 .. k
        BY <3>2
      <4>2. h[b] = g[b] /\ h[b - 1] = g[b - 1]
        BY <4>1
      <4> QED BY <1>1, <3>2, <4>1, <4>2
    <3> QED BY <3>1, <3>2
  <2> HIDE DEF h
  <2>2. h = [b \in 0 .. k |-> h[b]]
    BY DEF h
  <2>3. [b \in 0 .. k |-> h[b]]
          = [b \in 0 .. k |-> IF b = 0 THEN 0 ELSE h[b - 1] + count[b]]
    BY <2>1
  <2> QED BY <2>2, <2>3
<1>3. P(s)
  <2> HIDE DEF P
  <2> QED BY <1>2
<1>4. SumTo(count, k) = s[k]
  BY DEF SumTo
<1> HIDE DEF s, h
<1>5. \A b \in 0 .. k : s[b] = IF b = 0 THEN 0 ELSE s[b - 1] + count[b]
  BY <1>3
<1>6. \A b \in 0 .. k : s[b] = g[b]
  <2> DEFINE S == {n \in 0 .. k : s[n] # g[n]}
  <2> SUFFICES ASSUME S # {} PROVE FALSE
    OBVIOUS
  <2>1. S \in SUBSET Nat
    OBVIOUS
  <2>2. PICK n \in S : \A m \in S : n <= m
    BY <2>1, LeastNumber
  <2>3. n # 0 /\ n \in 0 .. k /\ n \in 1 .. size
    BY <1>1, <1>5, <2>2
  <2>4. n - 1 \in 0 .. k /\ n - 1 \notin S
    BY <2>2, <2>3
  <2>5. s[n] = s[n - 1] + count[n] /\ g[n] = g[n - 1] + count[n]
    BY <1>1, <1>5, <2>3
  <2> QED BY <2>2, <2>4, <2>5
<1> QED BY <1>4, <1>6

\* SumTo unfolds as it is written.
LEMMA SumUnfolds ==
  ASSUME NEW size \in Nat, NEW count \in [1 .. size -> Nat]
  PROVE  /\ SumTo(count, 0) = 0
         /\ \A k \in 0 .. size : SumTo(count, k) \in Nat
         /\ \A k \in 1 .. size : SumTo(count, k) = SumTo(count, k - 1) + count[k]
<1>1. Sums(count, size) # {}
  BY SumsExist
<1>2. PICK g : g \in Sums(count, size)
  BY <1>1
<1>3. g \in [0 .. size -> Nat] /\ g[0] = 0 /\ \A b \in 1 .. size : g[b] = g[b - 1] + count[b]
  BY <1>2 DEF Sums
<1>4. \A k \in 0 .. size : SumTo(count, k) = g[k]
  BY <1>2, SumToIsASum
<1>5. \A k \in 1 .. size : k \in 0 .. size /\ k - 1 \in 0 .. size
  OBVIOUS
<1> QED BY <1>3, <1>4, <1>5

\* f and g count the same up to k.
SameTo(f, g, k) == \A i \in 1 .. k : f[i] = g[i]

\* g counts d more than f at b, and the same elsewhere.
MoreAt(f, g, size, b, d) == g[b] = f[b] + d /\ \A k \in 1 .. size : k # b => g[k] = f[k]

\* A sum depends on what it adds up, and on nothing else.
LEMMA SumOfSame ==
  ASSUME NEW m \in Nat, NEW n \in Nat, NEW f \in [1 .. m -> Nat], NEW g \in [1 .. n -> Nat],
         NEW k \in Nat, k <= m, k <= n, SameTo(f, g, k)
  PROVE  SumTo(f, k) = SumTo(g, k)
<1> USE DEF SameTo
<1> DEFINE S == {i \in 0 .. k : SumTo(f, i) # SumTo(g, i)}
<1> SUFFICES ASSUME S # {} PROVE FALSE
  BY DEF S
<1>1. S \in SUBSET Nat
  OBVIOUS
<1>2. PICK i \in S : \A j \in S : i <= j
  BY <1>1, LeastNumber
<1>3. i # 0
  BY <1>2, SumUnfolds
<1>4. i \in 1 .. m /\ i \in 1 .. n /\ i \in 1 .. k /\ i - 1 \in 0 .. k /\ i - 1 \notin S
  BY <1>2, <1>3
<1>5. SumTo(f, i) = SumTo(f, i - 1) + f[i] /\ SumTo(g, i) = SumTo(g, i - 1) + g[i]
  BY <1>4, SumUnfolds
<1> QED BY <1>2, <1>4, <1>5

\* Counting d more in one place adds d to every sum that reaches it.
LEMMA SumGrows ==
  ASSUME NEW size \in Nat, NEW f \in [1 .. size -> Nat], NEW g \in [1 .. size -> Nat],
         NEW b \in 1 .. size, NEW d \in Nat, MoreAt(f, g, size, b, d)
  PROVE  \A k \in 0 .. size : SumTo(g, k) = SumTo(f, k) + (IF k >= b THEN d ELSE 0)
<1> USE DEF MoreAt
<1> DEFINE S == {k \in 0 .. size : SumTo(g, k) # SumTo(f, k) + (IF k >= b THEN d ELSE 0)}
<1> SUFFICES ASSUME S # {} PROVE FALSE
  OBVIOUS
<1>1. S \in SUBSET Nat
  OBVIOUS
<1>2. PICK n \in S : \A m \in S : n <= m
  BY <1>1, LeastNumber
<1>3. /\ SumTo(f, 0) = 0 /\ SumTo(g, 0) = 0
      /\ \A k \in 0 .. size : SumTo(f, k) \in Nat /\ SumTo(g, k) \in Nat
      /\ \A k \in 1 .. size : /\ SumTo(f, k) = SumTo(f, k - 1) + f[k]
                              /\ SumTo(g, k) = SumTo(g, k - 1) + g[k]
  BY SumUnfolds
<1>4. n # 0 /\ n \in 1 .. size
  <2>1. ~(0 >= b)
    OBVIOUS
  <2>2. SumTo(g, 0) = SumTo(f, 0) + (IF 0 >= b THEN d ELSE 0)
    BY <1>3, <2>1
  <2>3. n # 0
    BY <1>2, <2>2
  <2> QED BY <1>2, <2>3
<1>5. n - 1 \in 0 .. size /\ n - 1 \notin S
  BY <1>2, <1>4
<1>6. SumTo(g, n - 1) = SumTo(f, n - 1) + (IF n - 1 >= b THEN d ELSE 0)
  BY <1>5
<1>7. /\ SumTo(f, n) = SumTo(f, n - 1) + f[n]
      /\ SumTo(g, n) = SumTo(g, n - 1) + g[n]
      /\ SumTo(f, n - 1) \in Nat /\ f[n] \in Nat
  BY <1>3, <1>4, <1>5
<1>8. SumTo(g, n) = SumTo(f, n) + (IF n >= b THEN d ELSE 0)
  <2>1. CASE n = b
    BY <1>4, <1>6, <1>7, <2>1
  <2>2. CASE n # b
    <3>1. g[n] = f[n] /\ (n - 1 >= b <=> n >= b)
      BY <1>4, <2>2
    <3> QED BY <1>6, <1>7, <3>1
  <2> QED BY <2>1, <2>2
<1> QED BY <1>2, <1>8

\* One more to add adds it to the sum.
LEMMA SumOfOneMore ==
  ASSUME NEW n \in Nat, NEW f \in [1 .. n -> Nat], NEW g \in [1 .. n + 1 -> Nat],
         SameTo(f, g, n)
  PROVE  SumTo(g, n + 1) = SumTo(f, n) + g[n + 1]
<1>1. SumTo(f, n) = SumTo(g, n)
  BY SumOfSame
<1>2. n + 1 \in Nat /\ n + 1 \in 1 .. n + 1 /\ n + 1 - 1 = n
  OBVIOUS
<1>3. SumTo(g, n + 1) = SumTo(g, n + 1 - 1) + g[n + 1]
  BY <1>2, SumUnfolds
<1> QED BY <1>1, <1>2, <1>3

\* Nothing sums up to nothing.
LEMMA SumOfZeros ==
  ASSUME NEW size \in Nat, NEW f \in [1 .. size -> Nat], \A k \in 1 .. size : f[k] = 0
  PROVE  SumTo(f, size) = 0
<1> DEFINE S == {k \in 0 .. size : SumTo(f, k) # 0}
<1> SUFFICES ASSUME S # {} PROVE FALSE
  OBVIOUS
<1>1. S \in SUBSET Nat
  OBVIOUS
<1>2. PICK n \in S : \A m \in S : n <= m
  BY <1>1, LeastNumber
<1>3. n # 0 /\ n \in 1 .. size
  <2>1. SumTo(f, 0) = 0
    BY SumUnfolds
  <2> QED BY <2>1, <1>2
<1>4. n - 1 \in 0 .. size /\ n - 1 \notin S
  BY <1>2, <1>3
<1>5. SumTo(f, n) = SumTo(f, n - 1) + f[n]
  BY <1>3, SumUnfolds
<1> QED BY <1>2, <1>3, <1>4, <1>5

=============================================================================
