------------------------------ MODULE Recursion ------------------------------
(***************************************************************************)
(* Induction and recursion in the form the provers can use: over sets, not *)
(* over predicates.  A property P of numbers is the set {n : P(n)}; a step *)
(* of a recursion is a function.  The induction rests on the library's     *)
(* theorem that strict inclusion of finite sets is well founded.  Then the *)
(* facts about the sums of module Sums.                                    *)
(***************************************************************************)
EXTENDS Sums, Orders, FiniteSetTheorems, WellFoundedInduction, SequenceTheorems, TLAPS

(* Induction over the naturals: the least n outside S would have a          *)
(* predecessor in it.                                                       *)
LEMMA NatInductionOnSets ==
  ASSUME NEW S, 0 \in S, \A n \in Nat : n \in S => n + 1 \in S
  PROVE  Nat \subseteq S
<1> DEFINE T == {0..n : n \in Nat \ S}
           R == StrictSubsetOrdering(Nat)
           F == FiniteSubsetsOf(Nat)
<1> SUFFICES ASSUME Nat \ S # {} PROVE FALSE
  OBVIOUS
<1>1. IsWellFoundedOn(R, F)
  BY FS_StrictSubsetOrderingWellFounded
<1>2. T # {} /\ T \subseteq F
  <2>1. ASSUME NEW n \in Nat PROVE 0..n \in F
    <3>1. IsFiniteSet(0..n)
      BY FS_Interval
    <3> QED BY <3>1 DEF FiniteSubsetsOf
  <2> QED BY <2>1
<1>3. PICK x \in T : \A y \in T : ~ (<<y, x>> \in R)
  <2> HIDE DEF T, R, F
  <2> QED BY <1>1, <1>2, WFMin
<1>4. PICK n \in Nat \ S : x = 0..n
  OBVIOUS
<1>5. n # 0 /\ n - 1 \in Nat /\ n - 1 + 1 = n
  OBVIOUS
<1>6. n - 1 \notin S
  BY <1>4, <1>5
<1>7. 0..(n - 1) \in T
  BY <1>5, <1>6
<1>8. <<0..(n - 1), x>> \in R
  BY <1>4, <1>5 DEF StrictSubsetOrdering
<1> QED BY <1>3, <1>7, <1>8

(* Induction over an interval of integers.                                  *)
Hereditary(S, m, n) == \A i \in Int : m < i /\ i <= n /\ i - 1 \in S => i \in S

LEMMA IntervalInduction ==
  ASSUME NEW m \in Int, NEW n \in Int, NEW S, m \in S, Hereditary(S, m, n)
  PROVE  m..n \subseteq S
<1> DEFINE T == {k \in Nat : m + k <= n => m + k \in S}
<1>1. 0 \in T
  OBVIOUS
<1>2. ASSUME NEW k \in Nat, k \in T PROVE k + 1 \in T
  <2>1. CASE m + (k + 1) <= n
    <3>1. /\ m + k \in S /\ m + (k + 1) \in Int /\ m < m + (k + 1)
          /\ m + (k + 1) - 1 = m + k
      BY <2>1, <1>2
    <3> QED BY <2>1, <3>1 DEF Hereditary
  <2> QED BY <2>1
<1>3. Nat \subseteq T
  <2> HIDE DEF T
  <2> QED BY <1>1, <1>2, NatInductionOnSets
<1>4. ASSUME NEW i \in m..n PROVE i \in S
  <2>1. i - m \in T /\ m + (i - m) = i /\ i <= n
    BY <1>3
  <2> QED BY <2>1
<1> QED BY <1>4

Recursively(g, m, n, base, step) ==
  \A i \in m..n : g[i] = IF i = m THEN base ELSE step[i][g[i - 1]]

(* A recursion over an interval whose steps stay in V has a solution.       *)
LEMMA RecursionSolved ==
  ASSUME NEW m \in Int, NEW n \in Int, m <= n, NEW V, NEW base \in V,
         NEW step \in [Int -> [V -> V]]
  PROVE  \E g \in [m..n -> V] : Recursively(g, m, n, base, step)
<1> DEFINE Solves(g, k) == \A i \in m..k : g[i] = IF i = m THEN base ELSE step[i][g[i - 1]]
           S == {k \in m..n : \E g \in [m..k -> V] : Solves(g, k)}
<1>1. m \in S
  <2> DEFINE g == [i \in m..m |-> base]
  <2>1. g \in [m..m -> V] /\ Solves(g, m)
    OBVIOUS
  <2>2. m \in m..n
    OBVIOUS
  <2> HIDE DEF g
  <2> QED BY <2>1, <2>2
<1>2. ASSUME NEW k \in Int, m < k, k <= n, k - 1 \in S PROVE k \in S
  <2>1. PICK g \in [m..(k - 1) -> V] : Solves(g, k - 1)
    BY <1>2
  <2> DEFINE h == [i \in m..k |-> IF i = k THEN step[k][g[k - 1]] ELSE g[i]]
  <2>2. step[k][g[k - 1]] \in V
    BY <1>2, <2>1
  <2>3. h \in [m..k -> V]
    BY <2>1, <2>2
  <2>4. ASSUME NEW i \in m..k PROVE h[i] = IF i = m THEN base ELSE step[i][h[i - 1]]
    <3>1. CASE i = k
      <4>1. h[k] = step[k][g[k - 1]] /\ h[k - 1] = g[k - 1] /\ k # m
        BY <1>2
      <4> QED BY <3>1, <4>1
    <3>2. CASE i # k
      <4>1. i \in m..(k - 1) /\ h[i] = g[i]
        BY <3>2
      <4>2. i # m => h[i - 1] = g[i - 1]
        BY <4>1
      <4> QED BY <2>1, <4>1, <4>2
    <3> QED BY <3>1, <3>2
  <2>5. k \in m..n
    BY <1>2
  <2> HIDE DEF h
  <2> QED BY <2>3, <2>4, <2>5
<1>3. m..n \subseteq S
  <2> HIDE DEF S
  <2>1. Hereditary(S, m, n)
    BY <1>2 DEF Hereditary
  <2> QED BY <1>1, <2>1, IntervalInduction
<1> QED BY <1>3 DEF Recursively

(* A set of integers between 0 and n that is not empty has a greatest.      *)
LEMMA GreatestExists ==
  ASSUME NEW n \in Nat, NEW S \in SUBSET (0..n), S # {}
  PROVE  \E x \in S : \A y \in S : x >= y
<1> DEFINE T == {k \in 0..n : \A U \in SUBSET (0..k) :
                                U # {} => \E x \in U : \A y \in U : x >= y}
<1>1. 0 \in T
  <2>1. ASSUME NEW U \in SUBSET (0..0), U # {} PROVE \E x \in U : \A y \in U : x >= y
    <3>1. \A y \in U : y = 0
      BY <2>1
    <3>2. PICK x \in U : TRUE
      BY <2>1
    <3> QED BY <3>1, <3>2
  <2> QED BY <2>1
<1>2. ASSUME NEW k \in Int, 0 < k, k <= n, k - 1 \in T PROVE k \in T
  <2>1. ASSUME NEW U \in SUBSET (0..k), U # {} PROVE \E x \in U : \A y \in U : x >= y
    <3>1. CASE k \in U
      BY <1>2, <3>1
    <3>2. CASE k \notin U
      <4>1. U \in SUBSET (0..(k - 1))
        BY <1>2, <3>2
      <4> QED BY <1>2, <2>1, <4>1
    <3> QED BY <3>1, <3>2
  <2> QED BY <1>2, <2>1
<1>3. 0..n \subseteq T
  <2> HIDE DEF T
  <2>1. Hereditary(T, 0, n)
    BY <1>2 DEF Hereditary
  <2> QED BY <1>1, <2>1, IntervalInduction
<1>4. n \in T
  <2> HIDE DEF T
  <2> QED BY <1>3
<1> QED BY <1>4

-----------------------------------------------------------------------------
(* The defining equation of a sum: the recursion in Total is well defined.  *)
Summands(q, m, n) == \A i \in m..n : q[i] \in Int

LEMMA TotalSolved ==
  ASSUME NEW q, NEW m \in Int, NEW n \in Int, m - 1 <= n, Summands(q, m, n)
  PROVE  \E f \in [(m - 1)..n -> Int] :
           /\ f = [i \in (m - 1)..n |-> IF i < m THEN 0 ELSE f[i - 1] + q[i]]
           /\ Total(q, m, n) = f[n]
<1> DEFINE Eq(g) == g = [i \in (m - 1)..n |-> IF i < m THEN 0 ELSE g[i - 1] + q[i]]
           step == [i \in Int |-> [u \in Int |-> IF i \in m..n THEN u + q[i] ELSE u]]
<1>1. PICK g \in [(m - 1)..n -> Int] : Recursively(g, m - 1, n, 0, step)
  <2>1. step \in [Int -> [Int -> Int]]
    BY DEF Summands
  <2>2. m - 1 \in Int /\ n \in Int /\ m - 1 <= n /\ 0 \in Int
    OBVIOUS
  <2> HIDE DEF step
  <2> QED BY <2>1, <2>2, RecursionSolved
<1>2. Eq(g)
  <2>1. ASSUME NEW i \in (m - 1)..n
        PROVE  g[i] = IF i < m THEN 0 ELSE g[i - 1] + q[i]
    <3>1. CASE i = m - 1
      <4>1. i < m
        BY <3>1
      <4> QED BY <1>1, <3>1, <4>1 DEF Recursively
    <3>2. CASE i # m - 1
      <4>1. i \in m..n /\ i - 1 \in (m - 1)..n /\ ~(i < m)
        BY <3>2
      <4>2. g[i - 1] \in Int
        BY <4>1
      <4>3. g[i] = step[i][g[i - 1]]
        BY <1>1, <3>2 DEF Recursively
      <4> QED BY <4>1, <4>2, <4>3
    <3> QED BY <3>1, <3>2
  <2> QED BY <2>1
<1> DEFINE f == CHOOSE h : Eq(h)
<1>3. Eq(f)
  BY <1>2
<1>4. f = [i \in (m - 1)..n |-> IF i < m THEN 0 ELSE f[i - 1] + q[i]]
  BY <1>3
<1>5. Total(q, m, n) = f[n]
  BY DEF Total
<1> HIDE DEF f
<1>6. (m - 1)..n \subseteq {i \in (m - 1)..n : f[i] \in Int}
  <2> DEFINE S == {i \in (m - 1)..n : f[i] \in Int}
  <2>1. m - 1 \in S
    BY <1>4
  <2>2. ASSUME NEW i \in Int, m - 1 < i, i <= n, i - 1 \in S PROVE i \in S
    BY <2>2, <1>4 DEF Summands
  <2> HIDE DEF S
  <2>3. Hereditary(S, m - 1, n)
    BY <2>2 DEF Hereditary
  <2>4. (m - 1)..n \subseteq S
    BY <2>1, <2>3, IntervalInduction
  <2> QED BY <2>4 DEF S
<1>7. f \in [(m - 1)..n -> Int]
  BY <1>4, <1>6
<1> QED BY <1>4, <1>5, <1>7

(* Sums that agree on their summands are equal.                             *)
LEMMA TotalAgrees ==
  ASSUME NEW q, NEW r, NEW m \in Int, NEW n \in Int, m - 1 <= n,
         Summands(q, m, n), \A i \in m..n : q[i] = r[i]
  PROVE  Total(q, m, n) = Total(r, m, n)
<1>1. Summands(r, m, n)
  BY DEF Summands
<1>2. PICK f \in [(m - 1)..n -> Int] :
        /\ f = [i \in (m - 1)..n |-> IF i < m THEN 0 ELSE f[i - 1] + q[i]]
        /\ Total(q, m, n) = f[n]
  BY TotalSolved
<1>3. PICK g \in [(m - 1)..n -> Int] :
        /\ g = [i \in (m - 1)..n |-> IF i < m THEN 0 ELSE g[i - 1] + r[i]]
        /\ Total(r, m, n) = g[n]
  BY <1>1, TotalSolved
<1> DEFINE S == {i \in (m - 1)..n : f[i] = g[i]}
<1>4. m - 1 \in S
  BY <1>2, <1>3
<1>5. ASSUME NEW i \in Int, m - 1 < i, i <= n, i - 1 \in S PROVE i \in S
  BY <1>2, <1>3, <1>5
<1>6. (m - 1)..n \subseteq S
  <2> HIDE DEF S
  <2>1. Hereditary(S, m - 1, n)
    BY <1>5 DEF Hereditary
  <2> QED BY <1>4, <2>1, IntervalInduction
<1> QED BY <1>2, <1>3, <1>6

(* A sum without its last summand.                                          *)
LEMMA TotalStep ==
  ASSUME NEW q, NEW m \in Int, NEW n \in Int, m <= n, Summands(q, m, n)
  PROVE  Total(q, m, n) = Total(q, m, n - 1) + q[n]
<1>1. PICK f \in [(m - 1)..n -> Int] :
        /\ f = [i \in (m - 1)..n |-> IF i < m THEN 0 ELSE f[i - 1] + q[i]]
        /\ Total(q, m, n) = f[n]
  BY TotalSolved
<1>2. Summands(q, m, n - 1) /\ n - 1 \in Int /\ m - 1 <= n - 1
  BY DEF Summands
<1>3. PICK g \in [(m - 1)..(n - 1) -> Int] :
        /\ g = [i \in (m - 1)..(n - 1) |-> IF i < m THEN 0 ELSE g[i - 1] + q[i]]
        /\ Total(q, m, n - 1) = g[n - 1]
  BY <1>2, TotalSolved
<1> DEFINE S == {i \in (m - 1)..(n - 1) : f[i] = g[i]}
<1>4. m - 1 \in S
  BY <1>1, <1>3
<1>5. ASSUME NEW i \in Int, m - 1 < i, i <= n - 1, i - 1 \in S PROVE i \in S
  BY <1>1, <1>3, <1>5
<1>6. (m - 1)..(n - 1) \subseteq S
  <2> HIDE DEF S
  <2>1. Hereditary(S, m - 1, n - 1)
    BY <1>5 DEF Hereditary
  <2> QED BY <1>2, <1>4, <2>1, IntervalInduction
<1>7. f[n] = f[n - 1] + q[n]
  BY <1>1
<1>8. n - 1 \in (m - 1)..(n - 1)
  OBVIOUS
<1>9. f[n - 1] = g[n - 1]
  BY <1>6, <1>8
<1> QED BY <1>1, <1>3, <1>7, <1>9

LEMMA TotalType ==
  ASSUME NEW q, NEW m \in Int, NEW n \in Int, m - 1 <= n, Summands(q, m, n)
  PROVE  /\ Total(q, m, n) \in Int
         /\ n = m - 1 => Total(q, m, n) = 0
<1>1. PICK f \in [(m - 1)..n -> Int] :
        /\ f = [i \in (m - 1)..n |-> IF i < m THEN 0 ELSE f[i - 1] + q[i]]
        /\ Total(q, m, n) = f[n]
  BY TotalSolved
<1> QED BY <1>1

(* One summand changes: so does the sum, by as much.                        *)
LEMMA TotalUpdate ==
  ASSUME NEW q, NEW r, NEW m \in Int, NEW n \in Int, m - 1 <= n, NEW k \in m..n,
         Summands(q, m, n), Summands(r, m, n),
         \A i \in m..n : i # k => r[i] = q[i]
  PROVE  Total(r, m, n) = Total(q, m, n) + r[k] - q[k]
<1> DEFINE S == {j \in k..n : Total(r, m, j) = Total(q, m, j) + r[k] - q[k]}
<1>1. ASSUME NEW j \in Int, m - 1 <= j, j <= n
      PROVE  Summands(q, m, j) /\ Summands(r, m, j) /\ Total(q, m, j) \in Int
  <2>1. Summands(q, m, j) /\ Summands(r, m, j)
    BY <1>1 DEF Summands
  <2> QED BY <1>1, <2>1, TotalType
<1>2. k \in S
  <2>1. k \in Int /\ m <= k /\ k <= n /\ k - 1 \in Int /\ m - 1 <= k - 1
    OBVIOUS
  <2>2. Total(q, m, k - 1) = Total(r, m, k - 1)
    <3>1. \A i \in m..(k - 1) : q[i] = r[i]
      OBVIOUS
    <3>2. Summands(q, m, k - 1)
      BY <1>1, <2>1
    <3> QED BY <2>1, <3>1, <3>2, TotalAgrees
  <2>3. Total(q, m, k) = Total(q, m, k - 1) + q[k] /\ Total(r, m, k) = Total(r, m, k - 1) + r[k]
    BY <1>1, <2>1, TotalStep
  <2>4. q[k] \in Int /\ r[k] \in Int /\ Total(q, m, k - 1) \in Int
    BY <1>1, <2>1 DEF Summands
  <2> QED BY <2>2, <2>3, <2>4
<1>3. ASSUME NEW j \in Int, k < j, j <= n, j - 1 \in S PROVE j \in S
  <2>1. j \in Int /\ m <= j /\ j <= n /\ j - 1 \in Int /\ m - 1 <= j - 1 /\ j \in k..n
    BY <1>3
  <2>2. Total(q, m, j) = Total(q, m, j - 1) + q[j] /\ Total(r, m, j) = Total(r, m, j - 1) + r[j]
    BY <1>1, <2>1, TotalStep
  <2>3. /\ q[k] \in Int /\ r[k] \in Int /\ q[j] \in Int /\ r[j] = q[j]
        /\ Total(q, m, j - 1) \in Int
    BY <1>1, <1>3, <2>1 DEF Summands
  <2>4. Total(r, m, j - 1) = Total(q, m, j - 1) + r[k] - q[k]
    BY <1>3
  <2> QED BY <2>1, <2>2, <2>3, <2>4
<1>4. k..n \subseteq S
  <2> HIDE DEF S
  <2>1. Hereditary(S, k, n)
    BY <1>3 DEF Hereditary
  <2> QED BY <1>2, <2>1, IntervalInduction
<1>5. n \in k..n
  OBVIOUS
<1> QED BY <1>4, <1>5

(* A sum of quantities that are not negative is not negative.               *)
LEMMA TotalNotNegative ==
  ASSUME NEW q, NEW m \in Int, NEW n \in Int, m - 1 <= n,
         \A i \in m..n : q[i] \in Nat
  PROVE  Total(q, m, n) \in Nat
<1> DEFINE S == {j \in (m - 1)..n : Total(q, m, j) \in Nat}
<1>1. ASSUME NEW j \in Int, m - 1 <= j, j <= n PROVE Summands(q, m, j)
  BY <1>1 DEF Summands
<1>2. m - 1 \in S
  <2>1. m - 1 \in Int /\ m - 1 <= m - 1 /\ Summands(q, m, m - 1)
    BY <1>1
  <2>2. Total(q, m, m - 1) = 0
    BY <2>1, TotalType
  <2> QED BY <2>2
<1>3. ASSUME NEW j \in Int, m - 1 < j, j <= n, j - 1 \in S PROVE j \in S
  <2>1. m <= j /\ Summands(q, m, j) /\ q[j] \in Nat /\ Total(q, m, j - 1) \in Nat
    BY <1>1, <1>3
  <2>2. Total(q, m, j) = Total(q, m, j - 1) + q[j]
    BY <2>1, TotalStep
  <2> QED BY <1>3, <2>1, <2>2
<1>4. (m - 1)..n \subseteq S
  <2> HIDE DEF S
  <2>1. m - 1 \in Int /\ Hereditary(S, m - 1, n)
    BY <1>3 DEF Hereditary
  <2> QED BY <1>2, <2>1, IntervalInduction
<1>5. n \in (m - 1)..n
  OBVIOUS
<1> QED BY <1>4, <1>5

(* The sum of f along a sequence w of messages.                             *)
Weights(f, w) == [i \in DOMAIN w |-> f[w[i]]]
Along(f, w) == Total(Weights(f, w), 1, Len(w))

LEMMA AlongType ==
  ASSUME NEW M, NEW f \in [M -> Nat], NEW w \in Seq(M)
  PROVE  /\ Along(f, w) \in Nat
         /\ w = <<>> => Along(f, w) = 0
         /\ Len(w) \in Nat /\ \A i \in 1..Len(w) : Weights(f, w)[i] \in Nat
         /\ Summands(Weights(f, w), 1, Len(w))
<1>1. Len(w) \in Nat /\ DOMAIN w = 1..Len(w) /\ \A i \in 1..Len(w) : w[i] \in M
  BY LenProperties, ElementOfSeq
<1>2. \A i \in 1..Len(w) : Weights(f, w)[i] \in Nat
  BY <1>1 DEF Weights
<1>3. Summands(Weights(f, w), 1, Len(w))
  BY <1>2 DEF Summands
<1>4. Along(f, w) \in Nat
  <2>1. 1 \in Int /\ Len(w) \in Int /\ 1 - 1 <= Len(w)
    BY <1>1
  <2> QED BY <1>2, <2>1, TotalNotNegative DEF Along
<1>5. w = <<>> => Along(f, w) = 0
  <2> SUFFICES ASSUME w = <<>> PROVE Along(f, w) = 0
    OBVIOUS
  <2>1. Len(w) = 1 - 1 /\ 1 \in Int /\ Len(w) \in Int /\ 1 - 1 <= Len(w)
    OBVIOUS
  <2> QED BY <1>3, <2>1, TotalType DEF Along
<1> QED BY <1>1, <1>2, <1>3, <1>4, <1>5

(* A message is sent.                                                       *)
LEMMA AlongAppend ==
  ASSUME NEW M, NEW f \in [M -> Nat], NEW w \in Seq(M), NEW e \in M
  PROVE  /\ Append(w, e) \in Seq(M)
         /\ Along(f, Append(w, e)) = Along(f, w) + f[e]
<1> DEFINE v == Append(w, e)
           n == Len(w) + 1
<1>1. /\ v \in Seq(M) /\ Len(v) = n /\ v[n] = e /\ DOMAIN v = 1..n
      /\ \A i \in 1..Len(w) : v[i] = w[i]
  BY AppendProperties
<1>2. /\ Len(w) \in Nat /\ DOMAIN w = 1..Len(w) /\ n \in Int /\ n - 1 = Len(w) /\ 1 <= n
      /\ 1 \in Int /\ n - 1 \in Int /\ 1 - 1 <= n - 1
  BY LenProperties
<1> HIDE DEF v
<1>3. Summands(Weights(f, v), 1, n) /\ Summands(Weights(f, w), 1, n - 1)
  BY <1>1, <1>2, AlongType
<1>4. Weights(f, v)[n] = f[e] /\ \A i \in 1..(n - 1) : Weights(f, w)[i] = Weights(f, v)[i]
  BY <1>1, <1>2 DEF Weights
<1> HIDE DEF n
<1>5. Total(Weights(f, v), 1, n) = Total(Weights(f, v), 1, n - 1) + Weights(f, v)[n]
  BY <1>2, <1>3, TotalStep
<1>6. Total(Weights(f, w), 1, n - 1) = Total(Weights(f, v), 1, n - 1)
  BY <1>2, <1>3, <1>4, TotalAgrees
<1>7. Along(f, v) = Along(f, w) + f[e]
  BY <1>1, <1>2, <1>4, <1>5, <1>6 DEF Along
<1> QED BY <1>1, <1>7 DEF v

(* A message is consumed.                                                   *)
LEMMA AlongTail ==
  ASSUME NEW M, NEW f \in [M -> Nat], NEW w \in Seq(M), w # <<>>
  PROVE  /\ Tail(w) \in Seq(M) /\ Head(w) \in M
         /\ Along(f, w) = f[Head(w)] + Along(f, Tail(w))
<1> DEFINE v == Tail(w)
           n == Len(w)
<1>1. /\ v \in Seq(M) /\ Len(v) = n - 1 /\ Head(w) = w[1] /\ Head(w) \in M
      /\ \A i \in 1..(n - 1) : v[i] = w[i + 1]
      /\ n \in Nat /\ n >= 1 /\ DOMAIN w = 1..n /\ DOMAIN v = 1..(n - 1)
  BY HeadTailProperties, LenProperties
<1> HIDE DEF v, n
<1>2. Summands(Weights(f, w), 1, n) /\ Summands(Weights(f, v), 1, n - 1)
  BY <1>1, AlongType DEF n
<1> DEFINE p == Weights(f, w)
           q == Weights(f, v)
           S == {j \in 0..(n - 1) : Total(p, 1, j + 1) = p[1] + Total(q, 1, j)}
<1>3. p[1] = f[Head(w)] /\ p[1] \in Int /\ \A i \in 1..(n - 1) : q[i] = p[i + 1]
  <2>1. p[1] = f[Head(w)] /\ p[1] \in Int
    BY <1>1 DEF Weights
  <2>2. ASSUME NEW i \in 1..(n - 1) PROVE q[i] = p[i + 1]
    <3>1. i + 1 \in 1..n /\ v[i] = w[i + 1]
      BY <1>1
    <3> QED BY <1>1, <3>1 DEF Weights
  <2> QED BY <2>1, <2>2
<1> HIDE DEF p, q
<1>4. /\ \A j \in Int : j <= n => Summands(p, 1, j)
      /\ \A j \in Int : j <= n - 1 => Summands(q, 1, j)
  <2>1. Summands(p, 1, n) /\ Summands(q, 1, n - 1)
    BY <1>2 DEF p, q
  <2> QED BY <1>1, <2>1 DEF Summands
<1>5. 0 \in S
  <2>1. 0 \in Int /\ 0 <= n - 1 /\ 1 \in Int /\ 1 <= 1 /\ 1 <= n /\ 1 - 1 <= 0 /\ 0 = 1 - 1
    BY <1>1
  <2>2. Summands(p, 1, 1) /\ Summands(p, 1, 0) /\ Summands(q, 1, 0)
    BY <1>1, <1>4, <2>1
  <2>3. Total(p, 1, 0) = 0 /\ Total(q, 1, 0) = 0
    BY <2>1, <2>2, TotalType
  <2>4. Total(p, 1, 1) = Total(p, 1, 1 - 1) + p[1]
    BY <2>1, <2>2, TotalStep
  <2> QED BY <1>1, <1>3, <2>3, <2>4
<1>6. ASSUME NEW j \in Int, 0 < j, j <= n - 1, j - 1 \in S PROVE j \in S
  <2>1. /\ j + 1 \in Int /\ 1 <= j + 1 /\ j + 1 <= n /\ 1 \in Int /\ 1 <= j /\ (j + 1) - 1 = j
        /\ j - 1 \in Int /\ 1 - 1 <= j - 1 /\ j - 1 <= n - 1 /\ (j - 1) + 1 = j /\ j \in 1..(n - 1)
    BY <1>1, <1>6
  <2>2. Summands(p, 1, j + 1) /\ Summands(q, 1, j) /\ Summands(q, 1, j - 1)
    BY <1>4, <1>6, <2>1
  <2>3. Total(p, 1, j + 1) = Total(p, 1, (j + 1) - 1) + p[j + 1]
    BY <2>1, <2>2, TotalStep
  <2>4. Total(q, 1, j) = Total(q, 1, j - 1) + q[j]
    BY <2>1, <2>2, TotalStep
  <2>5. Total(q, 1, j - 1) \in Int /\ q[j] \in Int /\ q[j] = p[j + 1]
    BY <1>3, <2>1, <2>2, TotalType DEF Summands
  <2>6. Total(p, 1, (j - 1) + 1) = p[1] + Total(q, 1, j - 1)
    BY <1>6
  <2> QED BY <1>1, <1>3, <1>6, <2>1, <2>3, <2>4, <2>5, <2>6
<1>7. 0..(n - 1) \subseteq S
  <2> HIDE DEF S
  <2>1. Hereditary(S, 0, n - 1) /\ 0 \in Int /\ n - 1 \in Int
    BY <1>1, <1>6 DEF Hereditary
  <2> QED BY <1>5, <2>1, IntervalInduction
<1>8. Total(p, 1, n) = p[1] + Total(q, 1, n - 1)
  <2>1. n - 1 \in 0..(n - 1) /\ (n - 1) + 1 = n
    BY <1>1
  <2>2. n - 1 \in S
    BY <1>7, <2>1
  <2> QED BY <2>1, <2>2
<1> QED BY <1>1, <1>3, <1>8 DEF Along, p, q, n, v
(* Messages that weigh nothing are sent.                                    *)
LEMMA AlongSilent ==
  ASSUME NEW M, NEW f \in [M -> Nat], NEW w \in Seq(M), NEW v \in Seq(M),
         \A i \in 1..Len(v) : f[v[i]] = 0
  PROVE  /\ w \o v \in Seq(M)
         /\ Along(f, w \o v) = Along(f, w)
<1> DEFINE u == w \o v
           m == Len(w)
           n == Len(v)
           p == Weights(f, u)
           S == {j \in m..(m + n) : Total(p, 1, j) = Along(f, w)}
<1>1. /\ u \in Seq(M) /\ Len(u) = m + n /\ m \in Nat /\ n \in Nat
      /\ DOMAIN u = 1..(m + n) /\ DOMAIN w = 1..m
      /\ \A i \in 1..m : u[i] = w[i]
      /\ \A i \in (m + 1)..(m + n) : u[i] = v[i - m]
  <2>1. /\ u \in Seq(M) /\ Len(u) = m + n /\ m \in Nat /\ n \in Nat
        /\ \A i \in 1..(m + n) : u[i] = IF i <= m THEN w[i] ELSE v[i - m]
    BY ConcatProperties, LenProperties
  <2>2. DOMAIN u = 1..Len(u) /\ DOMAIN w = 1..m
    BY <2>1, LenProperties
  <2> HIDE DEF u, m, n
  <2> QED BY <2>1, <2>2
<1>2. Summands(Weights(f, u), 1, Len(u)) /\ Summands(Weights(f, w), 1, m)
  BY <1>1, AlongType
<1>3. /\ \A i \in 1..m : Weights(f, w)[i] = p[i]
      /\ \A i \in (m + 1)..(m + n) : p[i] = 0
  <2>1. ASSUME NEW i \in 1..m PROVE Weights(f, w)[i] = p[i]
    <3> HIDE DEF u, m, n
    <3>1. i \in DOMAIN u /\ i \in DOMAIN w /\ u[i] = w[i]
      BY <1>1
    <3> QED BY <3>1 DEF Weights
  <2>2. ASSUME NEW i \in (m + 1)..(m + n) PROVE p[i] = 0
    <3>1. i - m \in 1..n /\ f[v[i - m]] = 0
      BY <1>1
    <3>2. i \in DOMAIN u /\ u[i] = v[i - m]
      BY <1>1, <2>2
    <3> HIDE DEF u, m, n
    <3> QED BY <3>1, <3>2 DEF Weights
  <2> QED BY <2>1, <2>2
<1>4. Along(f, w) = Total(Weights(f, w), 1, m) /\ Along(f, w \o v) = Total(p, 1, m + n)
  BY <1>1 DEF Along
<1> HIDE DEF u, m, n, p
<1>5. \A j \in Int : j <= m + n => Summands(p, 1, j)
  BY <1>1, <1>2 DEF Summands, p
<1>6. m \in S
  <2>1. Summands(p, 1, m) /\ 1 \in Int /\ m \in Int /\ 1 - 1 <= m
    BY <1>1, <1>5
  <2>2. Total(Weights(f, w), 1, m) = Total(p, 1, m)
    BY <1>2, <1>3, <2>1, TotalAgrees
  <2> QED BY <1>1, <1>4, <2>2
<1>7. ASSUME NEW j \in Int, m < j, j <= m + n, j - 1 \in S PROVE j \in S
  <2>1. /\ Summands(p, 1, j) /\ 1 \in Int /\ 1 <= j /\ p[j] = 0
        /\ Summands(p, 1, j - 1) /\ 1 - 1 <= j - 1 /\ j - 1 \in Int
    BY <1>1, <1>3, <1>5, <1>7
  <2>2. Total(p, 1, j) = Total(p, 1, j - 1) + p[j]
    BY <2>1, TotalStep
  <2>3. Total(p, 1, j - 1) \in Int
    BY <2>1, TotalType
  <2> QED BY <1>1, <1>7, <2>1, <2>2, <2>3
<1>8. m..(m + n) \subseteq S
  <2> HIDE DEF S
  <2>1. Hereditary(S, m, m + n) /\ m \in Int /\ m + n \in Int
    BY <1>1, <1>7 DEF Hereditary
  <2> QED BY <1>6, <2>1, IntervalInduction
<1>9. m + n \in m..(m + n)
  BY <1>1
<1>10. Total(p, 1, m + n) = Along(f, w)
  BY <1>8, <1>9
<1> QED BY <1>1, <1>4, <1>10 DEF u
-----------------------------------------------------------------------------
(* Orders                                                                  *)

TotalOrder(S, before) ==
  /\ \A x \in S : <<x, x>> \notin before
  /\ \A x, y \in S : x # y => <<x, y>> \in before \/ <<y, x>> \in before
  /\ \A x, y, z \in S : <<x, y>> \in before /\ <<y, z>> \in before => <<x, z>> \in before

(* Who comes later has a later place.                                       *)
LEMMA PlacesGrow ==
  ASSUME NEW S, IsFiniteSet(S), NEW before, TotalOrder(S, before),
         NEW x \in S, NEW y \in S, <<x, y>> \in before
  PROVE  PlaceOf(x, S, before) < PlaceOf(y, S, before)
<1> DEFINE X == {z \in S : <<z, x>> \in before}
           Y == {z \in S : <<z, y>> \in before}
<1>1. X \subseteq Y /\ x \in Y /\ x \notin X
  BY DEF TotalOrder
<1>2. IsFiniteSet(Y)
  BY FS_Subset
<1>3. Cardinality(X) <= Cardinality(Y) /\ (Cardinality(Y) = Cardinality(X) => Y = X)
  BY <1>1, <1>2, FS_Subset
<1>4. Cardinality(X) \in Nat /\ Cardinality(Y) \in Nat
  BY <1>1, <1>2, FS_Subset, FS_CardinalityType
<1>5. PlaceOf(x, S, before) = 1 + Cardinality(X) /\ PlaceOf(y, S, before) = 1 + Cardinality(Y)
  BY DEF PlaceOf
<1> HIDE DEF X, Y
<1> QED BY <1>1, <1>3, <1>4, <1>5

(* The places are the numbers up to the size of the set.                    *)
LEMMA PlacesAre ==
  ASSUME NEW S, IsFiniteSet(S), NEW before, TotalOrder(S, before)
  PROVE  /\ Cardinality(S) \in Nat
         /\ \A x \in S : PlaceOf(x, S, before) \in 1..Cardinality(S)
         /\ \A x, y \in S : PlaceOf(x, S, before) = PlaceOf(y, S, before) => x = y
         /\ \A x, y \in S : PlaceOf(x, S, before) < PlaceOf(y, S, before) => <<x, y>> \in before
         /\ \A k \in 1..Cardinality(S) : \E x \in S : PlaceOf(x, S, before) = k
<1> DEFINE n == Cardinality(S)
           place == [x \in S |-> PlaceOf(x, S, before)]
<1>1. n \in Nat
  BY FS_CardinalityType
<1>2. ASSUME NEW x \in S PROVE PlaceOf(x, S, before) \in 1..n
  <2> DEFINE X == {z \in S : <<z, x>> \in before}
  <2>1. X \subseteq S /\ X # S
    BY DEF TotalOrder
  <2>2. Cardinality(X) \in Nat /\ Cardinality(X) <= n /\ (n = Cardinality(X) => S = X)
    BY <2>1, FS_Subset, FS_CardinalityType
  <2>3. PlaceOf(x, S, before) = 1 + Cardinality(X)
    BY DEF PlaceOf
  <2> HIDE DEF X, n
  <2> QED BY <1>1, <2>1, <2>2, <2>3
<1>3. ASSUME NEW x \in S, NEW y \in S, x # y
      PROVE  /\ PlaceOf(x, S, before) # PlaceOf(y, S, before)
             /\ PlaceOf(x, S, before) < PlaceOf(y, S, before) => <<x, y>> \in before
  <2>1. PlaceOf(x, S, before) \in Int /\ PlaceOf(y, S, before) \in Int
    BY <1>1, <1>2
  <2>2. CASE <<x, y>> \in before
    <3>1. PlaceOf(x, S, before) < PlaceOf(y, S, before)
      BY <2>2, PlacesGrow
    <3> QED BY <2>1, <2>2, <3>1
  <2>3. CASE <<y, x>> \in before
    <3>1. PlaceOf(y, S, before) < PlaceOf(x, S, before)
      BY <2>3, PlacesGrow
    <3> QED BY <2>1, <3>1
  <2> QED BY <1>3, <2>2, <2>3 DEF TotalOrder
<1>4. ASSUME NEW x \in S PROVE ~(PlaceOf(x, S, before) < PlaceOf(x, S, before))
  BY <1>1, <1>2
<1>5. place \in Injection(S, 1..n)
  <2>1. place \in [S -> 1..n]
    BY <1>2
  <2>2. \A x, y \in S : place[x] = place[y] => x = y
    BY <1>3
  <2> HIDE DEF place, n
  <2> QED BY <2>1, <2>2 DEF Injection, IsInjective
<1>6. IsFiniteSet(1..n) /\ Cardinality(1..n) = n
  <2>1. 1 \in Int /\ n \in Int
    BY <1>1
  <2>2. Cardinality(1..n) = IF 1 > n THEN 0 ELSE n - 1 + 1
    BY <2>1, FS_Interval
  <2>3. IsFiniteSet(1..n)
    BY <2>1, FS_Interval
  <2> HIDE DEF n
  <2> QED BY <1>1, <2>2, <2>3
<1>7. place \in Surjection(S, 1..n)
  <2>1. Cardinality(S) = Cardinality(1..n)
    BY <1>6
  <2> HIDE DEF place, n
  <2> QED BY <1>5, <1>6, <2>1, FS_Injection
<1>8. \A k \in 1..n : \E x \in S : place[x] = k
  <2> HIDE DEF place, n
  <2> QED BY <1>7 DEF Surjection
<1> QED BY <1>1, <1>2, <1>3, <1>4, <1>8

(* The members of S in their order.                                         *)
LEMMA OrderedIs ==
  ASSUME NEW S, IsFiniteSet(S), NEW before, TotalOrder(S, before)
  PROVE  /\ Ordered(S, before) \in Seq(S)
         /\ Len(Ordered(S, before)) = Cardinality(S)
         /\ \A k \in 1..Cardinality(S) : PlaceOf(Ordered(S, before)[k], S, before) = k
<1> DEFINE n == Cardinality(S)
           placed == {<<PlaceOf(x, S, before), x>> : x \in S}
           f == [k \in 1..n |-> (CHOOSE p \in placed : p[1] = k)[2]]
<1>1. n \in Nat
  BY FS_CardinalityType
<1>2. ASSUME NEW k \in 1..n PROVE f[k] \in S /\ PlaceOf(f[k], S, before) = k
  <2>1. \E x \in S : PlaceOf(x, S, before) = k
    BY PlacesAre
  <2>2. \E p \in placed : p[1] = k
    <3>1. PICK x \in S : PlaceOf(x, S, before) = k
      BY <2>1
    <3>2. <<PlaceOf(x, S, before), x>> \in placed
      OBVIOUS
    <3> HIDE DEF placed
    <3> QED BY <3>1, <3>2
  <2> DEFINE p == CHOOSE q \in placed : q[1] = k
  <2>3. p \in placed /\ p[1] = k
    <3> HIDE DEF placed
    <3> QED BY <2>2
  <2>4. f[k] = p[2]
    OBVIOUS
  <2>5. PICK x \in S : p = <<PlaceOf(x, S, before), x>>
    <3> HIDE DEF p
    <3> QED BY <2>3
  <2>6. p[1] = PlaceOf(x, S, before) /\ p[2] = x
    <3> HIDE DEF p
    <3> QED BY <2>5
  <2> HIDE DEF f, p
  <2> QED BY <2>3, <2>4, <2>6
<1>3. f \in Seq(S) /\ Len(f) = n
  <2>1. f \in [1..n -> S]
    BY <1>2
  <2> HIDE DEF f, n
  <2> QED BY <1>1, <2>1
<1>4. Ordered(S, before) = <<>> \o f
  <2>1. {x : x \in S} = S
    OBVIOUS
  <2>2. Ordered(S, before) = Placed(S, before)
    BY <2>1 DEF Ordered
  <2> QED BY <2>2 DEF Placed
<1>5. Ordered(S, before) = f
  <2> HIDE DEF f, n
  <2> QED BY <1>3, <1>4, ConcatEmptySeq
<1> HIDE DEF f
<1> QED BY <1>2, <1>3, <1>5

(* Nobody is left out, and who comes first is before the others.            *)
LEMMA OrderedInOrder ==
  ASSUME NEW S, IsFiniteSet(S), NEW before, TotalOrder(S, before)
  PROVE  LET q == Ordered(S, before) IN
         /\ \A j, k \in 1..Cardinality(S) : j < k => <<q[j], q[k]>> \in before
         /\ \A x \in S : \E k \in 1..Cardinality(S) : q[k] = x
<1> DEFINE n == Cardinality(S)
           q == Ordered(S, before)
<1>1. q \in Seq(S) /\ Len(q) = n /\ \A k \in 1..n : PlaceOf(q[k], S, before) = k
  BY OrderedIs
<1>2. n \in Nat
  BY FS_CardinalityType
<1> HIDE DEF q, n
<1>3. \A k \in 1..n : q[k] \in S
  BY <1>1, <1>2, ElementOfSeq
<1>4. ASSUME NEW j \in 1..n, NEW k \in 1..n, j < k PROVE <<q[j], q[k]>> \in before
  <2>1. PlaceOf(q[j], S, before) < PlaceOf(q[k], S, before)
    BY <1>1, <1>4
  <2> QED BY <1>3, <2>1, PlacesAre
<1>5. ASSUME NEW x \in S PROVE \E k \in 1..n : q[k] = x
  <2> DEFINE k == PlaceOf(x, S, before)
  <2>1. k \in 1..n
    BY PlacesAre DEF n
  <2>2. PlaceOf(q[k], S, before) = k /\ q[k] \in S
    BY <1>1, <1>3, <2>1
  <2>3. q[k] = x
    BY <2>2, PlacesAre
  <2> QED BY <2>1, <2>3
<1> QED BY <1>4, <1>5 DEF q, n

(* The numbers of a finite set in ascending order.                          *)
LEMMA AscendingIs ==
  ASSUME NEW S \in SUBSET Nat, IsFiniteSet(S)
  PROVE  /\ Ascending(S) \in Seq(S)
         /\ Len(Ascending(S)) = Cardinality(S)
         /\ \A j, k \in 1..Cardinality(S) : j < k => Ascending(S)[j] < Ascending(S)[k]
         /\ \A x \in S : \E k \in 1..Cardinality(S) : Ascending(S)[k] = x
<1> DEFINE less == {p \in Nat \X Nat : p[1] < p[2]}
           n == Cardinality(S)
           q == Ascending(S)
<1>1. \A x, y \in Nat : <<x, y>> \in less <=> x < y
  OBVIOUS
<1>2. TotalOrder(S, less)
  <2> HIDE DEF less
  <2> QED BY <1>1 DEF TotalOrder
<1>3. q = Ordered(S, less)
  BY DEF Ascending
<1> HIDE DEF less, q
<1>4. q \in Seq(S) /\ Len(q) = n /\ \A k \in 1..n : PlaceOf(q[k], S, less) = k
  BY <1>2, <1>3, OrderedIs
<1>5. n \in Nat
  BY FS_CardinalityType
<1>6. \A k \in 1..n : q[k] \in S
  BY <1>4, ElementOfSeq
<1>7. ASSUME NEW j \in 1..n, NEW k \in 1..n, j < k PROVE q[j] < q[k]
  <2>1. PlaceOf(q[j], S, less) < PlaceOf(q[k], S, less)
    BY <1>4, <1>7
  <2>2. <<q[j], q[k]>> \in less
    BY <1>2, <1>6, <2>1, PlacesAre
  <2> QED BY <1>1, <1>6, <2>2
<1>8. ASSUME NEW x \in S PROVE \E k \in 1..n : q[k] = x
  <2> DEFINE k == PlaceOf(x, S, less)
  <2>1. k \in 1..n
    BY <1>2, PlacesAre
  <2>2. PlaceOf(q[k], S, less) = k
    <3> HIDE DEF k
    <3> QED BY <1>4, <2>1
  <2>3. q[k] = x
    BY <1>2, <1>6, <2>1, <2>2, PlacesAre
  <2> QED BY <2>1, <2>3
<1>9. q = Ascending(S)
  BY DEF q
<1> QED BY <1>4, <1>7, <1>8, <1>9
=============================================================================
