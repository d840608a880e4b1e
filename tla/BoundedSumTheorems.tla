-------------------------- MODULE BoundedSumTheorems --------------------------
(***************************************************************************)
(* Facts about SumTo, for every length and every function.                 *)
(*                                                                         *)
(* They need induction.  The library's induction theorems take a predicate *)
(* as parameter, which the provers at hand cannot instantiate, so          *)
(* IntervalInduction states induction with a set: a set that contains 0    *)
(* and is closed under successor up to n contains 0..n.  It follows from   *)
(* the library's theorem that < is well founded on Nat.                    *)
(***************************************************************************)
EXTENDS BoundedSum, WellFoundedInduction, TLAPS

NatLess == OpToRel(<, Nat)

\* The less-than relation of Nat, as a set of pairs, is well founded.
LEMMA NatLessWellFounded == IsWellFoundedOn(NatLess, Nat)
  BY NatLessThanWellFounded, Zenon DEF NatLess

\* A pair is in NatLess iff it is in order.
LEMMA NatLessPairs == \A a, b \in Nat : <<a, b>> \in NatLess <=> a < b
  BY DEF NatLess, OpToRel

\* Every non-empty set of naturals has a least element.
LEMMA LeastNat ==
  ASSUME NEW T \in SUBSET Nat, T # {}
  PROVE  \E m \in T : \A k \in T : m <= k
<1>1. PICK m \in T : \A k \in T : ~ (<<k, m>> \in NatLess)
  BY NatLessWellFounded, WFMin, Zenon
<1>2. ASSUME NEW k \in T PROVE m <= k
  <2>1. m \in Nat /\ k \in Nat
    OBVIOUS
  <2>2. ~ (k < m)
    BY <1>1, <2>1, NatLessPairs
  <2> QED BY <2>1, <2>2
<1> QED BY <1>2

\* Induction over 0..n, with a set in the place of the predicate.
LEMMA IntervalInduction ==
  ASSUME NEW n \in Nat, NEW T,
         0 \in T,
         \A i \in 0..n : i + 1 \in 0..n /\ i \in T => i + 1 \in T
  PROVE  \A i \in 0..n : i \in T
<1> DEFINE Missing == {i \in 0..n : i \notin T}
<1>1. SUFFICES ASSUME Missing # {} PROVE FALSE
  OBVIOUS
<1>2. PICK m \in Missing : \A k \in Missing : m <= k
  <2>1. Missing \in SUBSET Nat
    OBVIOUS
  <2> HIDE DEF Missing
  <2> QED BY <1>1, <2>1, LeastNat
<1>3. m \in 0..n /\ m # 0 /\ m \notin T
  OBVIOUS
<1>4. m - 1 \in 0..n /\ m - 1 \notin Missing
  BY <1>2, <1>3
<1>5. m - 1 \in T
  BY <1>4
<1> QED BY <1>3, <1>4, <1>5

-----------------------------------------------------------------------------
\* s is the function of partial sums of f.
IsPartialSum(s, f, n) ==
  s = [i \in 0..n |-> IF i = 0 THEN 0 ELSE s[i-1] + f[i]]

\* Every f has a function of partial sums: the recursion is well defined.
LEMMA PartialSumExists ==
  ASSUME NEW f, NEW n \in Nat
  PROVE  \E s : IsPartialSum(s, f, n)
<1> DEFINE T == {i \in 0..n : \E s : IsPartialSum(s, f, i)}
<1>1. 0 \in T
  <2> DEFINE s == [i \in 0..0 |-> 0]
  <2>1. IsPartialSum(s, f, 0)
    BY DEF IsPartialSum
  <2> QED BY <2>1
<1>2. ASSUME NEW m \in 0..n, m + 1 \in 0..n, m \in T
      PROVE  m + 1 \in T
  <2>1. PICK s : IsPartialSum(s, f, m)
    BY <1>2
  <2> DEFINE t == [i \in 0..(m+1) |-> IF i = m + 1 THEN s[m] + f[m+1] ELSE s[i]]
  <2>2. ASSUME NEW i \in 0..(m+1)
        PROVE  t[i] = IF i = 0 THEN 0 ELSE t[i-1] + f[i]
    BY <2>1 DEF IsPartialSum
  <2>3. t = [i \in 0..(m+1) |-> t[i]]
    OBVIOUS
  <2>4. IsPartialSum(t, f, m+1)
    <3> HIDE DEF t
    <3> QED BY <2>2, <2>3 DEF IsPartialSum
  <2>5. \E u : IsPartialSum(u, f, m+1)
    BY <2>4
  <2> QED BY <1>2, <2>5
<1>3. n \in T
  <2> HIDE DEF T
  <2>1. \A i \in 0..n : i \in T
    BY <1>1, <1>2, IntervalInduction
  <2> QED BY <2>1
<1> QED BY <1>3

\* SumTo is the last of the partial sums.
LEMMA SumToIsPartialSum ==
  ASSUME NEW f, NEW n \in Nat
  PROVE  \E s : IsPartialSum(s, f, n) /\ SumTo(f, n) = s[n]
<1> DEFINE s == CHOOSE s : IsPartialSum(s, f, n)
<1>1. IsPartialSum(s, f, n)
  BY PartialSumExists
<1>2. SumTo(f, n) = s[n]
  BY DEF SumTo, IsPartialSum
<1> QED BY <1>1, <1>2

\* Partial sums of an integer function are integers, and step by f.
LEMMA PartialSumSteps ==
  ASSUME NEW n \in Nat, NEW f \in [1..n -> Int], NEW s, IsPartialSum(s, f, n)
  PROVE  /\ s[0] = 0
         /\ \A i \in 0..n : s[i] \in Int
         /\ \A i \in 0..n : i + 1 \in 0..n => s[i+1] = s[i] + f[i+1]
<1>1. s[0] = 0
  BY DEF IsPartialSum
<1>2. ASSUME NEW i \in 0..n, i + 1 \in 0..n
      PROVE  s[i+1] = s[i] + f[i+1]
  <2>1. \A j \in 0..n : s[j] = IF j = 0 THEN 0 ELSE s[j-1] + f[j]
    BY DEF IsPartialSum
  <2>2. i + 1 # 0 /\ (i + 1) - 1 = i
    OBVIOUS
  <2> QED BY <2>1, <2>2, <1>2
<1> DEFINE T == {i \in 0..n : s[i] \in Int}
<1>3. \A i \in 0..n : i + 1 \in 0..n /\ i \in T => i + 1 \in T
  <2> SUFFICES ASSUME NEW i \in 0..n, i + 1 \in 0..n, i \in T
               PROVE  i + 1 \in T
    OBVIOUS
  <2>1. s[i+1] = s[i] + f[i+1]
    BY <1>2
  <2>2. i + 1 \in 1..n /\ f[i+1] \in Int
    OBVIOUS
  <2> QED BY <2>1, <2>2
<1>4. \A i \in 0..n : i \in T
  <2>1. 0 \in T
    BY <1>1
  <2> HIDE DEF T
  <2> QED BY <1>3, <2>1, IntervalInduction
<1> QED BY <1>1, <1>2, <1>4

-----------------------------------------------------------------------------
\* The sum of an integer function is an integer.
LEMMA SumToInt ==
  ASSUME NEW n \in Nat, NEW f \in [1..n -> Int]
  PROVE  SumTo(f, n) \in Int
<1>1. PICK s : IsPartialSum(s, f, n) /\ SumTo(f, n) = s[n]
  BY SumToIsPartialSum
<1> QED BY <1>1, PartialSumSteps

\* The sum of a function of zeros is zero.
LEMMA SumToZero ==
  ASSUME NEW n \in Nat, NEW f \in [1..n -> Int], \A i \in 1..n : f[i] = 0
  PROVE  SumTo(f, n) = 0
<1>1. PICK s : IsPartialSum(s, f, n) /\ SumTo(f, n) = s[n]
  BY SumToIsPartialSum
<1> DEFINE T == {i \in 0..n : s[i] = 0}
<1>2. 0 \in T
  BY <1>1, PartialSumSteps
<1>3. \A i \in 0..n : i + 1 \in 0..n /\ i \in T => i + 1 \in T
  <2> SUFFICES ASSUME NEW i \in 0..n, i + 1 \in 0..n, i \in T
               PROVE  i + 1 \in T
    OBVIOUS
  <2>1. s[i+1] = s[i] + f[i+1]
    BY <1>1, PartialSumSteps
  <2>2. i + 1 \in 1..n /\ f[i+1] = 0
    OBVIOUS
  <2> QED BY <2>1, <2>2
<1>4. n \in T
  <2> HIDE DEF T
  <2>1. \A i \in 0..n : i \in T
    BY <1>2, <1>3, IntervalInduction
  <2> QED BY <2>1
<1> QED BY <1>1, <1>4

\* m maps sums of integers to sums.
IsAdditive(m) ==
  /\ m \in [Int -> Int]
  /\ \A a, b \in Int : m[a + b] = m[a] + m[b]

\* An additive map sends zero to zero.
LEMMA AdditiveZero ==
  ASSUME NEW m, IsAdditive(m)
  PROVE  m[0] = 0
<1>1. 0 \in Int /\ 0 + 0 = 0
  OBVIOUS
<1>2. m[0] \in Int
  BY <1>1, Zenon DEF IsAdditive
<1>3. m[0] = m[0] + m[0]
  BY <1>1, Zenon DEF IsAdditive
<1>4. \A z \in Int : z = z + z => z = 0
  OBVIOUS
<1> QED BY <1>2, <1>3, <1>4, Zenon

\* h is the image of f under m, plus g.
IsImage(h, m, f, g, n) == \A i \in 1..n : h[i] = m[f[i]] + g[i]

\* Sums commute with an additive map m: if h = m[f] + g then
\* Sum(h) = m[Sum(f)] + Sum(g).
LEMMA SumToAdditive ==
  ASSUME NEW n \in Nat, NEW m,
         NEW f \in [1..n -> Int], NEW g \in [1..n -> Int], NEW h \in [1..n -> Int],
         IsAdditive(m), IsImage(h, m, f, g, n)
  PROVE  SumTo(h, n) = m[SumTo(f, n)] + SumTo(g, n)
<1>1. PICK sf : IsPartialSum(sf, f, n) /\ SumTo(f, n) = sf[n]
  BY SumToIsPartialSum
<1>2. PICK sg : IsPartialSum(sg, g, n) /\ SumTo(g, n) = sg[n]
  BY SumToIsPartialSum
<1>3. PICK sh : IsPartialSum(sh, h, n) /\ SumTo(h, n) = sh[n]
  BY SumToIsPartialSum
<1> DEFINE T == {i \in 0..n : sh[i] = m[sf[i]] + sg[i]}
<1>4. 0 \in T
  <2>1. sf[0] = 0 /\ sg[0] = 0 /\ sh[0] = 0
    BY <1>1, <1>2, <1>3, PartialSumSteps
  <2>2. m[0] = 0
    BY AdditiveZero
  <2> QED BY <2>1, <2>2
<1>5. \A i \in 0..n : i + 1 \in 0..n /\ i \in T => i + 1 \in T
  <2> SUFFICES ASSUME NEW i \in 0..n, i + 1 \in 0..n, i \in T
               PROVE  i + 1 \in T
    OBVIOUS
  <2>1. /\ sf[i+1] = sf[i] + f[i+1] /\ sf[i] \in Int
        /\ sg[i+1] = sg[i] + g[i+1] /\ sg[i] \in Int
        /\ sh[i+1] = sh[i] + h[i+1] /\ sh[i] \in Int
    BY <1>1, <1>2, <1>3, PartialSumSteps
  <2>2. i + 1 \in 1..n
    OBVIOUS
  <2>3. f[i+1] \in Int /\ g[i+1] \in Int /\ h[i+1] = m[f[i+1]] + g[i+1]
    BY <2>2 DEF IsImage
  <2>4. m[sf[i+1]] = m[sf[i]] + m[f[i+1]]
    BY <2>1, <2>3, Zenon DEF IsAdditive
  <2>5. m[sf[i]] \in Int /\ m[f[i+1]] \in Int
    BY <2>1, <2>3, Zenon DEF IsAdditive
  <2>6. sh[i+1] = m[sf[i+1]] + sg[i+1]
    BY <2>1, <2>3, <2>4, <2>5, SMTT(30)
  <2> QED BY <2>6
<1>6. n \in T
  <2> HIDE DEF T
  <2>1. \A i \in 0..n : i \in T
    BY <1>4, <1>5, IntervalInduction
  <2> QED BY <2>1
<1> QED BY <1>1, <1>2, <1>3, <1>6

\* h is c times f, plus g.
IsCombination(h, c, f, g, n) == \A i \in 1..n : h[i] = c * f[i] + g[i]

\* Sums are linear: if h = c * f + g then Sum(h) = c * Sum(f) + Sum(g).
LEMMA SumToLinear ==
  ASSUME NEW n \in Nat, NEW c \in Int,
         NEW f \in [1..n -> Int], NEW g \in [1..n -> Int], NEW h \in [1..n -> Int],
         IsCombination(h, c, f, g, n)
  PROVE  SumTo(h, n) = c * SumTo(f, n) + SumTo(g, n)
<1>1. PICK m : IsAdditive(m) /\ \A x \in Int : m[x] = c * x
  <2> DEFINE m == [a \in Int |-> c * a]
  <2>1. IsAdditive(m)
    BY DEF IsAdditive
  <2>2. \A x \in Int : m[x] = c * x
    OBVIOUS
  <2> QED BY <2>1, <2>2
<1>2. IsImage(h, m, f, g, n)
  BY <1>1 DEF IsCombination, IsImage
<1>3. SumTo(h, n) = m[SumTo(f, n)] + SumTo(g, n)
  <2>1. IsAdditive(m)
    BY <1>1
  <2> QED BY <2>1, <1>2, SumToAdditive
<1> QED BY <1>1, <1>3, SumToInt

\* A factor common to all terms can be taken out of the sum.
LEMMA SumToScaled ==
  ASSUME NEW n \in Nat, NEW c \in Int, NEW f \in [1..n -> Int], NEW h \in [1..n -> Int],
         \A i \in 1..n : h[i] = c * f[i]
  PROVE  SumTo(h, n) = c * SumTo(f, n)
<1>1. PICK z : z = [i \in 1..n |-> 0]
  OBVIOUS
<1>2. z \in [1..n -> Int] /\ \A i \in 1..n : z[i] = 0
  BY <1>1
<1>3. IsCombination(h, c, f, z, n)
  <2>1. ASSUME NEW i \in 1..n PROVE h[i] = c * f[i] + z[i]
    <3>1. c * f[i] \in Int
      OBVIOUS
    <3> QED BY <1>2, <3>1
  <2> QED BY <2>1 DEF IsCombination
<1>4. SumTo(h, n) = c * SumTo(f, n) + SumTo(z, n)
  BY <1>2, <1>3, SumToLinear
<1>5. SumTo(z, n) = 0
  BY <1>2, SumToZero
<1>6. c * SumTo(f, n) \in Int
  <2>1. PICK s : s = SumTo(f, n) /\ s \in Int
    BY SumToInt
  <2> QED BY <2>1
<1> QED BY <1>4, <1>5, <1>6

\* Sums are monotone.
LEMMA SumToMonotone ==
  ASSUME NEW n \in Nat, NEW f \in [1..n -> Int], NEW g \in [1..n -> Int],
         \A i \in 1..n : f[i] <= g[i]
  PROVE  SumTo(f, n) <= SumTo(g, n)
<1>1. PICK sf : IsPartialSum(sf, f, n) /\ SumTo(f, n) = sf[n]
  BY SumToIsPartialSum
<1>2. PICK sg : IsPartialSum(sg, g, n) /\ SumTo(g, n) = sg[n]
  BY SumToIsPartialSum
<1> DEFINE T == {i \in 0..n : sf[i] <= sg[i]}
<1>3. 0 \in T
  <2>1. sf[0] = 0 /\ sg[0] = 0
    BY <1>1, <1>2, PartialSumSteps
  <2> QED BY <2>1
<1>4. \A i \in 0..n : i + 1 \in 0..n /\ i \in T => i + 1 \in T
  <2> SUFFICES ASSUME NEW i \in 0..n, i + 1 \in 0..n, i \in T
               PROVE  i + 1 \in T
    OBVIOUS
  <2>1. /\ sf[i+1] = sf[i] + f[i+1] /\ sf[i] \in Int
        /\ sg[i+1] = sg[i] + g[i+1] /\ sg[i] \in Int
    BY <1>1, <1>2, PartialSumSteps
  <2>2. i + 1 \in 1..n
    OBVIOUS
  <2>3. f[i+1] \in Int /\ g[i+1] \in Int /\ f[i+1] <= g[i+1]
    BY <2>2
  <2> QED BY <2>1, <2>3
<1>5. n \in T
  <2> HIDE DEF T
  <2>1. \A i \in 0..n : i \in T
    BY <1>3, <1>4, IntervalInduction
  <2> QED BY <2>1
<1> QED BY <1>1, <1>2, <1>5

\* Changing one value changes the sum by the difference.
LEMMA SumToChange ==
  ASSUME NEW n \in Nat, NEW f \in [1..n -> Int], NEW g \in [1..n -> Int],
         NEW k \in 1..n, \A i \in 1..n : i # k => g[i] = f[i]
  PROVE  SumTo(g, n) = SumTo(f, n) - f[k] + g[k]
<1>1. PICK sf : IsPartialSum(sf, f, n) /\ SumTo(f, n) = sf[n]
  BY SumToIsPartialSum
<1>2. PICK sg : IsPartialSum(sg, g, n) /\ SumTo(g, n) = sg[n]
  BY SumToIsPartialSum
<1>3. f[k] \in Int /\ g[k] \in Int
  OBVIOUS
<1> DEFINE T == {i \in 0..n : sg[i] = IF i < k THEN sf[i] ELSE sf[i] - f[k] + g[k]}
<1>4. 0 \in T
  <2>1. sf[0] = 0 /\ sg[0] = 0
    BY <1>1, <1>2, PartialSumSteps
  <2> QED BY <2>1
<1>5. \A i \in 0..n : i + 1 \in 0..n /\ i \in T => i + 1 \in T
  <2> SUFFICES ASSUME NEW i \in 0..n, i + 1 \in 0..n, i \in T
               PROVE  i + 1 \in T
    OBVIOUS
  <2>1. /\ sf[i+1] = sf[i] + f[i+1] /\ sf[i] \in Int
        /\ sg[i+1] = sg[i] + g[i+1] /\ sg[i] \in Int
    BY <1>1, <1>2, PartialSumSteps
  <2>2. i + 1 \in 1..n
    OBVIOUS
  <2>3. f[i+1] \in Int /\ g[i+1] \in Int /\ (i + 1 # k => g[i+1] = f[i+1])
    BY <2>2
  <2>4. CASE i + 1 = k
    BY <2>1, <2>3, <2>4, <1>3, SMTT(30)
  <2>5. CASE i + 1 < k
    BY <2>1, <2>3, <2>5
  <2>6. CASE i + 1 > k
    BY <2>1, <2>3, <2>6, <1>3, SMTT(30)
  <2> QED BY <2>4, <2>5, <2>6
<1>6. n \in T
  <2> HIDE DEF T
  <2>1. \A i \in 0..n : i \in T
    BY <1>4, <1>5, IntervalInduction
  <2> QED BY <2>1
<1> QED BY <1>1, <1>2, <1>6

\* A value of a non-negative function is at most the sum.
LEMMA SumToMember ==
  ASSUME NEW n \in Nat, NEW f \in [1..n -> Nat], NEW k \in 1..n
  PROVE  f[k] <= SumTo(f, n)
<1> DEFINE g == [i \in 1..n |-> IF i = k THEN 0 ELSE f[i]]
           z == [i \in 1..n |-> 0]
<1>1. f \in [1..n -> Int] /\ g \in [1..n -> Int] /\ z \in [1..n -> Int]
  OBVIOUS
<1>2. SumTo(z, n) = 0
  <2>1. \A i \in 1..n : z[i] = 0
    OBVIOUS
  <2> HIDE DEF z
  <2> QED BY <1>1, <2>1, SumToZero
<1>3. SumTo(z, n) <= SumTo(g, n)
  <2>1. \A i \in 1..n : z[i] <= g[i]
    OBVIOUS
  <2> HIDE DEF z, g
  <2> QED BY <1>1, <2>1, SumToMonotone
<1>4. SumTo(g, n) = SumTo(f, n) - f[k] + g[k]
  <2>1. \A i \in 1..n : i # k => g[i] = f[i]
    OBVIOUS
  <2> HIDE DEF g
  <2> QED BY <1>1, <2>1, SumToChange
<1>5. g[k] = 0 /\ f[k] \in Nat
  OBVIOUS
<1>6. SumTo(f, n) \in Int /\ SumTo(g, n) \in Int
  <2> HIDE DEF g
  <2> QED BY <1>1, SumToInt
<1> HIDE DEF g, z
<1> QED BY <1>2, <1>3, <1>4, <1>5, <1>6
=============================================================================
