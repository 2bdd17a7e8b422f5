--------------------------- MODULE DataInduction ---------------------------
(***************************************************************************)
(* Induction over the naturals for sets, and what follows from it for the  *)
(* recursive functions of the other modules.                               *)
(***************************************************************************)
EXTENDS Sums, WellFoundedInduction, TLAPS

\* A set of naturals with 0 and the successor of each of its members has them all: there
\* is no least natural outside.
LEMMA SetInduction ==
    ASSUME NEW S \in SUBSET Nat, 0 \in S, \A n \in S : n + 1 \in S
    PROVE  S = Nat
<1> DEFINE T == Nat \ S
           R == {p \in Nat \X Nat : p[1] < p[2]}
<1>1. IsWellFoundedOn(OpToRel(<, Nat), Nat)
  BY NatLessThanWellFounded
<1>2. OpToRel(<, Nat) = R
  BY DEF OpToRel
<1>3. SUFFICES ASSUME T # {} PROVE FALSE
  OBVIOUS
<1>4. PICK x \in T : \A y \in T : ~ (<<y, x>> \in R)
  <2> HIDE DEF T, R
  <2>1. T \subseteq Nat
    BY DEF T
  <2> QED BY <1>1, <1>2, <1>3, <2>1, WFMin, Zenon
<1>5. x \in Nat /\ x # 0 /\ x \notin S
  OBVIOUS
<1>6. x - 1 \in Nat /\ x - 1 < x /\ (x - 1) + 1 = x
  BY <1>5
<1>7. x - 1 \notin T
  BY <1>4, <1>5, <1>6
<1> QED BY <1>5, <1>6, <1>7

\* The remainder of a number below twice the modulus.
LEMMA RemainderBelowTwice ==
    ASSUME NEW m \in Nat \ {0}, NEW a \in Nat, a < 2 * m
    PROVE  a % m = IF a < m THEN a ELSE a - m
OBVIOUS

-----------------------------------------------------------------------------
(***************************************************************************)
(* Total.                                                                  *)
(***************************************************************************)

IsSum(s, f, n) == s = [i \in 0..n |-> IF i = 0 THEN 0 ELSE s[i - 1] + f[i]]

\* The loop that adds up results computes what it should: there is one such function, and
\* it does not depend on where the loop stops.
LEMMA SumExists ==
    ASSUME NEW f
    PROVE  \A n \in Nat : \E s : IsSum(s, f, n)
<1> DEFINE S == {n \in Nat : \E s : IsSum(s, f, n)}
<1>1. 0 \in S
  <2>1. IsSum([i \in 0..0 |-> 0], f, 0)
    BY DEF IsSum
  <2> QED BY <2>1
<1>2. ASSUME NEW n \in S PROVE n + 1 \in S
  <2>1. PICK s : IsSum(s, f, n) 
    OBVIOUS
  <2> DEFINE r == [i \in 0..(n + 1) |-> IF i = n + 1 THEN s[n] + f[n + 1] ELSE s[i]]
  <2>2. ASSUME NEW i \in 0..(n + 1)
        PROVE  r[i] = IF i = 0 THEN 0 ELSE r[i - 1] + f[i]
    <3>0. n \in Nat
      OBVIOUS
    <3>1. CASE i = n + 1
      BY <3>1, <3>0, i # 0, i - 1 = n, n \in 0..(n+1), r[n] = s[n]
    <3>2. CASE i # n + 1 /\ i # 0
      <4>1. i \in 0..n /\ i - 1 \in 0..n /\ i - 1 \in 0..(n+1) /\ i - 1 # n + 1
        BY <3>2, <3>0
      <4>2. s[i] = s[i - 1] + f[i]
        BY <4>1, <3>2, <2>1 DEF IsSum
      <4>3. r[i] = s[i] /\ r[i - 1] = s[i - 1]
        BY <4>1, <3>2
      <4> QED BY <4>2, <4>3, <3>2
    <3>3. CASE i = 0
      BY <3>3, <3>0, 0 \in 0..n, <2>1 DEF IsSum
    <3> QED BY <3>1, <3>2, <3>3
  <2>3. IsSum(r, f, n + 1)
    BY <2>2 DEF IsSum
  <2> HIDE DEF r
  <2> QED BY <2>3
<1>3. S = Nat
  <2> HIDE DEF S
  <2>1. S \in SUBSET Nat
    BY DEF S
  <2> QED BY <1>1, <1>2, <2>1, SetInduction
<1> QED BY <1>3

\* Partial sums are determined by the summands.
LEMMA SumUnique ==
    ASSUME NEW f, NEW n \in Nat, NEW m \in Nat, NEW s, NEW r, IsSum(s, f, n), IsSum(r, f, m),
           n <= m
    PROVE  \A i \in 0..n : s[i] = r[i]
<1> DEFINE S == {i \in Nat : i <= n => s[i] = r[i]}
<1>1. 0 \in S
  BY 0 \in 0..n, 0 \in 0..m DEF IsSum
<1>2. ASSUME NEW i \in S PROVE i + 1 \in S
  <2>1. CASE i + 1 <= n
    <3>1. i + 1 \in 0..n /\ i + 1 \in 0..m /\ i + 1 # 0 /\ (i + 1) - 1 = i /\ i <= n
      BY <2>1
    <3>2. s[i + 1] = s[i] + f[i + 1] /\ r[i + 1] = r[i] + f[i + 1]
      BY <3>1 DEF IsSum
    <3> QED BY <3>1, <3>2
  <2> QED BY <2>1
<1>3. S = Nat
  <2> HIDE DEF S
  <2>1. S \in SUBSET Nat
    BY DEF S
  <2> QED BY <1>1, <1>2, <2>1, SetInduction
<1> QED BY <1>3

\* Total is the last of its partial sums.
LEMMA TotalIsSum ==
    ASSUME NEW f, NEW n \in Nat
    PROVE  \E s : IsSum(s, f, n) /\ Total(f, n) = s[n]
<1> DEFINE s == CHOOSE s : IsSum(s, f, n)
<1>1. IsSum(s, f, n)
  BY SumExists
<1>2. Total(f, n) = s[n]
  BY DEF Total, IsSum
<1> QED BY <1>1, <1>2

\* Total by recursion.
LEMMA TotalStep ==
    ASSUME NEW f, NEW n \in Nat
    PROVE  Total(f, 0) = 0 /\ Total(f, n + 1) = Total(f, n) + f[n + 1]
<1>1. Total(f, 0) = 0
  BY TotalIsSum, 0 \in 0..0 DEF IsSum
<1>2. PICK s : IsSum(s, f, n) /\ Total(f, n) = s[n]
  BY TotalIsSum
<1>3. PICK r : IsSum(r, f, n + 1) /\ Total(f, n + 1) = r[n + 1]
  BY TotalIsSum, n + 1 \in Nat
<1>4. s[n] = r[n]
  BY SumUnique, <1>2, <1>3, n + 1 \in Nat, n <= n + 1, n \in 0..n
<1>5. r[n + 1] = r[n] + f[n + 1]
  BY <1>3, n + 1 \in 0..(n+1), n + 1 # 0, (n + 1) - 1 = n DEF IsSum
<1> QED BY <1>1, <1>2, <1>3, <1>4, <1>5

\* A total of naturals is a natural.
LEMMA TotalType ==
    ASSUME NEW N \in Nat, NEW f \in [1..N -> Nat]
    PROVE  \A n \in 0..N : Total(f, n) \in Nat
<1> DEFINE S == {n \in Nat : n <= N => Total(f, n) \in Nat}
<1>1. 0 \in S
  BY TotalStep
<1>2. ASSUME NEW n \in S PROVE n + 1 \in S
  <2>1. CASE n + 1 <= N
    <3>1. f[n + 1] \in Nat
      BY <2>1, n + 1 \in 1..N
    <3>2. Total(f, n) \in Nat /\ n \in Nat
      BY <2>1
    <3>3. Total(f, n + 1) = Total(f, n) + f[n + 1]
      BY <3>2, TotalStep
    <3>4. Total(f, n + 1) \in Nat
      BY <3>1, <3>2, <3>3
    <3> QED BY <3>4
  <2> QED BY <2>1
<1>3. S = Nat
  <2> HIDE DEF S
  <2>1. S \in SUBSET Nat
    BY DEF S
  <2> QED BY <1>1, <1>2, <2>1, SetInduction
<1> QED BY <1>3

\* Another value at one place changes the total by the difference.
LEMMA TotalUpdate ==
    ASSUME NEW N \in Nat, NEW f \in [1..N -> Nat], NEW w \in 1..N, NEW n \in w..N, NEW x \in Nat
    PROVE  Total([f EXCEPT ![w] = x], n) = Total(f, n) - f[w] + x
<1> DEFINE g == [f EXCEPT ![w] = x]
           S == {m \in Nat : m <= N => Total(g, m) = Total(f, m) + IF w <= m THEN x - f[w] ELSE 0}
<1>0. f[w] \in Nat
  OBVIOUS
<1>1. 0 \in S
  BY TotalStep
<1>2. ASSUME NEW m \in S PROVE m + 1 \in S
  <2>1. CASE m + 1 <= N
    <3>1. /\ Total(f, m) \in Nat /\ f[m + 1] \in Nat
          /\ g[m + 1] = IF w = m + 1 THEN x ELSE f[m + 1]
      BY <2>1, TotalType, m \in 0..N, m + 1 \in 1..N
    <3>2. Total(g, m) = Total(f, m) + IF w <= m THEN x - f[w] ELSE 0
      BY <2>1
    <3> HIDE DEF g
    <3>3. /\ Total(g, m + 1) = Total(g, m) + g[m + 1]
          /\ Total(f, m + 1) = Total(f, m) + f[m + 1]
      BY TotalStep
    <3> QED BY <1>0, <3>1, <3>2, <3>3
  <2> QED BY <2>1
<1>3. S = Nat
  <2> HIDE DEF S
  <2>1. S \in SUBSET Nat
    BY DEF S
  <2> QED BY <1>1, <1>2, <2>1, SetInduction
<1>4. n \in Nat /\ n <= N /\ w <= n /\ Total(f, n) \in Nat
  BY TotalType
<1> HIDE DEF g
<1>5. Total(g, n) = Total(f, n) + (x - f[w])
  BY <1>3, <1>4
<1> QED BY <1>0, <1>4, <1>5 DEF g

\* No summand exceeds the total.
LEMMA TotalBounds ==
    ASSUME NEW N \in Nat, NEW f \in [1..N -> Nat], NEW w \in 1..N
    PROVE  f[w] <= Total(f, N)
<1> DEFINE g == [f EXCEPT ![w] = 0]
<1>1. Total(g, N) = Total(f, N) - f[w] + 0
  BY TotalUpdate, N \in w..N, 0 \in Nat
<1>2. g \in [1..N -> Nat]
  OBVIOUS
<1> HIDE DEF g
<1>3. Total(g, N) \in Nat /\ Total(f, N) \in Nat /\ f[w] \in Nat
  BY <1>2, TotalType
<1> QED BY <1>1, <1>3

\* A total that is not 0 has a summand that is not.
LEMMA TotalOfZeros ==
    ASSUME NEW N \in Nat, NEW f, \A i \in 1..N : f[i] = 0
    PROVE  Total(f, N) = 0
<1> DEFINE S == {m \in Nat : m <= N => Total(f, m) = 0}
<1>1. 0 \in S
  BY TotalStep
<1>2. ASSUME NEW m \in S PROVE m + 1 \in S
  <2>1. CASE m + 1 <= N
    <3>1. f[m + 1] = 0 /\ Total(f, m) = 0 /\ m \in Nat
      BY <2>1, m + 1 \in 1..N
    <3>2. Total(f, m + 1) = Total(f, m) + f[m + 1]
      BY TotalStep
    <3> QED BY <3>1, <3>2
  <2> QED BY <2>1
<1>3. S = Nat
  <2> HIDE DEF S
  <2>1. S \in SUBSET Nat
    BY DEF S
  <2> QED BY <1>1, <1>2, <2>1, SetInduction
<1> QED BY <1>3
=============================================================================
