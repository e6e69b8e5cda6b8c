---------------------------- MODULE InductionLemmas ----------------------------
(***************************************************************************)
(* Induction on natural numbers for sets.  The theorems of module          *)
(* NaturalsInduction take the formula to prove as an operator; here it is  *)
(* a set of numbers, so that a proof can name the set and cite the lemma.  *)
(***************************************************************************)
EXTENDS Integers, Sequences, FiniteSetsExt, WellFoundedInduction, TLAPS

\* A set that has 0, and the successor of each number it has, has them all.
LEMMA SetInduction ==
  ASSUME NEW S, 0 \in S, \A n \in Nat : n \in S => n + 1 \in S
  PROVE  Nat \subseteq S
  <1> DEFINE T == {n \in Nat : n \notin S}
  <1> DEFINE R == OpToRel(<, Nat)
  <1>1. SUFFICES ASSUME T # {} PROVE FALSE
    OBVIOUS
  <1>2. \E x \in T : \A y \in T : ~(<<y, x>> \in R)
    <2>1. T \subseteq Nat
      OBVIOUS
    <2>2. IsWellFoundedOn(R, Nat)
      BY NatLessThanWellFounded
    <2> HIDE DEF T, R
    <2> QED
      BY <1>1, <2>1, <2>2, WFMin
  <1>3. PICK x \in T : \A y \in T : ~(<<y, x>> \in R)
    BY <1>2
  <1>4. \A y \in T : ~(y < x)
    BY <1>3 DEF OpToRel
  <1>5. x # 0 /\ x - 1 \in Nat
    OBVIOUS
  <1>6. x - 1 \in S
    BY <1>4, <1>5
  <1> QED
    BY <1>5, <1>6

\* The same up to a bound.
LEMMA IntervalInduction ==
  ASSUME NEW N \in Nat, NEW S, 0 \in S, \A n \in 1..N : n - 1 \in S => n \in S
  PROVE  0..N \subseteq S
  <1> DEFINE T == {n \in Nat : n <= N => n \in S}
  <1>1. 0 \in T
    OBVIOUS
  <1>2. \A n \in Nat : n \in T => n + 1 \in T
    <2> SUFFICES ASSUME NEW n \in Nat, n \in T, n + 1 <= N PROVE n + 1 \in S
      OBVIOUS
    <2>1. n + 1 \in 1..N /\ (n + 1) - 1 = n /\ n \in S
      OBVIOUS
    <2> QED
      BY <2>1
  <1> HIDE DEF T
  <1>3. Nat \subseteq T
    BY <1>1, <1>2, SetInduction
  <1> QED
    BY <1>3 DEF T

\* A set of numbers that is not empty has a least one, and a greatest one if it is
\* bounded.
LEMMA LeastNumber ==
  ASSUME NEW S \in SUBSET Nat, S # {}
  PROVE  \E m \in S : \A n \in S : m <= n
  <1> DEFINE T == {n \in Nat : \A k \in 0..n : k \notin S}
  <1> SUFFICES ASSUME ~ \E m \in S : \A n \in S : m <= n PROVE FALSE
    OBVIOUS
  <1>1. 0 \in T
    OBVIOUS
  <1>2. ASSUME NEW n \in Nat, n \in T PROVE n + 1 \in T
    <2>1. n + 1 \notin S
      <3> SUFFICES ASSUME n + 1 \in S PROVE FALSE
        OBVIOUS
      <3>1. PICK k \in S : ~(n + 1 <= k)
        OBVIOUS
      <3>2. k \in 0..n
        BY <3>1
      <3> QED
        BY <1>2, <3>2
    <2>2. \A k \in 0..(n + 1) : k \in 0..n \/ k = n + 1
      OBVIOUS
    <2> QED
      BY <1>2, <2>1, <2>2
  <1> HIDE DEF T
  <1>3. Nat \subseteq T
    BY <1>1, <1>2, SetInduction
  <1>4. \A n \in Nat : n \notin S
    <2> SUFFICES ASSUME NEW n \in Nat PROVE n \notin S
      OBVIOUS
    <2>1. n \in T /\ n \in 0..n
      BY <1>3
    <2> QED
      BY <2>1 DEF T
  <1> QED
    BY <1>4

LEMMA GreatestNumber ==
  ASSUME NEW S \in SUBSET Nat, S # {}, NEW bound \in Nat, \A n \in S : n <= bound
  PROVE  \E m \in S : \A n \in S : n <= m
  <1> DEFINE B == {b \in Nat : \A n \in S : n <= b}
  <1>1. B \in SUBSET Nat /\ B # {}
    OBVIOUS
  <1>2. \E b \in B : \A c \in B : b <= c
    <2> HIDE DEF B
    <2> QED
      BY <1>1, LeastNumber
  <1>3. PICK b \in B : \A c \in B : b <= c
    BY <1>2
  <1>4. b \in S
    <2> SUFFICES ASSUME b \notin S PROVE FALSE
      OBVIOUS
    <2>1. \A n \in S : n \in Nat /\ n < b
      OBVIOUS
    <2>2. PICK n \in S : TRUE
      OBVIOUS
    <2>3. b - 1 \in Nat
      BY <2>1, <2>2
    <2>4. b - 1 \in B
      BY <2>1, <2>3
    <2> QED
      BY <1>3, <2>4
  <1> QED
    BY <1>4

\* The results of repeating steps from a first value: after each number of them.
Iterations(D, init, N, step) ==
  {f \in [0..N -> D] : f[0] = init /\ \A n \in 1..N : f[n] = step[n][f[n - 1]]}

LEMMA Iterates ==
  ASSUME NEW D, NEW init \in D, NEW N \in Nat, NEW step \in [1..N -> [D -> D]]
  PROVE  \E f : f \in Iterations(D, init, N, step)
  <1> DEFINE Results(m, f) == f[0] = init /\ \A n \in 1..m : f[n] = step[n][f[n - 1]]
  <1> DEFINE S == {m \in 0..N : \E f \in [0..m -> D] : Results(m, f)}
  <1>1. 0 \in S
    <2> DEFINE f == [n \in 0..0 |-> init]
    <2>1. f \in [0..0 -> D] /\ Results(0, f)
      OBVIOUS
    <2>2. 0 \in 0..N
      OBVIOUS
    <2> HIDE DEF f, Results
    <2> QED
      BY <2>1, <2>2
  <1>2. ASSUME NEW m \in 1..N, m - 1 \in S PROVE m \in S
    <2>1. PICK g \in [0..(m - 1) -> D] : Results(m - 1, g)
      BY <1>2
    <2> DEFINE f == [n \in 0..m |-> IF n = m THEN step[m][g[m - 1]] ELSE g[n]]
    <2>2. step[m][g[m - 1]] \in D
      <3>1. m - 1 \in 0..(m - 1) /\ m \in 1..N
        OBVIOUS
      <3> QED
        BY <3>1
    <2>3. f \in [0..m -> D]
      BY <2>2
    <2>4. f[0] = init
      BY <2>1
    <2>5. ASSUME NEW n \in 1..m PROVE f[n] = step[n][f[n - 1]]
      <3>1. n - 1 \in 0..m /\ n - 1 # m /\ n - 1 \in 0..(m - 1) /\ n \in 0..m
        OBVIOUS
      <3>2. f[n - 1] = g[n - 1]
        BY <3>1
      <3>3. CASE n = m
        BY <3>1, <3>2, <3>3
      <3>4. CASE n # m
        <4>1. n \in 1..(m - 1)
          BY <3>4
        <4> QED
          BY <2>1, <3>1, <3>2, <3>4, <4>1
      <3> QED
        BY <3>3, <3>4
    <2> HIDE DEF f
    <2>6. Results(m, f)
      BY <2>4, <2>5
    <2> QED
      BY <2>3, <2>6
  <1>3. 0..N \subseteq S
    <2> HIDE DEF S
    <2> QED
      BY <1>1, <1>2, IntervalInduction
  <1> QED
    BY <1>3 DEF Iterations

-------------------------------------------------------------------------------

\* The least of two numbers.
LEMMA MinOfTwo ==
  ASSUME NEW m \in Nat, NEW n \in Nat
  PROVE  Min({m, n}) = IF m <= n THEN m ELSE n
  BY DEF Min

\* Min is the least number of a set.
LEMMA MinIsLeast ==
  ASSUME NEW S \in SUBSET Nat, S # {}
  PROVE  Min(S) \in S /\ \A n \in S : Min(S) <= n
  <1>1. \E m \in S : \A n \in S : m <= n
    BY LeastNumber
  <1> QED
    BY <1>1 DEF Min

\* Max is the greatest number of a bounded set.
LEMMA MaxIsGreatest ==
  ASSUME NEW S \in SUBSET Nat, S # {}, NEW bound \in Nat, \A n \in S : n <= bound
  PROVE  Max(S) \in S /\ \A n \in S : n <= Max(S)
  <1>1. \E m \in S : \A n \in S : n <= m
    BY GreatestNumber
  <1>2. \E m \in S : \A n \in S : m >= n
    BY <1>1
  <1>3. Max(S) \in S /\ \A n \in S : Max(S) >= n
    BY <1>2 DEF Max
  <1> QED
    BY <1>3

\* A number of the set that none exceeds is the greatest.
LEMMA MaxIs ==
  ASSUME NEW S \in SUBSET Nat, NEW m \in S, \A n \in S : n <= m
  PROVE  Max(S) = m
  <1>1. \A n \in S : m >= n
    OBVIOUS
  <1>2. ASSUME NEW x \in S, \A n \in S : x >= n PROVE x = m
    BY <1>2
  <1> QED
    BY <1>1, <1>2 DEF Max

\* A sequence of a subset is one of the set.
LEMMA SequenceIn ==
  ASSUME NEW S, NEW T, S \subseteq T, NEW q \in Seq(S)
  PROVE  q \in Seq(T)
  OBVIOUS

\* A product grows with its factor.
LEMMA ProductMonotone ==
  ASSUME NEW a \in Int, NEW b \in Int, NEW g \in Nat, a <= b
  PROVE  a * g <= b * g
  OBVIOUS

\* The product of natural numbers is one.
LEMMA ProductNotNegative ==
  ASSUME NEW a \in Nat, NEW b \in Nat
  PROVE  a * b \in Nat
  OBVIOUS

\* Quotient and remainder of a number in the form q * g + r.
LEMMA DivisionUnique ==
  ASSUME NEW g \in Nat, g > 0, NEW q \in Nat, NEW r \in 0..(g - 1)
  PROVE  (q * g + r) \div g = q /\ (q * g + r) % g = r
  OBVIOUS

===============================================================================
