---------------------------- MODULE WalletProofs ----------------------------
(***************************************************************************)
(* Proofs about module Wallet, for every number of notes of a transaction, *)
(* every set of requests and of foreign transactions and every bound.      *)
(*                                                                         *)
(* The wallet marks no note as spent: the index i of its latest account    *)
(* stands for all notes below it.  The inductive invariant Inv says why    *)
(* this is true.  A transaction, when it was made, took exactly the notes  *)
(* between the index of the account it takes and its own (Made), from a    *)
(* prefix of the ledger that is still there; and the transactions of the   *)
(* ledger take each other's accounts in a row (ChainInv), because the      *)
(* contract accepts one transaction for an account (NotNullified).  The    *)
(* rest is an induction along the ledger: the intervals join, so the notes *)
(* spent are those below i (SpentIsBelowIndex) and the balance is what was *)
(* received less what was paid (BalanceIsGains).                           *)
(***************************************************************************)
EXTENDS Wallet, InductionLemmas, FiniteSetTheorems

-----------------------------------------------------------------------------
(***************************************************************************)
(* The inductive invariant.  Tx is what create_tx makes, ForeignTx what    *)
(* others do.                                                              *)
(***************************************************************************)

\* An own transaction. The index and the amounts of its account are unsigned:
\* create_tx got a proof.
Tx == [account : Account, notes : Seq(Note), in_account : Nat \cup {None}, in_notes : Seq(Nat),
       delta_index : Nat, delta_value : Int, view : Nat]

\* A transaction of somebody else.
ForeignTx == [account : {None}, notes : Seq(Note)]

\* A group of leaves of the tree.
Entry == Tx \cup ForeignTx

\* The account that a transaction takes.
InputOf(tx) == IF tx.in_account = None THEN initial_account ELSE AccountAt(tx.in_account)

\* It takes all notes of its view between the index of that account and the index
\* of its own.
SpendsItsInterval(tx) ==
  Range(tx.in_notes) =
    {n \in Notes(1..tx.view) : InputOf(tx).i <= n /\ n < tx.account.i}

\* Its index is the next one behind a note of its view, or 0: it never stands for
\* notes that come later.
IndexFollowsNote(tx) ==
  tx.account.i = 0 \/ \E n \in Notes(1..tx.view) : tx.account.i = n + 1

\* What the notes of a transaction give to the wallet.
ToWallet(notes) == Part(notes, TRUE)

\* What they give to others.
ToOthers(notes) == Part(notes, FALSE)

\* The new balance is the old one and the notes it takes, less what it pays out.
Balanced(tx) ==
  tx.account.b = InputOf(tx).b + ValueOf(Range(tx.in_notes)) + tx.delta_value
                   - ToWallet(tx.notes) - ToOthers(tx.notes)

\* What create_tx and the circuit establish, and what stays true while the view
\* is there.
Made(tx) ==
  /\ Provable(tx)
  /\ SpendsItsInterval(tx)
  /\ IndexFollowsNote(tx)
  /\ Balanced(tx)
  /\ Len(tx.notes) <= Out /\ Len(tx.in_notes) <= In

\* The entries of the ledger.
LedgerInv ==
  /\ ledger \in Seq(Entry)
  /\ \A k \in 1..Len(ledger) : Len(ledger[k].notes) <= Out

\* The types of the variables; the transactions that were made saw groups of the
\* ledger.
TypeInv ==
  /\ LedgerInv /\ Len(ledger) <= MaxTxs
  /\ synced \in 0..Len(ledger)
  /\ created \subseteq Tx /\ \A tx \in created : tx.view <= Len(ledger)

\* All own transactions, in the ledger or not, were made from groups that are
\* still there; one in the ledger, from groups before its own.
MadeInv ==
  /\ \A tx \in created \cup {ledger[k] : k \in OwnGroups} : Made(tx)
  /\ \A k \in OwnGroups : ledger[k].view < k

\* An own transaction of the ledger takes the latest account before it.
ChainInv == \A k \in OwnGroups : ledger[k].in_account = latest_account_index(k - 1)

\* What the reports of the wallet rest on.
HistoryInv == LedgerInv /\ MadeInv /\ ChainInv

\* The inductive invariant.
Inv == TypeInv /\ MadeInv /\ ChainInv

\* The notes that the first s groups take.
SpentNotes(s) == UNION {Range(ledger[k].in_notes) : k \in OwnGroups \cap 1..s}

-----------------------------------------------------------------------------
(***************************************************************************)
(* Sums.  Total is a recursive function: it is the last result of adding   *)
(* the numbers one by one (Iterates).                                      *)
(***************************************************************************)

\* The partial sums of a sequence exist as a function: without it Total would
\* name no number.
LEMMA PlusIterates ==
  ASSUME NEW N \in Nat, NEW values \in [1..N -> Int]
  PROVE  \E f \in [0..N -> Int] :
           f = [n \in 0..N |-> IF n = 0 THEN 0 ELSE f[n - 1] + values[n]]
  <1> DEFINE step == [n \in 1..N |-> [sum \in Int |-> sum + values[n]]]
  <1>1. step \in [1..N -> [Int -> Int]]
    OBVIOUS
  <1>2. \E f : f \in Iterations(Int, 0, N, step)
    <2>1. 0 \in Int
      OBVIOUS
    <2> HIDE DEF step
    <2> QED
      BY <1>1, <2>1, Iterates, Zenon
  <1>3. PICK f \in [0..N -> Int] :
          f[0] = 0 /\ \A n \in 1..N : f[n] = step[n][f[n - 1]]
    BY <1>2 DEF Iterations
  <1>4. ASSUME NEW n \in 1..N PROVE f[n] = f[n - 1] + values[n]
    <2>1. f[n - 1] \in Int
      OBVIOUS
    <2>2. step[n][f[n - 1]] = f[n - 1] + values[n]
      BY <2>1
    <2> QED
      BY <1>3, <2>2
  <1>5. f = [n \in 0..N |-> f[n]] /\ f[0] = 0
    BY <1>3
  <1>6. ASSUME NEW n \in 0..N
        PROVE  f[n] = IF n = 0 THEN 0 ELSE f[n - 1] + values[n]
    <2>1. CASE n = 0
      BY <1>5, <2>1
    <2>2. CASE n # 0
      <3>1. n \in 1..N
        BY <2>2
      <3> QED
        BY <1>4, <2>2, <3>1
    <2> QED
      BY <2>1, <2>2
  <1> HIDE DEF step
  <1> QED
    BY <1>5, <1>6

\* Total is the last of the partial sums.
LEMMA TotalSteps ==
  ASSUME NEW N \in Nat, NEW values \in [1..N -> Int]
  PROVE  \E f \in [0..N -> Int] :
           /\ f[0] = 0
           /\ \A n \in 1..N : f[n] = f[n - 1] + values[n]
           /\ Total(values) = f[N]
  <1> DEFINE Body(h) == [n \in 0..N |-> IF n = 0 THEN 0 ELSE h[n - 1] + values[n]]
  <1> DEFINE f == CHOOSE h : h = Body(h)
  <1>0. Len(values) = N
    OBVIOUS
  <1>1. f = Body(f)
    <2>1. \E h : h = Body(h)
      BY PlusIterates
    <2> HIDE DEF Body
    <2> QED
      BY <2>1
  <1>2. Total(values) = f[N]
    BY <1>0 DEF Total
  <1> HIDE DEF f
  <1>3. f[0] = 0 /\ \A n \in 1..N : f[n] = f[n - 1] + values[n]
    BY <1>1
  <1>4. 0..N \subseteq {n \in 0..N : f[n] \in Int}
    <2> DEFINE S == {n \in 0..N : f[n] \in Int}
    <2>1. 0 \in S
      BY <1>3
    <2>2. ASSUME NEW n \in 1..N, n - 1 \in S PROVE n \in S
      BY <1>3, <2>2
    <2> HIDE DEF S
    <2> QED
      BY <2>1, <2>2, IntervalInduction DEF S
  <1>5. f \in [0..N -> Int]
    BY <1>1, <1>4
  <1> QED
    BY <1>2, <1>3, <1>5

\* The sum of integers is one.
LEMMA TotalType ==
  ASSUME NEW N \in Nat, NEW values \in [1..N -> Int]
  PROVE  Total(values) \in Int
  BY TotalSteps

\* The sum of numbers that are not negative is not.
LEMMA TotalNotNegative ==
  ASSUME NEW N \in Nat, NEW values \in [1..N -> Int], \A n \in 1..N : values[n] >= 0
  PROVE  Total(values) >= 0
  <1>1. PICK f \in [0..N -> Int] :
           /\ f[0] = 0
           /\ \A n \in 1..N : f[n] = f[n - 1] + values[n]
           /\ Total(values) = f[N]
    BY TotalSteps
  <1> DEFINE S == {n \in 0..N : f[n] >= 0}
  <1>2. 0 \in S
    BY <1>1
  <1>3. ASSUME NEW n \in 1..N, n - 1 \in S PROVE n \in S
    BY <1>1, <1>3
  <1> HIDE DEF S
  <1>4. 0..N \subseteq S
    BY <1>2, <1>3, IntervalInduction
  <1> QED
    BY <1>1, <1>4 DEF S

\* The sum of a sequence of sums.
LEMMA TotalOfSums ==
  ASSUME NEW N \in Nat, NEW a \in [1..N -> Int], NEW b \in [1..N -> Int],
         NEW c \in [1..N -> Int], \A n \in 1..N : c[n] = a[n] + b[n]
  PROVE  Total(c) = Total(a) + Total(b)
  <1>1. PICK f \in [0..N -> Int] :
           /\ f[0] = 0
           /\ \A n \in 1..N : f[n] = f[n - 1] + a[n]
           /\ Total(a) = f[N]
    BY TotalSteps
  <1>2. PICK g \in [0..N -> Int] :
           /\ g[0] = 0
           /\ \A n \in 1..N : g[n] = g[n - 1] + b[n]
           /\ Total(b) = g[N]
    BY TotalSteps
  <1>3. PICK h \in [0..N -> Int] :
           /\ h[0] = 0
           /\ \A n \in 1..N : h[n] = h[n - 1] + c[n]
           /\ Total(c) = h[N]
    BY TotalSteps
  <1> DEFINE S == {n \in 0..N : h[n] = f[n] + g[n]}
  <1>4. 0 \in S
    BY <1>1, <1>2, <1>3
  <1>5. ASSUME NEW n \in 1..N, n - 1 \in S PROVE n \in S
    BY <1>1, <1>2, <1>3, <1>5
  <1> HIDE DEF S
  <1>6. 0..N \subseteq S
    BY <1>4, <1>5, IntervalInduction
  <1> QED
    BY <1>1, <1>2, <1>3, <1>6 DEF S

\* Zeros at the end add nothing.
LEMMA TotalExtended ==
  ASSUME NEW N \in Nat, NEW M \in Nat, N <= M,
         NEW a \in [1..N -> Int], NEW b \in [1..M -> Int],
         \A n \in 1..N : b[n] = a[n], \A n \in 1..M : n > N => b[n] = 0
  PROVE  Total(b) = Total(a)
  <1>1. PICK f \in [0..N -> Int] :
           /\ f[0] = 0
           /\ \A n \in 1..N : f[n] = f[n - 1] + a[n]
           /\ Total(a) = f[N]
    BY TotalSteps
  <1>2. PICK g \in [0..M -> Int] :
           /\ g[0] = 0
           /\ \A n \in 1..M : g[n] = g[n - 1] + b[n]
           /\ Total(b) = g[M]
    BY TotalSteps
  <1> DEFINE S == {n \in 0..M : g[n] = IF n <= N THEN f[n] ELSE f[N]}
  <1>3. 0 \in S
    BY <1>1, <1>2
  <1>4. ASSUME NEW n \in 1..M, n - 1 \in S PROVE n \in S
    <2>0. g[n] = g[n - 1] + b[n]
      BY <1>2
    <2>1. CASE n <= N
      <3>1. n \in 1..N /\ g[n - 1] = f[n - 1]
        BY <1>4, <2>1
      <3>2. f[n] = f[n - 1] + a[n] /\ b[n] = a[n]
        BY <1>1, <3>1
      <3> QED
        BY <2>0, <2>1, <3>1, <3>2
    <2>2. CASE n > N
      <3>1. b[n] = 0 /\ g[n - 1] = f[N] /\ f[N] \in Int
        BY <1>4, <2>2
      <3> QED
        BY <2>0, <2>2, <3>1
    <2> QED
      BY <2>1, <2>2
  <1> HIDE DEF S
  <1>5. 0..M \subseteq S
    BY <1>3, <1>4, IntervalInduction
  <1>6. M \in S
    BY <1>5
  <1> QED
    BY <1>1, <1>2, <1>6 DEF S

\* One number more.
LEMMA TotalAppended ==
  ASSUME NEW N \in Nat, NEW a \in [1..N -> Int], NEW b \in [1..(N + 1) -> Int],
         \A n \in 1..N : b[n] = a[n]
  PROVE  Total(b) = Total(a) + b[N + 1]
  <1>1. PICK f \in [0..N -> Int] :
           /\ f[0] = 0
           /\ \A n \in 1..N : f[n] = f[n - 1] + a[n]
           /\ Total(a) = f[N]
    BY TotalSteps
  <1>2. PICK g \in [0..(N + 1) -> Int] :
           /\ g[0] = 0
           /\ \A n \in 1..(N + 1) : g[n] = g[n - 1] + b[n]
           /\ Total(b) = g[N + 1]
    <2>1. N + 1 \in Nat
      OBVIOUS
    <2> QED
      BY <2>1, TotalSteps
  <1> DEFINE S == {n \in 0..N : g[n] = f[n]}
  <1>3. 0 \in S
    BY <1>1, <1>2
  <1>4. ASSUME NEW n \in 1..N, n - 1 \in S PROVE n \in S
    BY <1>1, <1>2, <1>4
  <1> HIDE DEF S
  <1>5. 0..N \subseteq S
    BY <1>3, <1>4, IntervalInduction
  <1>6. g[N] = f[N] /\ g[N + 1] = g[(N + 1) - 1] + b[N + 1]
    BY <1>2, <1>5 DEF S
  <1> QED
    BY <1>1, <1>2, <1>6

\* The sum of nothing.
LEMMA TotalEmpty ==
  ASSUME NEW values \in [1..0 -> Int] PROVE Total(values) = 0
  BY TotalSteps

\* The sum of a sequence with one number that is not zero.
LEMMA TotalSingle ==
  ASSUME NEW N \in Nat, NEW values \in [1..N -> Int], NEW p \in 1..N,
         \A n \in 1..N : n # p => values[n] = 0
  PROVE  Total(values) = values[p]
  <1>1. PICK f \in [0..N -> Int] :
           /\ f[0] = 0
           /\ \A n \in 1..N : f[n] = f[n - 1] + values[n]
           /\ Total(values) = f[N]
    BY TotalSteps
  <1> DEFINE S == {n \in 0..N : f[n] = IF n < p THEN 0 ELSE values[p]}
  <1>2. 0 \in S
    BY <1>1
  <1>3. ASSUME NEW n \in 1..N, n - 1 \in S PROVE n \in S
    <2>1. CASE n = p
      BY <1>1, <1>3, <2>1
    <2>2. CASE n # p
      BY <1>1, <1>3, <2>2
    <2> QED
      BY <2>1, <2>2
  <1> HIDE DEF S
  <1>4. 0..N \subseteq S
    BY <1>2, <1>3, IntervalInduction
  <1>5. N \in S
    BY <1>4
  <1> QED
    BY <1>1, <1>5 DEF S

\* The order of a sum.
LEMMA SumLeft ==
  ASSUME NEW a \in Int, NEW b \in Int, NEW c \in Int, NEW d \in Int, NEW e \in Int
  PROVE  (a + b) + c - (d + e) = a + b + c - d - e
  OBVIOUS

-----------------------------------------------------------------------------
(***************************************************************************)
(* The first indexes of a set.  Take picks the index that has k - 1        *)
(* smaller ones: there is exactly one of each rank.                        *)
(***************************************************************************)

\* The number of smaller indexes.
Rank(S, i) == Cardinality({j \in S : j < i})

\* A greater index has a greater rank.
LEMMA RankMonotone ==
  ASSUME NEW S \in SUBSET Nat, IsFiniteSet(S), NEW i \in S
  PROVE  /\ Rank(S, i) \in Nat /\ Rank(S, i) < Cardinality(S)
         /\ \A j \in S : i < j => Rank(S, i) < Rank(S, j)
  <1> DEFINE Below(j) == {k \in S : k < j}
  <1>1. \A j \in S : IsFiniteSet(Below(j)) /\ Below(j) \in SUBSET S
    BY FS_Subset
  <1>2. i \notin Below(i)
    OBVIOUS
  <1>3. IsFiniteSet(Below(i) \cup {i}) /\ Cardinality(Below(i) \cup {i}) = Cardinality(Below(i)) + 1
    BY <1>1, <1>2, FS_AddElement
  <1>4. \A j \in S : Cardinality(Below(j)) \in Nat
    BY <1>1, FS_CardinalityType
  <1>5. Cardinality(Below(i) \cup {i}) <= Cardinality(S)
    BY <1>1, FS_Subset
  <1>6. ASSUME NEW j \in S, i < j
        PROVE  Cardinality(Below(i) \cup {i}) <= Cardinality(Below(j))
    <2>1. \A x \in Below(i) \cup {i} : x \in S /\ x < j
      <3>1. \A x \in S : x \in Nat
        OBVIOUS
      <3> QED
        BY <1>6, <3>1
    <2>2. Below(i) \cup {i} \in SUBSET Below(j)
      BY <2>1
    <2> QED
      BY <1>1, <2>2, FS_Subset
  <1>7. Cardinality(S) \in Nat
    BY FS_CardinalityType
  <1> QED
    BY <1>3, <1>4, <1>5, <1>6, <1>7 DEF Rank

\* Every rank below the cardinality is that of an index.
LEMMA RankExists ==
  ASSUME NEW S \in SUBSET Nat, IsFiniteSet(S), NEW k \in 0..(Cardinality(S) - 1)
  PROVE  \E i \in S : Rank(S, i) = k
  <1> DEFINE N == Cardinality(S) - 1
             T == {n \in 0..N : \E i \in S : Rank(S, i) = n}
  <1>0. \A x \in S : x \in Nat
    OBVIOUS
  <1>1. Cardinality(S) \in Nat /\ N \in Nat /\ S # {}
    BY FS_CardinalityType, FS_EmptySet
  <1>2. 0 \in T
    <2>1. PICK i \in S : \A j \in S : i <= j
      BY <1>1, LeastNumber
    <2>2. {j \in S : j < i} = {}
      <3>1. i \in Nat
        BY <1>0
      <3>2. ASSUME NEW j \in S PROVE ~(j < i)
        <4>1. j \in Nat /\ i <= j
          BY <1>0, <2>1
        <4> QED
          BY <3>1, <4>1
      <3> QED
        BY <3>2
    <2>3. Rank(S, i) = 0
      BY <2>2, FS_EmptySet DEF Rank
    <2> QED
      BY <1>1, <2>3
  <1>3. ASSUME NEW n \in 1..N, n - 1 \in T PROVE n \in T
    <2>1. PICK i \in S : Rank(S, i) = n - 1
      BY <1>3
    <2> DEFINE Lower == {j \in S : j < i} \cup {i}
               Upper == {j \in S : i < j}
    <2>2. IsFiniteSet(Lower) /\ Cardinality(Lower) = n
      <3>1. IsFiniteSet({j \in S : j < i})
        BY FS_Subset
      <3>2. Cardinality({j \in S : j < i}) = n - 1
        BY <2>1 DEF Rank
      <3>3. i \notin {j \in S : j < i}
        BY <1>0
      <3>4. IsFiniteSet(Lower) /\ Cardinality(Lower) = Cardinality({j \in S : j < i}) + 1
        BY <3>1, <3>3, FS_AddElement
      <3> QED
        BY <3>2, <3>4
    <2>3. Upper # {}
      <3> SUFFICES ASSUME Upper = {} PROVE FALSE
        OBVIOUS
      <3>1. \A j \in S : j < i \/ j = i
        BY <1>0
      <3>2. S = Lower
        BY <3>1
      <3> QED
        BY <1>1, <2>2, <3>2
    <2>4. PICK m \in Upper : \A j \in Upper : m <= j
      <3>1. Upper \in SUBSET Nat
        OBVIOUS
      <3> HIDE DEF Upper
      <3> QED
        BY <2>3, <3>1, LeastNumber
    <2>5. {j \in S : j < m} = Lower
      <3>1. m \in S /\ i < m
        BY <2>4
      <3>2. \A j \in S : j < m => j < i \/ j = i
        BY <1>0, <2>4, <3>1
      <3>3. \A j \in S : j < i \/ j = i => j < m
        BY <1>0, <3>1
      <3> QED
        BY <3>2, <3>3
    <2>6. m \in S /\ Rank(S, m) = n
      BY <2>2, <2>4, <2>5 DEF Rank
    <2> QED
      BY <2>6
  <1> HIDE DEF T, N
  <1>4. 0..N \subseteq T
    BY <1>1, <1>2, <1>3, IntervalInduction
  <1> QED
    BY <1>1, <1>4 DEF N, T

\* Take lists indexes of the set, in order of rank.
LEMMA TakeType ==
  ASSUME NEW S \in SUBSET Nat, IsFiniteSet(S), NEW n \in Nat
  PROVE  LET m == IF n <= Cardinality(S) THEN n ELSE Cardinality(S)
         IN  /\ m \in Nat /\ Take(n, S) \in [1..m -> S]
             /\ \A k \in 1..m : Rank(S, Take(n, S)[k]) = k - 1
  <1> DEFINE m == IF n <= Cardinality(S) THEN n ELSE Cardinality(S)
  <1>1. Cardinality(S) \in Nat
    BY FS_CardinalityType
  <1>2. m \in Nat /\ Min({n, Cardinality(S)}) = m
    BY <1>1, MinOfTwo
  <1> DEFINE nth(k) == CHOOSE i \in S : Cardinality({j \in S : j < i}) = k - 1
  <1>3. Take(n, S) = [k \in 1..m |-> nth(k)]
    BY <1>2, Zenon DEF Take
  <1>4. ASSUME NEW k \in 1..m PROVE nth(k) \in S /\ Rank(S, nth(k)) = k - 1
    <2>1. k - 1 \in 0..(Cardinality(S) - 1)
      BY <1>1
    <2>2. \E i \in S : Rank(S, i) = k - 1
      BY <2>1, RankExists
    <2>3. \E i \in S : Cardinality({j \in S : j < i}) = k - 1
      BY <2>2 DEF Rank
    <2>4. nth(k) \in S /\ Cardinality({j \in S : j < nth(k)}) = k - 1
      BY <2>3, Zenon
    <2> QED
      BY <2>4, Zenon DEF Rank
  <1> HIDE DEF nth
  <1>5. Take(n, S) \in [1..m -> S] /\ \A k \in 1..m : Rank(S, Take(n, S)[k]) = k - 1
    BY <1>3, <1>4
  <1> QED
    BY <1>2, <1>5

\* Take lists them in order, leaves none out below the last, and lists all of a
\* small set.
LEMMA TakeLowest ==
  ASSUME NEW S \in SUBSET Nat, IsFiniteSet(S), NEW n \in Nat
  PROVE  LET m == IF n <= Cardinality(S) THEN n ELSE Cardinality(S)
             t == Take(n, S)
         IN  /\ \A j \in 1..m, k \in 1..m : j < k => t[j] < t[k]
             /\ \A k \in 1..m : \A i \in S : i <= t[k] => \E j \in 1..m : t[j] = i
             /\ m = Cardinality(S) => \A i \in S : \E j \in 1..m : t[j] = i
  <1> DEFINE m == IF n <= Cardinality(S) THEN n ELSE Cardinality(S)
             t == Take(n, S)
  <1>1. m \in Nat /\ t \in [1..m -> S] /\ \A k \in 1..m : Rank(S, t[k]) = k - 1
    BY TakeType
  <1>0. Cardinality(S) \in Nat /\ \A x \in S : x \in Nat
    BY FS_CardinalityType
  <1> HIDE DEF t
  <1>2. ASSUME NEW j \in 1..m, NEW k \in 1..m, j < k PROVE t[j] < t[k]
    <2>1. t[j] \in S /\ t[k] \in S /\ Rank(S, t[j]) = j - 1 /\ Rank(S, t[k]) = k - 1
      BY <1>1
    <2>2. t[k] # t[j]
      BY <1>2, <2>1
    <2>3. ~(t[k] < t[j])
      <3> SUFFICES ASSUME t[k] < t[j] PROVE FALSE
        OBVIOUS
      <3>1. Rank(S, t[k]) < Rank(S, t[j])
        BY <2>1, RankMonotone
      <3> QED
        BY <1>2, <2>1, <3>1
    <2>4. t[j] \in Nat /\ t[k] \in Nat
      BY <1>0, <2>1
    <2> QED
      BY <2>2, <2>3, <2>4
  <1>3. ASSUME NEW i \in S, Rank(S, i) < m PROVE \E j \in 1..m : t[j] = i
    <2>1. Rank(S, i) \in Nat
      BY RankMonotone
    <2> DEFINE j == Rank(S, i) + 1
    <2>2. j \in 1..m /\ j - 1 = Rank(S, i)
      BY <1>1, <1>3, <2>1
    <2>3. t[j] \in S /\ Rank(S, t[j]) = Rank(S, i)
      BY <1>1, <2>2
    <2>4. t[j] = i
      <3>1. ~(t[j] < i)
        <4>1. t[j] < i => Rank(S, t[j]) < Rank(S, i)
          BY <2>3, RankMonotone
        <4> QED
          BY <2>1, <2>3, <4>1
      <3>2. ~(i < t[j])
        <4>1. i < t[j] => Rank(S, i) < Rank(S, t[j])
          BY <2>3, RankMonotone
        <4> QED
          BY <2>1, <2>3, <4>1
      <3>3. t[j] \in Nat /\ i \in Nat
        BY <1>0, <2>3
      <3> QED
        BY <3>1, <3>2, <3>3
    <2> QED
      BY <2>2, <2>4
  <1>4. ASSUME NEW k \in 1..m, NEW i \in S, i <= t[k] PROVE \E j \in 1..m : t[j] = i
    <2>1. t[k] \in S /\ Rank(S, t[k]) = k - 1
      BY <1>1
    <2>2. Rank(S, i) \in Nat /\ Rank(S, i) <= k - 1
      <3>0. Rank(S, i) \in Nat
        BY RankMonotone
      <3>1. CASE i = t[k]
        BY <2>1, <3>0, <3>1
      <3>2. CASE i < t[k]
        <4>1. Rank(S, i) < Rank(S, t[k])
          BY <2>1, <3>2, RankMonotone
        <4> QED
          BY <2>1, <3>0, <4>1
      <3>3. t[k] \in Nat /\ i \in Nat
        BY <1>0, <2>1
      <3> QED
        BY <1>4, <3>1, <3>2, <3>3
    <2> QED
      BY <1>1, <1>3, <2>2
  <1>5. ASSUME m = Cardinality(S), NEW i \in S PROVE \E j \in 1..m : t[j] = i
    <2>1. Rank(S, i) < m
      BY <1>5, RankMonotone
    <2> QED
      BY <1>3, <2>1
  <1> HIDE DEF m
  <1>6. /\ \A j \in 1..m, k \in 1..m : j < k => t[j] < t[k]
        /\ \A k \in 1..m : \A i \in S : i <= t[k] => \E j \in 1..m : t[j] = i
        /\ m = Cardinality(S) => \A i \in S : \E j \in 1..m : t[j] = i
    BY <1>2, <1>4, <1>5
  <1> QED
    BY <1>6 DEF m, t

\* The first index is the least.
LEMMA TakeOne ==
  ASSUME NEW S \in SUBSET Nat, IsFiniteSet(S)
  PROVE  /\ S = {} => Take(1, S) = <<>>
         /\ S # {} => Take(1, S) = <<Min(S)>>
  <1> DEFINE m == IF 1 <= Cardinality(S) THEN 1 ELSE Cardinality(S)
             t == Take(1, S)
  <1>1. m \in Nat /\ t \in [1..m -> S]
    BY TakeType
  <1>2. \A k \in 1..m : \A i \in S : i <= t[k] => \E j \in 1..m : t[j] = i
    BY TakeLowest
  <1>3. Cardinality(S) \in Nat /\ (Cardinality(S) = 0 <=> S = {})
    BY FS_CardinalityType, FS_EmptySet
  <1> HIDE DEF t
  <1>4. CASE S = {}
    <2>1. m = 0
      BY <1>3, <1>4
    <2>2. t = <<>>
      BY <1>1, <2>1
    <2> QED
      BY <1>4, <2>2 DEF t
  <1>5. CASE S # {}
    <2>0. Cardinality(S) # 0
      BY <1>3, <1>5
    <2>1. m = 1
      BY <1>3, <2>0
    <2>2. t \in [1..1 -> S] /\ t[1] \in S
      BY <1>1, <2>1
    <2>3. Min(S) \in S /\ Min(S) <= t[1]
      BY <1>5, <2>2, MinIsLeast
    <2>7. 1 \in 1..m /\ \A j \in 1..m : j = 1
      BY <2>1
    <2>4. \E j \in 1..m : t[j] = Min(S)
      BY <1>2, <2>3, <2>7
    <2>5. t[1] = Min(S)
      BY <2>4, <2>7
    <2>6. t = <<Min(S)>>
      BY <2>2, <2>5
    <2> QED
      BY <1>5, <2>6 DEF t
  <1> QED
    BY <1>4, <1>5

-----------------------------------------------------------------------------
(***************************************************************************)
(* Where accounts and notes lie.  A group of GroupSize indexes starts at   *)
(* its Position, with the account; the notes follow, so the index says     *)
(* which group and which note it is.                                       *)
(***************************************************************************)

\* The size of a group: an account and Out notes.
LEMMA SizeType == GroupSize \in Nat /\ GroupSize >= 2 /\ Out \in Nat /\ Out = GroupSize - 1
  BY SizeAssumption DEF GroupSize

\* Positions are numbers, a group apart.
LEMMA PositionType ==
  ASSUME NEW k \in Nat \ {0}
  PROVE  Position(k) \in Nat /\ Position(k + 1) = Position(k) + GroupSize
  BY SizeType DEF Position

\* The tree starts with index 0.
LEMMA PositionFirst == Position(1) = 0
  BY SizeType DEF Position

\* A later group starts behind an earlier one.
LEMMA PositionsApart ==
  ASSUME NEW k \in Nat \ {0}, NEW l \in Nat \ {0}, k < l
  PROVE  Position(k) + GroupSize <= Position(l)
  <1>1. k * GroupSize <= (l - 1) * GroupSize
    BY SizeType, ProductMonotone
  <1> QED
    BY <1>1, SizeType DEF Position

\* A later group does not start before an earlier one.
LEMMA PositionsGrow ==
  ASSUME NEW k \in Nat \ {0}, NEW l \in Nat \ {0}, k <= l
  PROVE  Position(k) <= Position(l)
  <1>1. CASE k = l
    BY <1>1, PositionType
  <1>2. CASE k < l
    BY <1>2, PositionsApart, PositionType, SizeType
  <1> QED
    BY <1>1, <1>2

\* An index of a group leads back to the group and to the place in it.
LEMMA GroupOfPosition ==
  ASSUME NEW k \in Nat \ {0}, NEW j \in 0..Out
  PROVE  GroupOf(Position(k) + j) = k /\ (Position(k) + j) % GroupSize = j
  <1>1. k - 1 \in Nat /\ GroupSize > 0 /\ GroupSize \in Nat /\ j \in 0..(GroupSize - 1)
    BY SizeType
  <1>2. /\ ((k - 1) * GroupSize + j) \div GroupSize = k - 1
        /\ ((k - 1) * GroupSize + j) % GroupSize = j
    BY <1>1, DivisionUnique
  <1> QED
    BY <1>1, <1>2 DEF GroupOf, Position

\* The index behind a group, as client/mod.rs computes it from an index in the
\* group.
LEMMA NextOfGroup ==
  ASSUME NEW k \in Nat \ {0}, NEW j \in 0..Out
  PROVE  ((Position(k) + j) \div GroupSize + 1) * GroupSize = Position(k + 1)
  <1>1. (Position(k) + j) \div GroupSize + 1 = k
    BY GroupOfPosition DEF GroupOf
  <1>2. Position(k + 1) = k * GroupSize
    BY SizeType DEF Position
  <1> QED
    BY <1>1, <1>2

\* A prefix of the ledger, as a set of groups.
LEMMA GroupsInLedger ==
  ASSUME LedgerInv, NEW v \in 0..Len(ledger)
  PROVE  1..v \in SUBSET (1..v) /\ 1..v \in SUBSET (1..Len(ledger)) /\ v \in Nat
         /\ v + 1 \in Nat \ {0}
  BY DEF LedgerInv

\* The fields of an entry.
LEMMA EntryType ==
  ASSUME LedgerInv, NEW k \in 1..Len(ledger)
  PROVE  /\ ledger[k] \in Entry
         /\ ledger[k].notes \in Seq(Note) /\ Len(ledger[k].notes) \in 0..Out
         /\ DOMAIN ledger[k].notes = 1..Len(ledger[k].notes)
         /\ IsOwn(k) => ledger[k] \in Tx /\ ledger[k].account \in Account
         /\ ~IsOwn(k) => ledger[k].account = None
  <1>1. ledger[k] \in Entry /\ Len(ledger[k].notes) <= Out
    BY DEF LedgerInv
  <1>2. ledger[k].notes \in Seq(Note)
    BY <1>1 DEF Entry, Tx, ForeignTx
  <1>3. Len(ledger[k].notes) \in Nat /\ DOMAIN ledger[k].notes = 1..Len(ledger[k].notes)
    BY <1>2
  <1>4. IsOwn(k) => ledger[k] \in Tx /\ ledger[k].account \in Account
    BY <1>1 DEF Entry, Tx, ForeignTx, IsOwn
  <1> QED
    BY <1>1, <1>2, <1>3, <1>4, SizeType DEF IsOwn

\* Where a note lies.
LEMMA NotesWhere ==
  ASSUME LedgerInv, NEW G \in SUBSET (1..Len(ledger)), NEW n \in Notes(G)
  PROVE  /\ n \in Nat /\ GroupOf(n) \in G
         /\ n % GroupSize \in 1..Len(ledger[GroupOf(n)].notes)
         /\ NoteAt(n) \in Note /\ NoteAt(n).own
         /\ n = Position(GroupOf(n)) + (n % GroupSize)
         /\ Position(GroupOf(n)) < n /\ n < Position(GroupOf(n) + 1)
  <1>a. PICK k \in G : \E j \in DOMAIN ledger[k].notes :
           ledger[k].notes[j].own /\ n = Position(k) + j
    BY DEF Notes
  <1>1. PICK j \in DOMAIN ledger[k].notes : ledger[k].notes[j].own /\ n = Position(k) + j
    BY <1>a
  <1>2. k \in 1..Len(ledger) /\ k \in Nat \ {0}
    BY DEF LedgerInv
  <1>3. ledger[k].notes \in Seq(Note) /\ Len(ledger[k].notes) \in 0..Out /\ j \in 1..Len(ledger[k].notes)
    BY <1>2, EntryType
  <1>4. ledger[k].notes[j] \in Note
    BY <1>3
  <1>5. j \in 0..Out /\ j \in 1..Out
    BY <1>3, SizeType
  <1>9. Position(k) \in Nat /\ Position(k + 1) = Position(k) + GroupSize
    BY <1>2, PositionType
  <1>6. GroupOf(n) = k /\ n % GroupSize = j
    BY <1>1, <1>2, <1>5, GroupOfPosition
  <1>7. NoteAt(n) = ledger[k].notes[j]
    BY <1>6 DEF NoteAt
  <1>8. n \in Nat /\ Position(k) < n /\ n < Position(k + 1)
    BY <1>1, <1>5, <1>9, SizeType
  <1> QED
    BY <1>1, <1>3, <1>4, <1>6, <1>7, <1>8

\* A note belongs to every set of groups that has its group.
LEMMA NotesIn ==
  ASSUME NEW G, NEW H, NEW n \in Notes(G), LedgerInv, G \in SUBSET (1..Len(ledger)), GroupOf(n) \in H
  PROVE  n \in Notes(H)
  <1>a. PICK k \in G : \E j \in DOMAIN ledger[k].notes :
           ledger[k].notes[j].own /\ n = Position(k) + j
    BY DEF Notes
  <1>1. PICK j \in DOMAIN ledger[k].notes : ledger[k].notes[j].own /\ n = Position(k) + j
    BY <1>a
  <1>2. k \in 1..Len(ledger) /\ k \in Nat \ {0}
    BY DEF LedgerInv
  <1>3. Len(ledger[k].notes) \in 0..Out /\ j \in 1..Len(ledger[k].notes)
    BY <1>2, EntryType
  <1>4. k \in H
    BY <1>1, <1>2, <1>3, GroupOfPosition, SizeType
  <1> QED
    BY <1>1, <1>4 DEF Notes

\* The notes of two sets of groups.
LEMMA NotesUnion ==
  ASSUME NEW G, NEW H
  PROVE  Notes(G \cup H) = Notes(G) \cup Notes(H) /\ Notes({}) = {}
  BY DEF Notes

\* The notes of a prefix lie behind the first account and before the next group.
LEMMA NotesBounded ==
  ASSUME LedgerInv, NEW v \in 0..Len(ledger), NEW G \in SUBSET (1..v)
  PROVE  /\ Notes(G) \in SUBSET Nat /\ IsFiniteSet(Notes(G))
         /\ Position(v + 1) \in Nat
         /\ \A n \in Notes(G) : 0 < n /\ n < Position(v + 1)
  <1>0. Len(ledger) \in Nat
    BY DEF LedgerInv
  <1>1. Position(v + 1) \in Nat
    BY <1>0, PositionType
  <1>2. ASSUME NEW n \in Notes(G) PROVE n \in Nat /\ 0 < n /\ n < Position(v + 1)
    <2>1. G \in SUBSET (1..Len(ledger))
      BY <1>0
    <2>2. GroupOf(n) \in G /\ n \in Nat /\ n < Position(GroupOf(n) + 1) /\ Position(GroupOf(n)) < n
      BY <2>1, NotesWhere
    <2>3. GroupOf(n) \in 1..v
      BY <2>2
    <2>5. GroupOf(n) \in Nat \ {0} /\ GroupOf(n) + 1 \in Nat \ {0} /\ v + 1 \in Nat \ {0}
          /\ GroupOf(n) + 1 <= v + 1
      BY <1>0, <2>3
    <2>4. Position(GroupOf(n)) \in Nat /\ Position(GroupOf(n) + 1) \in Nat
          /\ Position(GroupOf(n) + 1) <= Position(v + 1)
      BY <2>5, PositionType, PositionsGrow
    <2> QED
      BY <1>1, <2>2, <2>4
  <1>3. Notes(G) \in SUBSET Nat
    BY <1>2
  <1>4. \A n \in Notes(G) : n <= Position(v + 1)
    BY <1>1, <1>2
  <1>5. IsFiniteSet(Notes(G))
    BY <1>1, <1>3, <1>4, FS_BoundedSetOfNaturals
  <1> QED
    BY <1>1, <1>2, <1>3, <1>5

\* The notes of an earlier group come first.
LEMMA NotesOrdered ==
  ASSUME LedgerInv, NEW G \in SUBSET (1..Len(ledger)), NEW m \in Notes(G), NEW n \in Notes(G),
         GroupOf(m) < GroupOf(n)
  PROVE  m < n
  <1>0. Len(ledger) \in Nat
    BY DEF LedgerInv
  <1>1. /\ m \in Nat /\ GroupOf(m) \in G /\ m < Position(GroupOf(m) + 1)
        /\ n \in Nat /\ GroupOf(n) \in G /\ Position(GroupOf(n)) < n
    BY NotesWhere
  <1>2. GroupOf(m) \in 1..Len(ledger) /\ GroupOf(n) \in 1..Len(ledger)
    BY <1>1
  <1>4. /\ GroupOf(m) \in Nat \ {0} /\ GroupOf(n) \in Nat \ {0}
        /\ GroupOf(m) + 1 \in Nat \ {0} /\ GroupOf(m) + 1 <= GroupOf(n)
    BY <1>0, <1>2
  <1>3. /\ Position(GroupOf(m) + 1) \in Nat /\ Position(GroupOf(n)) \in Nat
        /\ Position(GroupOf(m) + 1) <= Position(GroupOf(n))
    BY <1>4, PositionType, PositionsGrow
  <1> QED
    BY <1>1, <1>3

\* Where an account lies.
LEMMA AccountsWhere ==
  ASSUME LedgerInv, NEW G \in SUBSET (1..Len(ledger)), NEW a \in Accounts(G)
  PROVE  /\ a \in Nat /\ GroupOf(a) \in G /\ a = Position(GroupOf(a))
         /\ IsOwn(GroupOf(a)) /\ AccountAt(a) = ledger[GroupOf(a)].account
         /\ AccountAt(a) \in Account
  <1>0. Len(ledger) \in Nat
    BY DEF LedgerInv
  <1>1. PICK k \in G : IsOwn(k) /\ a = Position(k)
    BY DEF Accounts
  <1>2. k \in 1..Len(ledger) /\ k \in Nat \ {0} /\ 0 \in 0..Out
    BY <1>0, SizeType
  <1>3. Position(k) \in Nat /\ Position(k) + 0 = Position(k)
    BY <1>2, PositionType
  <1>4. GroupOf(a) = k
    BY <1>1, <1>2, <1>3, GroupOfPosition
  <1> QED
    BY <1>1, <1>2, <1>3, <1>4, EntryType DEF AccountAt

\* An own group has its account at its position.
LEMMA AccountsIn ==
  ASSUME NEW G, NEW k \in G, IsOwn(k)
  PROVE  Position(k) \in Accounts(G)
  BY DEF Accounts

\* The accounts of a prefix lie before the next group.
LEMMA AccountsBounded ==
  ASSUME LedgerInv, NEW v \in 0..Len(ledger), NEW G \in SUBSET (1..v)
  PROVE  /\ Accounts(G) \in SUBSET Nat
         /\ Position(v + 1) \in Nat
         /\ \A a \in Accounts(G) : a < Position(v + 1)
  <1>0. Len(ledger) \in Nat
    BY DEF LedgerInv
  <1>1. Position(v + 1) \in Nat
    BY <1>0, PositionType
  <1>2. ASSUME NEW a \in Accounts(G) PROVE a \in Nat /\ a < Position(v + 1)
    <2>1. G \in SUBSET (1..Len(ledger))
      BY <1>0
    <2>2. GroupOf(a) \in G /\ a = Position(GroupOf(a))
      BY <2>1, AccountsWhere
    <2>3. GroupOf(a) \in 1..v
      BY <2>2
    <2>4. Position(GroupOf(a)) \in Nat /\ Position(GroupOf(a)) + GroupSize <= Position(v + 1)
      BY <1>0, <2>3, PositionType, PositionsApart
    <2> QED
      BY <1>1, <2>2, <2>4, SizeType
  <1> QED
    BY <1>1, <1>2

-----------------------------------------------------------------------------
(***************************************************************************)
(* The value of notes.  ValueOf adds up over all indexes of the tree; that *)
(* of disjoint sets adds up, and that of the notes of one group is what    *)
(* its transaction gives to the wallet.                                    *)
(***************************************************************************)

\* The notes of the whole ledger.
AllNotes == Notes(1..Len(ledger))

\* The sequence that ValueOf adds up.
NoteValues(S) == [p \in 1..Position(Len(ledger) + 1) |-> IF p \in S THEN NoteAt(p).b ELSE 0]

\* All notes lie in the tree and have an amount; those of any groups are among
\* them.
LEMMA AllNotesType ==
  ASSUME LedgerInv
  PROVE  /\ Position(Len(ledger) + 1) \in Nat
         /\ \A n \in AllNotes :
              n \in 1..Position(Len(ledger) + 1) /\ NoteAt(n) \in Note /\ NoteAt(n).b \in Nat
         /\ \A G : G \in SUBSET (1..Len(ledger)) => Notes(G) \in SUBSET AllNotes
  <1> DEFINE M == Position(Len(ledger) + 1)
  <1>1. Len(ledger) \in Nat /\ Len(ledger) \in 0..Len(ledger)
        /\ 1..Len(ledger) \in SUBSET (1..Len(ledger))
    BY DEF LedgerInv
  <1>2. M \in Nat /\ AllNotes \in SUBSET Nat /\ \A n \in AllNotes : 0 < n /\ n < M
    BY <1>1, NotesBounded DEF AllNotes
  <1>3. ASSUME NEW n \in AllNotes PROVE n \in 1..M /\ NoteAt(n) \in Note /\ NoteAt(n).b \in Nat
    <2>1. NoteAt(n) \in Note
      BY <1>1, <1>3, NotesWhere DEF AllNotes
    <2>2. n \in Nat /\ 0 < n /\ n < M
      BY <1>2
    <2> QED
      BY <1>2, <2>1, <2>2 DEF Note
  <1>4. ASSUME NEW G, G \in SUBSET (1..Len(ledger)) PROVE Notes(G) \in SUBSET AllNotes
    BY <1>4 DEF Notes, AllNotes
  <1> QED
    BY <1>2, <1>3, <1>4

\* It is a sequence of integers.
LEMMA NoteValuesType ==
  ASSUME LedgerInv, NEW S \in SUBSET AllNotes
  PROVE  /\ NoteValues(S) \in [1..Position(Len(ledger) + 1) -> Int]
         /\ ValueOf(S) = Total(NoteValues(S)) /\ ValueOf(S) \in Int
  <1>1. Position(Len(ledger) + 1) \in Nat /\ \A n \in S : NoteAt(n).b \in Int
    BY AllNotesType
  <1>2. NoteValues(S) \in [1..Position(Len(ledger) + 1) -> Int]
    BY <1>1 DEF NoteValues
  <1>3. ValueOf(S) = Total(NoteValues(S))
    BY DEF ValueOf, NoteValues
  <1> QED
    BY <1>1, <1>2, <1>3, TotalType

\* The value of disjoint sets adds up.
LEMMA ValueUnion ==
  ASSUME LedgerInv, NEW S \in SUBSET AllNotes, NEW T \in SUBSET AllNotes, S \cap T = {}
  PROVE  ValueOf(S \cup T) = ValueOf(S) + ValueOf(T)
  <1> DEFINE M == Position(Len(ledger) + 1)
  <1>1. M \in Nat /\ \A n \in AllNotes : NoteAt(n).b \in Nat
    BY AllNotesType
  <1>2. S \cup T \in SUBSET AllNotes
    OBVIOUS
  <1>3. /\ NoteValues(S) \in [1..M -> Int] /\ ValueOf(S) = Total(NoteValues(S))
        /\ NoteValues(T) \in [1..M -> Int] /\ ValueOf(T) = Total(NoteValues(T))
        /\ NoteValues(S \cup T) \in [1..M -> Int]
        /\ ValueOf(S \cup T) = Total(NoteValues(S \cup T))
    BY <1>2, NoteValuesType
  <1>4. ASSUME NEW n \in 1..M
        PROVE  NoteValues(S \cup T)[n] = NoteValues(S)[n] + NoteValues(T)[n]
    <2>1. n \in S \cup T => NoteAt(n).b \in Nat
      BY <1>1
    <2> QED
      BY <2>1 DEF NoteValues
  <1>5. Total(NoteValues(S \cup T)) = Total(NoteValues(S)) + Total(NoteValues(T))
    <2> HIDE DEF M
    <2> QED
      BY <1>1, <1>3, <1>4, TotalOfSums
  <1> QED
    BY <1>3, <1>5

\* No notes have no value.
LEMMA ValueEmpty ==
  ASSUME LedgerInv
  PROVE  ValueOf({}) = 0
  <1>1. {} \in SUBSET AllNotes /\ {} \cap {} = {} /\ {} \cup {} = {}
    OBVIOUS
  <1>2. ValueOf({}) \in Int
    BY <1>1, NoteValuesType
  <1>3. ValueOf({} \cup {}) = ValueOf({}) + ValueOf({})
    BY <1>1, ValueUnion, Zenon
  <1> DEFINE v == ValueOf({})
  <1>4. v \in Int /\ v = v + v
    BY <1>1, <1>2, <1>3
  <1> HIDE DEF v
  <1>5. v = 0
    BY <1>4
  <1> QED
    BY <1>5 DEF v

\* The value of one note is its amount.
LEMMA ValueSingle ==
  ASSUME LedgerInv, NEW n \in AllNotes
  PROVE  ValueOf({n}) = NoteAt(n).b
  <1> DEFINE M == Position(Len(ledger) + 1)
  <1>1. M \in Nat /\ n \in 1..M
    BY AllNotesType
  <1>2. NoteValues({n}) \in [1..M -> Int] /\ ValueOf({n}) = Total(NoteValues({n}))
    BY NoteValuesType
  <1>3. /\ NoteValues({n})[n] = NoteAt(n).b
        /\ \A p \in 1..M : p # n => NoteValues({n})[p] = 0
    BY <1>1 DEF NoteValues
  <1> QED
    BY <1>1, <1>2, <1>3, TotalSingle

\* The value of notes that are listed once each is the sum that create_tx
\* computes over the list.
LEMMA ValueOfSequence ==
  ASSUME LedgerInv, NEW m \in Nat, NEW q \in [1..m -> AllNotes], IsInjective(q)
  PROVE  ValueOf(Range(q)) = Total([j \in 1..m |-> NoteAt(q[j]).b])
  <1> DEFINE firsts(n) == {q[j] : j \in 1..n}
             values(n) == [j \in 1..n |-> NoteAt(q[j]).b]
             S == {n \in 0..m : ValueOf(firsts(n)) = Total(values(n))}
  <1>1. \A n \in AllNotes : NoteAt(n).b \in Nat
    BY AllNotesType
  <1>2. \A n \in 0..m : values(n) \in [1..n -> Int]
    BY <1>1
  <1>3. 0 \in S
    <2>1. firsts(0) = {}
      OBVIOUS
    <2>2. 0 \in 0..m
      OBVIOUS
    <2>3. values(0) \in [1..0 -> Int]
      BY <1>2, <2>2
    <2> HIDE DEF firsts, values
    <2>4. ValueOf(firsts(0)) = 0 /\ Total(values(0)) = 0
      BY <2>1, <2>3, ValueEmpty, TotalEmpty
    <2> QED
      BY <2>2, <2>4
  <1>4. ASSUME NEW n \in 1..m, n - 1 \in S PROVE n \in S
    <2>1. firsts(n) = firsts(n - 1) \cup {q[n]}
      <3>1. \A j \in 1..n : j \in 1..(n - 1) \/ j = n
        OBVIOUS
      <3>2. \A j \in 1..(n - 1) : j \in 1..n
        OBVIOUS
      <3> QED
        BY <3>1, <3>2
    <2>2. q[n] \in AllNotes /\ {q[n]} \in SUBSET AllNotes /\ firsts(n - 1) \in SUBSET AllNotes
      OBVIOUS
    <2>3. firsts(n - 1) \cap {q[n]} = {}
      <3>1. \A j \in 1..(n - 1) : q[j] # q[n]
        BY DEF IsInjective
      <3> QED
        BY <3>1
    <2>4. ValueOf(firsts(n)) = ValueOf(firsts(n - 1)) + NoteAt(q[n]).b
      <3> HIDE DEF firsts
      <3> QED
        BY <2>1, <2>2, <2>3, ValueUnion, ValueSingle
    <2>5. Total(values(n)) = Total(values(n - 1)) + NoteAt(q[n]).b
      <3>1. n - 1 \in Nat /\ (n - 1) + 1 = n /\ n - 1 \in 0..m /\ n \in 0..m
        OBVIOUS
      <3>2. values(n - 1) \in [1..(n - 1) -> Int] /\ values(n) \in [1..((n - 1) + 1) -> Int]
        BY <1>2, <3>1
      <3>3. /\ \A j \in 1..(n - 1) : values(n)[j] = values(n - 1)[j]
            /\ values(n)[(n - 1) + 1] = NoteAt(q[n]).b
        BY <3>1
      <3> HIDE DEF values
      <3> QED
        BY <3>1, <3>2, <3>3, TotalAppended
    <2> HIDE DEF firsts, values
    <2> QED
      BY <1>4, <2>4, <2>5
  <1> HIDE DEF S
  <1>5. 0..m \subseteq S
    BY <1>3, <1>4, IntervalInduction
  <1>6. Range(q) = firsts(m)
    BY DEF Range
  <1>7. m \in S
    BY <1>5
  <1> QED
    BY <1>6, <1>7 DEF S

\* The notes of a transaction.
LEMMA NotesType ==
  ASSUME NEW notes \in Seq(Note)
  PROVE  /\ Len(notes) \in Nat /\ DOMAIN notes = 1..Len(notes)
         /\ \A j \in 1..Len(notes) :
              notes[j] \in Note /\ notes[j].b \in Nat /\ notes[j].own \in BOOLEAN
  <1>1. Len(notes) \in Nat /\ DOMAIN notes = 1..Len(notes)
    OBVIOUS
  <1>2. ASSUME NEW j \in 1..Len(notes) PROVE notes[j] \in Note
    OBVIOUS
  <1>3. \A n \in Note : n.b \in Nat /\ n.own \in BOOLEAN
    BY DEF Note
  <1> QED
    BY <1>1, <1>2, <1>3

\* The parts of what it pays are integers.
LEMMA PartType ==
  ASSUME NEW notes \in Seq(Note), NEW own \in BOOLEAN
  PROVE  /\ [j \in DOMAIN notes |-> IF notes[j].own = own THEN notes[j].b ELSE 0]
              \in [1..Len(notes) -> Int]
         /\ Part(notes, own) \in Int
  <1>1. Len(notes) \in Nat /\ DOMAIN notes = 1..Len(notes) /\ \A j \in 1..Len(notes) : notes[j].b \in Int
    BY NotesType
  <1>2. [j \in DOMAIN notes |-> IF notes[j].own = own THEN notes[j].b ELSE 0]
          \in [1..Len(notes) -> Int]
    BY <1>1
  <1> QED
    BY <1>1, <1>2, TotalType DEF Part

\* The same for the two parts.
LEMMA PartsType ==
  ASSUME NEW notes \in Seq(Note)
  PROVE  ToWallet(notes) \in Int /\ ToOthers(notes) \in Int
  <1>1. Part(notes, TRUE) \in Int
    BY PartType
  <1>2. Part(notes, FALSE) \in Int
    BY PartType
  <1> QED
    BY <1>1, <1>2 DEF ToWallet, ToOthers

\* A note is for the wallet or for others, and none is both.
LEMMA PartsAreAll ==
  ASSUME NEW notes \in Seq(Note)
  PROVE  Total([j \in DOMAIN notes |-> notes[j].b]) = ToWallet(notes) + ToOthers(notes)
  <1> DEFINE N == Len(notes)
             part(own) == [j \in DOMAIN notes |-> IF notes[j].own = own THEN notes[j].b ELSE 0]
             all == [j \in DOMAIN notes |-> notes[j].b]
  <1>1. N \in Nat /\ DOMAIN notes = 1..N /\ \A j \in 1..N : notes[j].b \in Nat /\ notes[j].own \in BOOLEAN
    BY NotesType
  <1>2. part(TRUE) \in [1..N -> Int] /\ part(FALSE) \in [1..N -> Int] /\ all \in [1..N -> Int]
    BY <1>1, PartType
  <1>3. \A j \in 1..N : all[j] = part(TRUE)[j] + part(FALSE)[j]
    BY <1>1
  <1>4. ToWallet(notes) = Total(part(TRUE)) /\ ToOthers(notes) = Total(part(FALSE))
    BY DEF Part, ToWallet, ToOthers
  <1>5. Total(all) = Total(part(TRUE)) + Total(part(FALSE))
    <2> HIDE DEF part, all, N
    <2> QED
      BY <1>1, <1>2, <1>3, TotalOfSums
  <1> QED
    BY <1>4, <1>5

\* The notes that State finds in a group are worth what the transaction gives to
\* the wallet.
LEMMA ValueOfGroup ==
  ASSUME LedgerInv, NEW k \in 1..Len(ledger)
  PROVE  ValueOf(Notes({k})) = ToWallet(ledger[k].notes)
  <1> DEFINE notes == ledger[k].notes
             m == Len(notes)
             firsts(n) == {Position(k) + j : j \in {l \in 1..n : notes[l].own}}
             values(n) == [j \in 1..n |-> IF notes[j].own = TRUE THEN notes[j].b ELSE 0]
             S == {n \in 0..m : ValueOf(firsts(n)) = Total(values(n))}
  <1>1. notes \in Seq(Note) /\ m \in 0..Out /\ DOMAIN notes = 1..m /\ m \in Nat
    BY EntryType, SizeType
  <1>2. \A j \in 1..m : notes[j] \in Note /\ notes[j].b \in Nat /\ notes[j].own \in BOOLEAN
    BY <1>1, NotesType
  <1>3. k \in Nat \ {0} /\ Position(k) \in Nat
    <2>1. Len(ledger) \in Nat
      BY DEF LedgerInv
    <2>2. k \in Nat \ {0}
      BY <2>1
    <2> QED
      BY <2>2, PositionType
  <1>4. ASSUME NEW j \in 1..m, notes[j].own
        PROVE  Position(k) + j \in AllNotes /\ NoteAt(Position(k) + j) = notes[j]
    <2>1. j \in 0..Out
      BY <1>1, SizeType
    <2>2. Position(k) + j \in Notes({k})
      BY <1>1, <1>4 DEF Notes
    <2>3. {k} \in SUBSET (1..Len(ledger))
      OBVIOUS
    <2>4. Position(k) + j \in AllNotes
      BY <2>2, <2>3, AllNotesType
    <2>5. GroupOf(Position(k) + j) = k /\ (Position(k) + j) % GroupSize = j
      BY <1>3, <2>1, GroupOfPosition
    <2> QED
      BY <2>4, <2>5 DEF NoteAt
  <1> HIDE DEF m
  <1>5. \A n \in 0..m : values(n) \in [1..n -> Int]
    BY <1>1, <1>2
  <1> HIDE DEF notes
  <1>6. 0 \in S
    <2>1. firsts(0) = {}
      OBVIOUS
    <2>2. 0 \in 0..m
      BY <1>1
    <2>3. values(0) \in [1..0 -> Int]
      BY <1>5, <2>2
    <2> HIDE DEF firsts, values
    <2>4. ValueOf(firsts(0)) = 0 /\ Total(values(0)) = 0
      BY <2>1, <2>3, ValueEmpty, TotalEmpty
    <2> QED
      BY <2>2, <2>4
  <1>7. ASSUME NEW n \in 1..m, n - 1 \in S PROVE n \in S
    <2>0. n - 1 \in Nat /\ (n - 1) + 1 = n /\ n - 1 \in 0..m /\ n \in 0..m
      BY <1>1
    <2>1. firsts(n) = firsts(n - 1) \cup (IF notes[n].own THEN {Position(k) + n} ELSE {})
      <3>1. \A j \in 1..n : j \in 1..(n - 1) \/ j = n
        BY <1>1
      <3>2. \A j \in 1..(n - 1) : j \in 1..n
        BY <1>1
      <3>3. n \in 1..n
        BY <1>1
      <3> QED
        BY <3>1, <3>2, <3>3
    <2>2. firsts(n - 1) \in SUBSET AllNotes
      <3>1. \A j \in 1..(n - 1) : j \in 1..m
        BY <1>1
      <3> QED
        BY <1>4, <3>1
    <2>3. Total(values(n)) = Total(values(n - 1)) + (IF notes[n].own THEN notes[n].b ELSE 0)
      <3>2. values(n - 1) \in [1..(n - 1) -> Int] /\ values(n) \in [1..((n - 1) + 1) -> Int]
        BY <1>5, <2>0
      <3>3. /\ \A j \in 1..(n - 1) : values(n)[j] = values(n - 1)[j]
            /\ values(n)[(n - 1) + 1] = IF notes[n].own THEN notes[n].b ELSE 0
        BY <1>1, <1>2, <2>0
      <3> HIDE DEF values
      <3> QED
        BY <2>0, <3>2, <3>3, TotalAppended
    <2>4. ValueOf(firsts(n)) = ValueOf(firsts(n - 1)) + (IF notes[n].own THEN notes[n].b ELSE 0)
      <3>1. CASE notes[n].own
        <4>1. Position(k) + n \in AllNotes /\ NoteAt(Position(k) + n) = notes[n]
          BY <1>4, <3>1
        <4>2. firsts(n - 1) \cap {Position(k) + n} = {}
          <5>1. \A j \in 1..(n - 1) : Position(k) + j # Position(k) + n
            BY <1>1, <1>3
          <5> QED
            BY <5>1
        <4>3. firsts(n) = firsts(n - 1) \cup {Position(k) + n}
          BY <2>1, <3>1
        <4>4. {Position(k) + n} \in SUBSET AllNotes
          BY <4>1
        <4> HIDE DEF firsts
        <4>5. ValueOf(firsts(n)) = ValueOf(firsts(n - 1)) + ValueOf({Position(k) + n})
          BY <2>2, <4>2, <4>3, <4>4, ValueUnion
        <4>6. ValueOf({Position(k) + n}) = notes[n].b
          BY <4>1, ValueSingle
        <4> QED
          BY <3>1, <4>5, <4>6
      <3>2. CASE ~notes[n].own
        <4>1. firsts(n) = firsts(n - 1)
          BY <2>1, <3>2
        <4> HIDE DEF firsts
        <4>2. ValueOf(firsts(n - 1)) \in Int
          BY <2>2, NoteValuesType
        <4> QED
          BY <3>2, <4>1, <4>2
      <3> QED
        BY <3>1, <3>2
    <2> HIDE DEF firsts, values
    <2> QED
      BY <1>7, <2>0, <2>3, <2>4
  <1> HIDE DEF S
  <1>8. 0..m \subseteq S
    BY <1>1, <1>6, <1>7, IntervalInduction
  <1>9. m \in S
    BY <1>1, <1>8
  <1>10. Notes({k}) = firsts(m)
    BY <1>1 DEF Notes, notes
  <1>11. ToWallet(notes) = Total(values(m))
    BY <1>1 DEF Part, ToWallet
  <1> QED
    BY <1>9, <1>10, <1>11 DEF S, notes

-----------------------------------------------------------------------------
(***************************************************************************)
(* What create_tx reads.  The state and the fragment are a prefix of the   *)
(* ledger when there is no gap between them; a fragment may overlap the    *)
(* state, and its notes are then listed twice.                             *)
(***************************************************************************)

\* A fragment is a row of groups.
LEMMA FragmentType ==
  ASSUME LedgerInv, NEW f \in Fragments
  PROVE  /\ f \in SUBSET (1..Len(ledger)) /\ Len(ledger) \in Nat
         /\ \E from \in Nat, v \in 0..Len(ledger) : f = (from + 1)..v
  <1>0. Len(ledger) \in Nat
    BY DEF LedgerInv
  <1>1. CASE f = {}
    <2>1. f = (0 + 1)..0 /\ 0 \in Nat /\ 0 \in 0..Len(ledger)
      BY <1>0, <1>1
    <2> QED
      BY <1>0, <1>1, <2>1
  <1>2. CASE f # {}
    <2>1. PICK from \in 0..Len(ledger), v \in 0..Len(ledger) : f = (from + 1)..v
      BY <1>2 DEF Fragments, Fragment
    <2>2. from \in Nat /\ v \in Nat
      BY <1>0, <2>1
    <2> QED
      BY <1>0, <2>1, <2>2
  <1> QED
    BY <1>1, <1>2

\* Its last group, and the last one of a part of it.
LEMMA FragmentMax ==
  ASSUME LedgerInv, NEW f \in Fragments, NEW g \in SUBSET f, g # {}
  PROVE  Max(g) \in g /\ Max(g) \in 1..Len(ledger) /\ \A k \in g : k <= Max(g)
  <1>1. g \in SUBSET Nat /\ g \in SUBSET (1..Len(ledger)) /\ Len(ledger) \in Nat
    BY FragmentType
  <1>2. \A k \in g : k <= Len(ledger)
    BY <1>1
  <1>3. Max(g) \in g /\ \A k \in g : k <= Max(g)
    BY <1>1, <1>2, MaxIsGreatest
  <1> QED
    BY <1>1, <1>3

\* When the root is that of a ledger, state and fragment together are its prefix.
LEMMA RootViewIsRow ==
  ASSUME LedgerInv, NEW s \in 0..Len(ledger), NEW f \in Fragments, root_view(s, f) # None
  PROVE  LET v == root_view(s, f)
         IN  v \in 0..Len(ledger) /\ s <= v /\ (1..s) \cup f = 1..v
  <1> DEFINE v == root_view(s, f)
             G == {s} \cup f
  <1>1. f \in SUBSET (1..Len(ledger)) /\ Len(ledger) \in Nat
    BY FragmentType
  <1>2. PICK from \in Nat, to \in 0..Len(ledger) : f = (from + 1)..to
    BY FragmentType
  <1>3. G \in SUBSET Nat /\ G # {} /\ \A k \in G : k <= Len(ledger)
    BY <1>1
  <1>4. v = Max(G)
    BY DEF root_view
  <1> HIDE DEF G, v
  <1>5. v \in G /\ \A k \in G : k <= v
    BY <1>1, <1>3, <1>4, MaxIsGreatest
  <1>6. v \in Nat /\ s \in Nat /\ v \in 0..Len(ledger) /\ s <= v /\ (v = s \/ v \in f)
        /\ \A k \in f : k <= v
    BY <1>1, <1>3, <1>5 DEF G
  <1>7. CASE f = {}
    <2>1. v = s
      BY <1>6, <1>7
    <2> QED
      BY <1>6, <1>7, <2>1 DEF v
  <1>8. CASE f # {}
    <2>1. from + 1 \in f /\ to \in Nat /\ from + 1 <= to /\ to \in f
      BY <1>1, <1>2, <1>8
    <2>2. Min(f) \in f /\ Min(f) <= from + 1
      <3>1. f \in SUBSET Nat
        BY <1>1
      <3> QED
        BY <1>8, <2>1, <3>1, MinIsLeast
    <2>3. Min(f) = from + 1
      BY <1>2, <2>1, <2>2
    <2>4. from <= s
      BY <1>6, <1>8, <2>3 DEF root_view
    <2>5. v = IF s <= to THEN to ELSE s
      BY <1>2, <1>6, <2>1, <2>4
    <2>6. \A k \in Nat : k \in (1..s) \cup f <=> k \in 1..v
      BY <1>2, <1>6, <2>1, <2>4, <2>5
    <2>8. (1..s) \cup f \subseteq Nat /\ 1..v \subseteq Nat
      BY <1>1
    <2>7. (1..s) \cup f = 1..v
      BY <2>6, <2>8
    <2> QED
      BY <1>6, <2>7 DEF v
  <1> QED
    BY <1>7, <1>8

\* A note of the fragment is one of the state too, or lies behind all of them.
LEMMA NotesOfStateAndFragment ==
  ASSUME LedgerInv, NEW s \in 0..Len(ledger), NEW f \in Fragments
  PROVE  /\ Notes(1..s) \in SUBSET Nat /\ IsFiniteSet(Notes(1..s))
         /\ Notes(f) \in SUBSET Nat /\ IsFiniteSet(Notes(f))
         /\ Notes(1..s) \cup Notes(f) = Notes((1..s) \cup f)
         /\ \A n \in Notes(f) : n \in Notes(1..s) \/ \A k \in Notes(1..s) : k < n
         /\ \A n \in Notes((1..s) \cup f) : 0 < n /\ n < Position(Len(ledger) + 1)
         /\ Position(Len(ledger) + 1) \in Nat
  <1>1. f \in SUBSET (1..Len(ledger)) /\ Len(ledger) \in Nat /\ Len(ledger) \in 0..Len(ledger)
    BY FragmentType
  <1> DEFINE all == (1..s) \cup f
  <1>2. 1..s \in SUBSET (1..s) /\ 1..s \in SUBSET (1..Len(ledger)) /\ all \in SUBSET (1..Len(ledger))
    BY <1>1
  <1>3. /\ Notes(1..s) \in SUBSET Nat /\ IsFiniteSet(Notes(1..s))
        /\ Notes(f) \in SUBSET Nat /\ IsFiniteSet(Notes(f))
    BY <1>1, <1>2, NotesBounded
  <1>4. Notes(1..s) \cup Notes(f) = Notes(all)
    BY NotesUnion
  <1>5. ASSUME NEW n \in Notes(f), n \notin Notes(1..s), NEW k \in Notes(1..s)
        PROVE  k < n
    <2>0. GroupOf(n) \in f /\ GroupOf(k) \in 1..s
      BY <1>1, <1>2, NotesWhere
    <2>a. GroupOf(n) \in 1..Len(ledger)
      BY <1>1, <2>0
    <2>1. GroupOf(n) \in Nat /\ GroupOf(n) >= 1 /\ GroupOf(k) \in Nat /\ GroupOf(k) <= s /\ s \in Nat
      BY <1>1, <2>0, <2>a
    <2>2. GroupOf(n) \notin 1..s
      BY <1>1, <1>5, NotesIn
    <2>3. GroupOf(k) < GroupOf(n)
      BY <1>1, <2>1, <2>2
    <2>4. k \in Notes(all) /\ n \in Notes(all)
      BY <1>4
    <2> QED
      BY <1>2, <2>3, <2>4, NotesOrdered
  <1>6. /\ \A n \in Notes(all) : 0 < n /\ n < Position(Len(ledger) + 1)
        /\ Position(Len(ledger) + 1) \in Nat
    BY <1>1, <1>2, NotesBounded
  <1> QED
    BY <1>3, <1>4, <1>5, <1>6

\* latest_note_index of the state: the last note, or 0 (state.rs).
LEMMA LatestNote ==
  ASSUME LedgerInv, NEW s \in 0..Len(ledger)
  PROVE  /\ latest_note_index(s) \in Nat
         /\ \A n \in Notes(1..s) : n <= latest_note_index(s)
         /\ Notes(1..s) # {} => latest_note_index(s) \in Notes(1..s)
         /\ Notes(1..s) = {} => latest_note_index(s) = 0
  <1>1. /\ Notes(1..s) \in SUBSET Nat /\ Position(s + 1) \in Nat
        /\ \A n \in Notes(1..s) : n <= Position(s + 1)
    <2>1. 1..s \in SUBSET (1..s)
      OBVIOUS
    <2>2. /\ Notes(1..s) \in SUBSET Nat /\ Position(s + 1) \in Nat
          /\ \A n \in Notes(1..s) : n < Position(s + 1)
      BY <2>1, NotesBounded
    <2> QED
      BY <2>2
  <1>2. CASE Notes(1..s) = {}
    BY <1>2 DEF latest_note_index
  <1>3. CASE Notes(1..s) # {}
    <2>1. latest_note_index(s) = Max(Notes(1..s))
      BY <1>3 DEF latest_note_index
    <2>2. Max(Notes(1..s)) \in Notes(1..s) /\ \A n \in Notes(1..s) : n <= Max(Notes(1..s))
      BY <1>1, <1>3, MaxIsGreatest
    <2> QED
      BY <1>1, <1>3, <2>1, <2>2
  <1> QED
    BY <1>2, <1>3

\* The same with a fragment, of which it is the last note if it has one
\* (client/mod.rs:325-425).
LEMMA LatestNoteOptimistic ==
  ASSUME LedgerInv, NEW s \in 0..Len(ledger), NEW f \in Fragments
  PROVE  /\ latest_note_index_optimistic(s, f) \in Nat
         /\ \A n \in Notes(f) : n <= latest_note_index_optimistic(s, f)
         /\ Notes(f) = {} => latest_note_index_optimistic(s, f) = latest_note_index(s)
         /\ \/ latest_note_index_optimistic(s, f) = 0
            \/ latest_note_index_optimistic(s, f) \in Notes(1..s) \cup Notes(f)
  <1>1. /\ Notes(f) \in SUBSET Nat
        /\ Position(Len(ledger) + 1) \in Nat
        /\ \A n \in Notes(f) : n <= Position(Len(ledger) + 1)
    <2>1. /\ Notes(f) \in SUBSET Nat /\ Notes(f) \subseteq Notes((1..s) \cup f)
          /\ Position(Len(ledger) + 1) \in Nat
          /\ \A n \in Notes((1..s) \cup f) : n < Position(Len(ledger) + 1)
      BY NotesOfStateAndFragment
    <2>2. ASSUME NEW n \in Notes(f) PROVE n <= Position(Len(ledger) + 1)
      <3>1. n \in Nat /\ n < Position(Len(ledger) + 1)
        BY <2>1
      <3> QED
        BY <2>1, <3>1
    <2> QED
      BY <2>1, <2>2
  <1>2. CASE Notes(f) = {}
    BY <1>2, LatestNote DEF latest_note_index_optimistic
  <1>3. CASE Notes(f) # {}
    <2>1. latest_note_index_optimistic(s, f) = Max(Notes(f))
      BY <1>3 DEF latest_note_index_optimistic
    <2>2. Max(Notes(f)) \in Notes(f) /\ \A n \in Notes(f) : n <= Max(Notes(f))
      BY <1>1, <1>3, MaxIsGreatest
    <2> QED
      BY <1>1, <1>3, <2>1, <2>2
  <1> QED
    BY <1>2, <1>3

\* The head of a sequence with a first element.
LEMMA OneAndOthers ==
  ASSUME NEW x \in Nat, NEW q \in Seq(Nat)
  PROVE  /\ <<x>> \o q # <<>> /\ Head(<<x>> \o q) = x
         /\ <<>> \o <<x>> = <<x>> /\ <<x>> # <<>> /\ Head(<<x>>) = x
  OBVIOUS

\* earliest_usable_index_optimistic leaves out no note that is not spent.
LEMMA EarliestUsable ==
  ASSUME LedgerInv, NEW s \in 0..Len(ledger), NEW f \in Fragments, in_account(s, f).i \in Nat
  PROVE  LET i == in_account(s, f).i
             e == earliest_usable_index_optimistic(s, f)
         IN  /\ e \in Nat /\ i <= e
             /\ \A n \in Notes(1..s) \cup Notes(f) : i <= n => e <= n
  <1> DEFINE A == Notes(1..s)
             F == Notes(f)
             i == in_account(s, f).i
             latest == latest_note_index_optimistic(s, f)
             usable(notes) == {n \in notes : i <= n /\ n <= latest}
             UA == usable(A)
             UF == usable(F)
             e == earliest_usable_index_optimistic(s, f)
             first == Take(1, UA) \o Take(1, UF)
  <1>1. /\ A \in SUBSET Nat /\ IsFiniteSet(A) /\ F \in SUBSET Nat /\ IsFiniteSet(F)
        /\ \A n \in F : n \in A \/ \A k \in A : k < n
    BY NotesOfStateAndFragment
  <1>2. latest \in Nat /\ (\A n \in F : n <= latest) /\ (F = {} => \A n \in A : n <= latest)
    BY LatestNoteOptimistic, LatestNote
  <1>3. e = IF first = <<>> THEN i ELSE Head(first)
    BY DEF earliest_usable_index_optimistic
  <1>4. UA \in SUBSET Nat /\ IsFiniteSet(UA) /\ UF \in SUBSET Nat /\ IsFiniteSet(UF)
    BY <1>1, FS_Subset
  <1>5. /\ UA = {} => Take(1, UA) = <<>>
        /\ UA # {} => Take(1, UA) = <<Min(UA)>> /\ Min(UA) \in UA /\ \A n \in UA : Min(UA) <= n
        /\ UF = {} => Take(1, UF) = <<>>
        /\ UF # {} => Take(1, UF) = <<Min(UF)>> /\ Min(UF) \in UF /\ \A n \in UF : Min(UF) <= n
    BY <1>4, TakeOne, MinIsLeast
  <1>6. /\ \A n \in A : n \in UA <=> i <= n /\ n <= latest
        /\ \A n \in F : n \in UF <=> i <= n
        /\ \A n \in A \cup F : n \in Nat
        /\ UA \subseteq A /\ UF \subseteq F
    BY <1>1, <1>2
  <1>7. i \in Nat /\ \A n \in UA \cup UF : i <= n
    OBVIOUS
  <1>8. CASE UA # {}
    <2>1. Take(1, UF) \in Seq(Nat)
      <3>0. \A x \in Nat : <<x>> \in Seq(Nat)
        OBVIOUS
      <3>3. <<>> \in Seq(Nat)
        OBVIOUS
      <3>1. CASE UF = {}
        BY <1>5, <3>1, <3>3, Zenon
      <3>2. CASE UF # {}
        <4>1. Min(UF) \in Nat
          BY <1>4, <1>5, <3>2
        <4> QED
          BY <1>5, <3>0, <3>2, <4>1, Zenon
      <3> QED
        BY <3>1, <3>2
    <2>2. first # <<>> /\ Head(first) = Min(UA)
      <3>1. Min(UA) \in Nat
        BY <1>4, <1>5, <1>8
      <3>2. first = <<Min(UA)>> \o Take(1, UF)
        BY <1>5, <1>8
      <3> HIDE DEF first, UF, UA
      <3> QED
        BY <2>1, <3>1, <3>2, OneAndOthers
    <2>3. e = Min(UA)
      BY <1>3, <2>2
    <2> HIDE DEF UA, UF, A, F, i, e, first
    <2>4. Min(UA) \in A /\ Min(UA) \in Nat /\ i <= Min(UA)
      BY <1>5, <1>6, <1>7, <1>8
    <2>5. ASSUME NEW n \in A, i <= n PROVE Min(UA) <= n
      <3>1. CASE n <= latest
        BY <1>5, <1>6, <1>8, <2>5, <3>1
      <3>2. CASE ~(n <= latest)
        <4>1. Min(UA) <= latest
          BY <1>5, <1>6, <1>8, <2>4
        <4> QED
          BY <1>2, <1>6, <2>4, <3>2, <4>1
      <3> QED
        BY <3>1, <3>2
    <2>6. ASSUME NEW n \in F, i <= n PROVE Min(UA) <= n
      <3>1. CASE n \in A
        BY <2>5, <2>6, <3>1
      <3>2. CASE n \notin A
        BY <1>1, <1>6, <2>4, <3>2
      <3> QED
        BY <3>1, <3>2
    <2> QED
      BY <2>3, <2>4, <2>5, <2>6 DEF A, F, i, e
  <1>9. CASE UA = {} /\ UF # {}
    <2>1. first # <<>> /\ Head(first) = Min(UF)
      <3>1. Min(UF) \in Nat
        BY <1>4, <1>5, <1>9
      <3>2. first = <<>> \o <<Min(UF)>>
        BY <1>5, <1>9
      <3> HIDE DEF first, UF, UA
      <3> QED
        BY <3>1, <3>2, OneAndOthers
    <2>2. e = Min(UF)
      BY <1>3, <2>1
    <2> HIDE DEF UA, UF, A, F, i, e, first
    <2>3. Min(UF) \in F /\ Min(UF) \in Nat /\ i <= Min(UF) /\ Min(UF) <= latest
      BY <1>2, <1>5, <1>6, <1>7, <1>9
    <2>4. ASSUME NEW n \in F, i <= n PROVE Min(UF) <= n
      BY <1>5, <1>6, <1>9, <2>4
    <2>5. ASSUME NEW n \in A, i <= n PROVE Min(UF) <= n
      <3>1. ~(n <= latest)
        BY <1>6, <1>9, <2>5
      <3> QED
        BY <1>2, <1>6, <2>3, <3>1
    <2> QED
      BY <2>2, <2>3, <2>4, <2>5 DEF A, F, i, e
  <1>10. CASE UA = {} /\ UF = {}
    <2>1. first = <<>>
      BY <1>5, <1>10
    <2>2. e = i
      BY <1>3, <2>1
    <2> QED
      BY <1>7, <2>2
  <1> QED
    BY <1>8, <1>9, <1>10

\* latest_account_index and latest_account of the state.
LEMMA LatestAccount ==
  ASSUME LedgerInv, NEW s \in 0..Len(ledger)
  PROVE  /\ Accounts(1..s) = {} =>
              latest_account_index(s) = None /\ latest_account(s) = initial_account
         /\ Accounts(1..s) # {} =>
              /\ latest_account_index(s) \in Accounts(1..s)
              /\ \A a \in Accounts(1..s) : a <= latest_account_index(s)
              /\ latest_account_index(s) # None
              /\ latest_account(s) = AccountAt(latest_account_index(s))
         /\ latest_account_index(s) \in Nat \cup {None}
         /\ latest_account(s) \in Account
         /\ initial_account \in Account
  <1>0. initial_account \in Account
    BY DEF initial_account, Account
  <1>1. CASE Accounts(1..s) = {}
    BY <1>0, <1>1 DEF latest_account_index, latest_account
  <1>2. CASE Accounts(1..s) # {}
    <2>1. 1..s \in SUBSET (1..s) /\ 1..s \in SUBSET (1..Len(ledger))
      BY DEF LedgerInv
    <2>2. /\ Accounts(1..s) \in SUBSET Nat /\ Position(s + 1) \in Nat
          /\ \A a \in Accounts(1..s) : a < Position(s + 1)
      BY <2>1, AccountsBounded
    <2>3. \A a \in Accounts(1..s) : a <= Position(s + 1)
      BY <2>2
    <2>4. latest_account_index(s) = Max(Accounts(1..s))
      BY <1>2 DEF latest_account_index
    <2>5. /\ Max(Accounts(1..s)) \in Accounts(1..s)
          /\ \A a \in Accounts(1..s) : a <= Max(Accounts(1..s))
      BY <1>2, <2>2, <2>3, MaxIsGreatest
    <2>6. latest_account(s) = AccountAt(latest_account_index(s))
      BY <1>2 DEF latest_account
    <2>7. AccountAt(latest_account_index(s)) \in Account
      BY <2>1, <2>4, <2>5, AccountsWhere
    <2>8. latest_account_index(s) \in Nat /\ latest_account_index(s) # None
      BY <2>2, <2>4, <2>5, NoneAssumption
    <2> QED
      BY <1>0, <1>2, <2>4, <2>5, <2>6, <2>7, <2>8
  <1> QED
    BY <1>1, <1>2

\* The account that create_tx takes: the last one of the fragment, else of the
\* state.
LEMMA InAccount ==
  ASSUME LedgerInv, NEW s \in 0..Len(ledger), NEW f \in Fragments
  PROVE  /\ Accounts(f) # {} =>
              /\ in_account_index(s, f) \in Accounts(f)
              /\ \A a \in Accounts(f) : a <= in_account_index(s, f)
              /\ in_account_index(s, f) # None
         /\ Accounts(f) = {} => in_account_index(s, f) = latest_account_index(s)
         /\ in_account_index(s, f) \in Nat \cup {None}
         /\ in_account(s, f) = IF in_account_index(s, f) = None THEN initial_account
                               ELSE AccountAt(in_account_index(s, f))
         /\ in_account(s, f) \in Account
  <1>0. in_account(s, f) = IF in_account_index(s, f) = None THEN initial_account
                           ELSE AccountAt(in_account_index(s, f))
    BY DEF in_account
  <1>1. CASE Accounts(f) = {}
    <2>1. in_account_index(s, f) = latest_account_index(s)
      BY <1>1 DEF in_account_index
    <2>2. in_account(s, f) \in Account
      BY <1>0, <2>1, LatestAccount
    <2> QED
      BY <1>0, <1>1, <2>1, <2>2, LatestAccount
  <1>2. CASE Accounts(f) # {}
    <2>1. f \in SUBSET (1..Len(ledger)) /\ Len(ledger) \in 0..Len(ledger)
      BY FragmentType
    <2>2. /\ Accounts(f) \in SUBSET Nat /\ Position(Len(ledger) + 1) \in Nat
          /\ \A a \in Accounts(f) : a < Position(Len(ledger) + 1)
      BY <2>1, AccountsBounded
    <2>3. \A a \in Accounts(f) : a <= Position(Len(ledger) + 1)
      BY <2>2
    <2>4. in_account_index(s, f) = Max(Accounts(f))
      BY <1>2 DEF in_account_index
    <2>5. Max(Accounts(f)) \in Accounts(f) /\ \A a \in Accounts(f) : a <= Max(Accounts(f))
      BY <1>2, <2>2, <2>3, MaxIsGreatest
    <2>6. AccountAt(in_account_index(s, f)) \in Account
      BY <2>1, <2>4, <2>5, AccountsWhere
    <2>7. in_account_index(s, f) \in Nat /\ in_account_index(s, f) # None
      BY <2>2, <2>4, <2>5, NoneAssumption
    <2> QED
      BY <1>0, <1>2, <2>4, <2>5, <2>6, <2>7
  <1> QED
    BY <1>1, <1>2

\* The delta_index that create_tx computes from leaves and commitments is the
\* next index behind the last group it knows.
LEMMA FallbackIndex ==
  ASSUME LedgerInv, NEW s \in 0..Len(ledger), NEW f \in Fragments
  PROVE  /\ fallback_delta_index(s, f) =
              IF f = {} THEN Position(s + 1) ELSE Position(Max(f) + 1)
         /\ fallback_delta_index(s, f) \in Nat
  <1> DEFINE leafs == {k \in f : HasLeaves(k)}
             commitments == f \ leafs
             byLeaf(k) == ((Position(k) + Len(ledger[k].notes)) \div GroupSize + 1) * GroupSize
             byCommitment(k) == (Position(k) \div GroupSize + 1) * GroupSize
             next == (IF leafs = {} THEN {} ELSE {byLeaf(Max(leafs))})
                     \cup (IF commitments = {} THEN {} ELSE {byCommitment(Max(commitments))})
  <1>1. fallback_delta_index(s, f) = IF next = {} THEN s * GroupSize ELSE Max(next)
    BY DEF fallback_delta_index
  <1>2. f \in SUBSET (1..Len(ledger)) /\ Len(ledger) \in Nat
    BY FragmentType
  <1>7. f \in SUBSET Nat
    BY <1>2
  <1>3. leafs \in SUBSET f /\ commitments \in SUBSET f /\ leafs \cup commitments = f
    OBVIOUS
  <1>4. ASSUME NEW k \in f
        PROVE  byLeaf(k) = Position(k + 1) /\ byCommitment(k) = Position(k + 1)
    <2>1. k \in Nat \ {0} /\ k \in 1..Len(ledger)
      BY <1>2
    <2>2. Len(ledger[k].notes) \in 0..Out /\ 0 \in 0..Out
      BY <2>1, EntryType, SizeType
    <2>3. byLeaf(k) = Position(k + 1)
      BY <2>1, <2>2, NextOfGroup
    <2>4. ((Position(k) + 0) \div GroupSize + 1) * GroupSize = Position(k + 1)
      BY <2>1, <2>2, NextOfGroup
    <2>5. Position(k) + 0 = Position(k)
      BY <2>1, PositionType
    <2> QED
      BY <2>3, <2>4, <2>5
  <1> HIDE DEF leafs, commitments, byLeaf, byCommitment
  <1>5. CASE f = {}
    <2>1. next = {}
      BY <1>3, <1>5
    <2>2. s \in Nat /\ s + 1 \in Nat \ {0} /\ (s + 1) - 1 = s
      BY <1>2
    <2>3. Position(s + 1) = s * GroupSize /\ Position(s + 1) \in Nat
      BY <2>2, PositionType DEF Position
    <2> QED
      BY <1>1, <1>5, <2>1, <2>3
  <1>6. CASE f # {}
    <2> DEFINE v == Max(f)
    <2>1. v \in f /\ v \in Nat \ {0} /\ \A k \in f : k <= v
      BY <1>2, <1>6, FragmentMax
    <2>2. ASSUME NEW k \in f
          PROVE  Position(k + 1) \in Nat /\ Position(k + 1) <= Position(v + 1)
      <3>1. k + 1 \in Nat \ {0} /\ v + 1 \in Nat \ {0} /\ k + 1 <= v + 1
        BY <1>2, <2>1
      <3> QED
        BY <3>1, PositionsGrow, PositionType
    <2> HIDE DEF v
    <2>3. leafs # {} => Max(leafs) \in f /\ \A k \in leafs : k <= Max(leafs)
      BY <1>3, FragmentMax
    <2>4. commitments # {} =>
            Max(commitments) \in f /\ \A k \in commitments : k <= Max(commitments)
      BY <1>3, FragmentMax
    <2>5. \A n \in next : \E k \in f : n = Position(k + 1)
      BY <1>4, <2>3, <2>4
    <2>6. Position(v + 1) \in next
      <3>1. CASE v \in leafs
        <4>1. Max(leafs) \in f /\ v <= Max(leafs)
          BY <2>3, <3>1
        <4>2. Max(leafs) \in Nat /\ Max(leafs) <= v
          BY <1>7, <2>1, <4>1, Zenon
        <4>3. Max(leafs) = v
          BY <2>1, <4>1, <4>2
        <4> QED
          BY <1>4, <2>1, <3>1, <4>3
      <3>2. CASE v \in commitments
        <4>1. Max(commitments) \in f /\ v <= Max(commitments)
          BY <2>4, <3>2
        <4>2. Max(commitments) \in Nat /\ Max(commitments) <= v
          BY <1>7, <2>1, <4>1, Zenon
        <4>3. Max(commitments) = v
          BY <2>1, <4>1, <4>2
        <4> QED
          BY <1>4, <2>1, <3>2, <4>3
      <3> QED
        BY <1>3, <2>1, <3>1, <3>2
    <2> HIDE DEF next
    <2>7. next \in SUBSET Nat /\ \A n \in next : n <= Position(v + 1)
      BY <2>2, <2>5
    <2>8. Max(next) = Position(v + 1)
      BY <2>6, <2>7, MaxIs
    <2> QED
      BY <1>1, <1>6, <2>1, <2>2, <2>6, <2>8 DEF v
  <1> QED
    BY <1>5, <1>6

\* The fields of what create_tx finds.
LEMMA InputsFields ==
  ASSUME NEW s, NEW f
  PROVE  /\ Inputs(s, f).account_index = in_account_index(s, f)
         /\ Inputs(s, f).notes = in_notes(s, f)
         /\ Inputs(s, f).i = spend_interval_index(s, f, in_notes(s, f))
         /\ Inputs(s, f).delta_index = fallback_delta_index(s, f)
         /\ Inputs(s, f).view = root_view(s, f)
         /\ Inputs(s, f).value =
              in_account(s, f).b
                + Total([j \in DOMAIN in_notes(s, f) |-> NoteAt(in_notes(s, f)[j]).b])
         /\ Inputs(s, f).energy =
              in_account(s, f).e
                + in_account(s, f).b *
                    (fallback_delta_index(s, f)
                       - (IF in_account_index(s, f) = None THEN 0 ELSE in_account_index(s, f)))
                + Total([j \in DOMAIN in_notes(s, f) |->
                           NoteAt(in_notes(s, f)[j]).b
                             * (fallback_delta_index(s, f) - in_notes(s, f)[j])])
  BY DEF Inputs

-----------------------------------------------------------------------------
(***************************************************************************)
(* What create_tx takes.  The notes it takes are all notes of the prefix   *)
(* between the index of the account and the new one, if none is listed     *)
(* twice.                                                                  *)
(***************************************************************************)

\* The form in which create_tx lists the notes it takes: the first In of the
\* usable notes of the state, then of the fragment.
Lowest(K, O) == SubSeq(Take(In, K) \o Take(In, O), 1, Min({In, Cardinality(K) + Cardinality(O)}))

\* Listed once each, they are all usable notes up to the last one.
LEMMA LowestNotes ==
  ASSUME NEW K \in SUBSET Nat, IsFiniteSet(K), NEW O \in SUBSET Nat, IsFiniteSet(O),
         \A n \in O : n \in K \/ \A k \in K : k < n,
         IsInjective(Lowest(K, O))
  PROVE  LET q == Lowest(K, O)
         IN  /\ q \in Seq(K \cup O) /\ Len(q) <= In
             /\ q = <<>> => K \cup O = {}
             /\ q # <<>> => Last(q) \in K \cup O /\ Range(q) = {n \in K \cup O : n <= Last(q)}
  <1> DEFINE ka == Cardinality(K)
             kb == Cardinality(O)
             ma == IF In <= ka THEN In ELSE ka
             mb == IF In <= kb THEN In ELSE kb
             a == Take(In, K)
             b == Take(In, O)
             m == Min({In, ka + kb})
             q == Lowest(K, O)
  <1>0. In \in Nat /\ In >= 1
    BY SizeAssumption
  <1>a. ka \in Nat /\ (ka = 0 <=> K = {})
    BY FS_CardinalityType, FS_EmptySet
  <1>b. kb \in Nat /\ (kb = 0 <=> O = {})
    BY FS_CardinalityType, FS_EmptySet
  <1>1. In \in Nat /\ In >= 1 /\ ka \in Nat /\ kb \in Nat
        /\ (ka = 0 <=> K = {}) /\ (kb = 0 <=> O = {})
    BY <1>0, <1>a, <1>b
  <1>2. /\ a \in [1..ma -> K]
        /\ \A j \in 1..ma, k \in 1..ma : j < k => a[j] < a[k]
        /\ \A k \in 1..ma : \A i \in K : i <= a[k] => \E j \in 1..ma : a[j] = i
        /\ ma = ka => \A i \in K : \E j \in 1..ma : a[j] = i
    BY <1>1, TakeType, TakeLowest
  <1>3. /\ b \in [1..mb -> O]
        /\ \A j \in 1..mb, k \in 1..mb : j < k => b[j] < b[k]
        /\ \A k \in 1..mb : \A i \in O : i <= b[k] => \E j \in 1..mb : b[j] = i
        /\ mb = kb => \A i \in O : \E j \in 1..mb : b[j] = i
    BY <1>1, TakeType, TakeLowest
  <1>4. m = IF In <= ka + kb THEN In ELSE ka + kb
    BY <1>1, MinOfTwo
  <1> DEFINE d == m - ma
  <1>5. q = SubSeq(a \o b, 1, m)
    BY DEF Lowest
  <1> HIDE DEF a, b, m, q, ka, kb
  <1>6. /\ ma \in Nat /\ mb \in Nat /\ m \in Nat /\ d \in Nat /\ d <= mb /\ m = ma + d
        /\ m <= In
        /\ d > 0 => ma = ka
        /\ m = 0 => ka = 0 /\ kb = 0
    BY <1>1, <1>4
  <1>7. a \in Seq(K \cup O) /\ b \in Seq(K \cup O) /\ Len(a) = ma /\ Len(b) = mb
    <2>1. a \in [1..ma -> K \cup O] /\ b \in [1..mb -> K \cup O]
      BY <1>2, <1>3
    <2>2. ma \in Nat /\ mb \in Nat
      BY <1>6
    <2> HIDE DEF ma, mb
    <2> QED
      BY <2>1, <2>2
  <1> HIDE DEF ma, mb, d
  <1>8. /\ a \o b \in Seq(K \cup O) /\ Len(a \o b) = ma + mb
        /\ \A i \in 1..(ma + mb) : (a \o b)[i] = IF i <= ma THEN a[i] ELSE b[i - ma]
    BY <1>6, <1>7
  <1>9. /\ q \in Seq(K \cup O) /\ Len(q) = m
        /\ \A i \in 1..m : q[i] = IF i <= ma THEN a[i] ELSE b[i - ma]
    <2>1. m <= ma + mb /\ m \in Nat
      BY <1>6
    <2> DEFINE c == a \o b
    <2>2. c \in Seq(K \cup O) /\ m <= Len(c)
      BY <1>8, <2>1
    <2>3. q = SubSeq(c, 1, m)
      BY <1>5
    <2> HIDE DEF c
    <2>4. q \in Seq(K \cup O) /\ Len(q) = m /\ \A i \in 1..m : q[i] = c[i]
      BY <2>1, <2>2, <2>3
    <2>5. \A i \in 1..m : i \in 1..(ma + mb)
      BY <1>6
    <2> QED
      BY <1>8, <2>4, <2>5 DEF c
  <1>10. DOMAIN q = 1..m /\ (q = <<>> <=> m = 0)
    BY <1>6, <1>9
  <1>11. q = <<>> => K \cup O = {}
    BY <1>1, <1>6, <1>10
  <1>12. \A n \in K \cup O : n \in Nat
    OBVIOUS
  <1>13. ASSUME q # <<>> PROVE Last(q) \in K \cup O /\ Range(q) = {n \in K \cup O : n <= Last(q)}
    <2>1. m >= 1 /\ Last(q) = q[m] /\ m \in 1..m
      BY <1>6, <1>9, <1>10, <1>13 DEF Last
    <2>2. Last(q) \in K \cup O
      BY <1>9, <2>1
    <2>3. Range(q) = {q[i] : i \in 1..m}
      BY <1>10 DEF Range
    <2>4. CASE d = 0
      <3>1. m = ma /\ Last(q) = a[m] /\ a[m] \in K
        BY <1>2, <1>6, <1>9, <2>1, <2>4
      <3>2. \A i \in 1..m : q[i] = a[i] /\ q[i] \in K
        BY <1>2, <1>9, <3>1
      <3>3. ASSUME NEW i \in 1..m PROVE q[i] \in K \cup O /\ q[i] <= Last(q)
        <4>1. a[i] \in Nat /\ a[m] \in Nat /\ (i < m => a[i] < a[m])
          BY <1>2, <2>1, <3>1, <3>2
        <4>2. a[i] <= a[m]
          BY <1>6, <4>1
        <4> QED
          BY <3>1, <3>2, <4>2
      <3>4. ASSUME NEW n \in K \cup O, n <= Last(q) PROVE \E i \in 1..m : q[i] = n
        <4>1. n \in K
          <5>1. n \in Nat /\ a[m] \in Nat
            BY <1>12, <3>1
          <5> QED
            BY <3>1, <3>4, <5>1
        <4>2. \E i \in 1..ma : a[i] = n
          BY <1>2, <2>1, <3>1, <3>4, <4>1
        <4> QED
          BY <3>1, <3>2, <4>2
      <3> QED
        BY <2>2, <2>3, <3>3, <3>4
    <2>5. CASE d # 0
      <3>1. d \in 1..mb /\ 1 \in 1..mb /\ ma = ka /\ m = ma + d
        BY <1>6, <2>5
      <3>2. \A i \in K : \E j \in 1..ma : a[j] = i
        BY <1>2, <3>1
      <3>3. \A j \in 1..ma : j \in 1..m /\ q[j] = a[j] /\ q[j] \in K
        BY <1>2, <1>6, <1>9, <3>1
      <3>4. \A j \in 1..d : ma + j \in 1..m /\ j \in 1..mb /\ q[ma + j] = b[j] /\ b[j] \in O
        <4> SUFFICES ASSUME NEW j \in 1..d
                     PROVE  ma + j \in 1..m /\ j \in 1..mb /\ q[ma + j] = b[j] /\ b[j] \in O
          OBVIOUS
        <4>1. ma + j \in 1..m /\ j \in 1..mb /\ ~(ma + j <= ma) /\ (ma + j) - ma = j
          BY <1>6, <3>1
        <4> QED
          BY <1>3, <1>9, <4>1
      <3>5. Last(q) = b[d]
        BY <2>1, <3>1, <3>4
      <3>6. b[1] \notin K
        <4> SUFFICES ASSUME b[1] \in K PROVE FALSE
          OBVIOUS
        <4>1. PICK j \in 1..ma : a[j] = b[1]
          BY <3>2
        <4>2. 1 \in 1..d
          BY <3>1
        <4>3. j \in DOMAIN q /\ ma + 1 \in DOMAIN q /\ q[j] = q[ma + 1] /\ j # ma + 1
          BY <1>6, <1>10, <3>3, <3>4, <4>1, <4>2
        <4>4. IsInjective(q)
          BY DEF q
        <4> QED
          BY <4>3, <4>4 DEF IsInjective
      <3>7. b[1] \in O /\ \A k \in K : k < b[1]
        BY <1>3, <3>1, <3>6
      <3>8. \A j \in 1..mb : b[j] \in Nat
        BY <1>3
      <3>9. \A j \in 1..d : b[1] <= b[j] /\ b[j] <= b[d]
        <4> SUFFICES ASSUME NEW j \in 1..d PROVE b[1] <= b[j] /\ b[j] <= b[d]
          OBVIOUS
        <4>1. j \in 1..mb /\ b[1] \in Nat /\ b[j] \in Nat /\ b[d] \in Nat
          BY <3>1, <3>4, <3>8
        <4>2. (1 < j => b[1] < b[j]) /\ (j < d => b[j] < b[d])
          BY <1>3, <3>1, <4>1
        <4>3. (j = 1 \/ 1 < j) /\ (j = d \/ j < d)
          BY <3>1
        <4> QED
          BY <4>1, <4>2, <4>3
      <3>10. ASSUME NEW i \in 1..m PROVE q[i] \in K \cup O /\ q[i] <= Last(q)
        <4>1. CASE i <= ma
          <5>1. q[i] \in K
            BY <1>6, <3>3, <4>1
          <5>3. 1 \in 1..d /\ d \in 1..mb
            BY <3>1
          <5>4. b[1] \in Nat /\ b[d] \in Nat /\ q[i] \in Nat
            BY <3>1, <3>8, <5>1
          <5>2. q[i] < b[1] /\ b[1] <= b[d] /\ q[i] \in Nat /\ b[1] \in Nat /\ b[d] \in Nat
            BY <3>7, <3>9, <5>1, <5>3, <5>4
          <5> QED
            BY <3>5, <5>1, <5>2
        <4>2. CASE i > ma
          <5>1. i - ma \in 1..d /\ ma + (i - ma) = i
            BY <1>6, <4>2
          <5>2. q[i] = b[i - ma] /\ b[i - ma] \in O /\ b[i - ma] <= b[d]
            BY <3>4, <3>9, <5>1
          <5> QED
            BY <3>5, <5>2
        <4> QED
          BY <1>6, <4>1, <4>2
      <3>11. ASSUME NEW n \in K \cup O, n <= Last(q) PROVE \E i \in 1..m : q[i] = n
        <4>1. CASE n \in K
          <5>1. PICK j \in 1..ma : a[j] = n
            BY <3>2, <4>1
          <5> QED
            BY <3>3, <5>1
        <4>2. CASE n \in O
          <5>1. PICK j \in 1..mb : b[j] = n
            BY <1>3, <3>1, <3>5, <3>11, <4>2
          <5>2. j <= d
            <6> SUFFICES ASSUME d < j PROVE FALSE
              BY <1>6
            <6>1. b[d] < b[j]
              BY <1>3, <3>1
            <6>2. b[d] \in Nat /\ b[j] \in Nat
              BY <3>1, <3>8
            <6> QED
              BY <3>5, <3>11, <5>1, <6>1, <6>2
          <5>3. j \in 1..d
            BY <1>6, <5>2
          <5> QED
            BY <3>4, <5>1, <5>3
        <4> QED
          BY <4>1, <4>2
      <3> QED
        BY <2>2, <2>3, <3>10, <3>11
    <2> QED
      BY <2>4, <2>5
  <1> QED
    BY <1>6, <1>9, <1>11, <1>13 DEF q

\* The notes that create_tx takes are all notes from the index of the account to
\* the last one it takes.
LEMMA InNotes ==
  ASSUME LedgerInv, NEW s \in 0..Len(ledger), NEW f \in Fragments,
         IsInjective(in_notes(s, f))
  PROVE  LET q == in_notes(s, f)
             all == Notes(1..s) \cup Notes(f)
             i == in_account(s, f).i
         IN  /\ q \in Seq(all) /\ Len(q) <= In
             /\ q = <<>> => \A n \in all : ~(i <= n)
             /\ q # <<>> =>
                  /\ Last(q) \in all /\ i <= Last(q)
                  /\ Range(q) = {n \in all : i <= n /\ n <= Last(q)}
  <1> DEFINE A == Notes(1..s)
             F == Notes(f)
             e == earliest_usable_index_optimistic(s, f)
             i == in_account(s, f).i
             latest == latest_note_index(s)
             K == {n \in A : e <= n /\ n <= latest}
             O == {n \in F : e <= n}
             q == in_notes(s, f)
  <1>1. /\ A \in SUBSET Nat /\ IsFiniteSet(A) /\ F \in SUBSET Nat /\ IsFiniteSet(F)
        /\ \A n \in F : n \in A \/ \A k \in A : k < n
    BY NotesOfStateAndFragment
  <1>2. i \in Nat
    BY InAccount DEF Account
  <1>3. e \in Nat /\ i <= e /\ \A n \in A \cup F : i <= n => e <= n
    BY <1>2, EarliestUsable
  <1>4. \A n \in A : n <= latest
    BY LatestNote
  <1>5. K \in SUBSET Nat /\ IsFiniteSet(K) /\ O \in SUBSET Nat /\ IsFiniteSet(O)
    BY <1>1, FS_Subset
  <1>6. q = Lowest(K, O)
    BY DEF in_notes, Lowest
  <1> HIDE DEF A, F, e, i, latest, q
  <1>7. \A n \in O : n \in K \/ \A k \in K : k < n
    BY <1>1, <1>4
  <1>8. \A n \in A \cup F : n \in Nat /\ (n \in K \cup O <=> i <= n)
    <2> SUFFICES ASSUME NEW n \in A \cup F PROVE n \in Nat /\ (n \in K \cup O <=> i <= n)
      OBVIOUS
    <2>1. n \in Nat
      BY <1>1
    <2>2. i <= n <=> e <= n
      BY <1>2, <1>3, <2>1
    <2> QED
      BY <1>4, <2>1, <2>2
  <1>9. K \cup O \subseteq A \cup F
    OBVIOUS
  <1>10. IsInjective(Lowest(K, O))
    BY <1>6 DEF q
  <1> HIDE DEF K, O
  <1>11. /\ q \in Seq(K \cup O) /\ Len(q) <= In
         /\ q = <<>> => K \cup O = {}
         /\ q # <<>> => Last(q) \in K \cup O /\ Range(q) = {n \in K \cup O : n <= Last(q)}
    BY <1>5, <1>6, <1>7, <1>10, LowestNotes
  <1>12. q \in Seq(A \cup F)
    BY <1>9, <1>11
  <1>13. q = <<>> => \A n \in A \cup F : ~(i <= n)
    BY <1>8, <1>11
  <1>14. q # <<>> =>
           /\ Last(q) \in A \cup F /\ i <= Last(q)
           /\ Range(q) = {n \in A \cup F : i <= n /\ n <= Last(q)}
    BY <1>8, <1>9, <1>11
  <1> QED
    BY <1>11, <1>12, <1>13, <1>14 DEF A, F, i, q

\* The new index is behind them and behind no other note, unless there is none to
\* take: then it is behind all notes (client/mod.rs:419-422).
LEMMA InputsTakeInterval ==
  ASSUME LedgerInv, NEW s \in 0..Len(ledger), NEW f \in Fragments,
         root_view(s, f) # None, IsInjective(in_notes(s, f))
  PROVE  LET q == in_notes(s, f)
             v == root_view(s, f)
             i == in_account(s, f).i
             new == spend_interval_index(s, f, q)
         IN  /\ Range(q) = {n \in Notes(1..v) : i <= n /\ n < new}
             /\ new \in Nat
             /\ new = 0 \/ \E n \in Notes(1..v) : new = n + 1
  <1> DEFINE q == in_notes(s, f)
             v == root_view(s, f)
             all == Notes(1..v)
             i == in_account(s, f).i
             latest == latest_note_index_optimistic(s, f)
             new == spend_interval_index(s, f, q)
  <1>1. Notes(1..s) \cup Notes(f) = all /\ all \in SUBSET Nat
    <2>1. (1..s) \cup f = 1..v
      BY RootViewIsRow
    <2>2. Notes(1..s) \in SUBSET Nat /\ Notes(f) \in SUBSET Nat
          /\ Notes(1..s) \cup Notes(f) = Notes((1..s) \cup f)
      BY NotesOfStateAndFragment
    <2> QED
      BY <2>1, <2>2
  <1>2. /\ q \in Seq(all)
        /\ q = <<>> => \A n \in all : ~(i <= n)
        /\ q # <<>> =>
             /\ Last(q) \in all /\ i <= Last(q)
             /\ Range(q) = {n \in all : i <= n /\ n <= Last(q)}
    BY <1>1, InNotes
  <1>3. latest \in Nat /\ (latest = 0 \/ latest \in all)
    BY <1>1, LatestNoteOptimistic
  <1>4. new = IF q # <<>> THEN Last(q) + 1 ELSE IF latest > 0 THEN latest + 1 ELSE 0
    BY DEF spend_interval_index
  <1> HIDE DEF q, v, i, latest, new, all
  <1>5. \A n \in all : n \in Nat
    BY <1>1
  <1>6. CASE q # <<>>
    <2>1. new = Last(q) + 1 /\ Last(q) \in Nat
      BY <1>2, <1>4, <1>5, <1>6
    <2>2. \A n \in all : n <= Last(q) <=> n < new
      BY <1>5, <2>1
    <2>3. Range(q) = {n \in all : i <= n /\ n < new}
      BY <1>2, <1>6, <2>2
    <2> QED
      BY <1>2, <1>6, <2>1, <2>3 DEF q, v, i, new, all
  <1>7. CASE q = <<>>
    <2>1. Range(q) = {}
      BY <1>7 DEF Range
    <2>2. Range(q) = {n \in all : i <= n /\ n < new}
      BY <1>2, <1>7, <2>1
    <2>3. new \in Nat /\ (new = 0 \/ \E n \in all : new = n + 1)
      BY <1>3, <1>4, <1>7
    <2> QED
      BY <2>2, <2>3 DEF q, v, i, new, all
  <1> QED
    BY <1>6, <1>7

\* What a request pays.
LEMMA RequestType ==
  ASSUME NEW request \in Requests
  PROVE  /\ Outputs(request) \in Seq(Note)
         /\ OutputValue(request) \in Int
         /\ OutputValue(request) =
              ToWallet(Outputs(request)) + ToOthers(Outputs(request))
         /\ DeltaValue(request) \in Int /\ DeltaEnergy(request) \in Int
         /\ \A in : Allowed(request, in) => Len(Outputs(request)) <= Out
  <1>1. request \in Request
    BY RequestAssumption
  <1>2. /\ request.type \in {"transfer", "deposit", "withdraw"}
        /\ request.amount \in Nat /\ request.fee \in Nat /\ request.energy \in Nat
        /\ request.outputs \in Seq(Note)
    BY <1>1 DEF Request
  <1>3. Outputs(request) \in Seq(Note)
    BY <1>2 DEF Outputs
  <1>4. /\ OutputValue(request) =
             ToWallet(Outputs(request)) + ToOthers(Outputs(request))
        /\ ToWallet(Outputs(request)) \in Int /\ ToOthers(Outputs(request)) \in Int
        /\ OutputValue(request) \in Int
    <2> DEFINE outputs == Outputs(request)
    <2>1. OutputValue(request) = Total([j \in DOMAIN outputs |-> outputs[j].b])
      BY DEF OutputValue
    <2>2. outputs \in Seq(Note)
      BY <1>3
    <2> HIDE DEF outputs
    <2>3. OutputValue(request) = ToWallet(outputs) + ToOthers(outputs)
      BY <2>1, <2>2, PartsAreAll, Zenon
    <2>4. ToWallet(outputs) \in Int /\ ToOthers(outputs) \in Int
      BY <2>2, PartsType
    <2> QED
      BY <2>3, <2>4 DEF outputs
  <1>5. DeltaValue(request) \in Int /\ DeltaEnergy(request) \in Int
    BY <1>2 DEF DeltaValue, DeltaEnergy
  <1>6. ASSUME NEW in, Allowed(request, in) PROVE Len(Outputs(request)) <= Out
    <2>1. CASE request.type = "transfer"
      BY <1>6, <2>1 DEF Allowed
    <2>2. CASE request.type # "transfer"
      <3>1. Outputs(request) = <<>> /\ Len(<<>>) = 0
        BY <2>2 DEF Outputs
      <3> QED
        BY <3>1, SizeType
    <2> QED
      BY <2>1, <2>2
  <1> QED
    BY <1>3, <1>4, <1>5, <1>6

\* The sums of create_tx, with the value of the notes as a set.
LEMMA InputsType ==
  ASSUME LedgerInv, NEW s \in 0..Len(ledger), NEW f \in Fragments,
         IsInjective(in_notes(s, f))
  PROVE  LET q == in_notes(s, f)
         IN  /\ q \in [1..Len(q) -> AllNotes] /\ Len(q) \in Nat /\ DOMAIN q = 1..Len(q)
             /\ q \in Seq(Nat) /\ Len(q) <= In
             /\ Inputs(s, f).value = in_account(s, f).b + ValueOf(Range(q))
             /\ ValueOf(Range(q)) \in Int
             /\ Inputs(s, f).value \in Int /\ Inputs(s, f).energy \in Int
  <1> DEFINE q == in_notes(s, f)
             m == Len(q)
             held == fallback_delta_index(s, f)
             index == IF in_account_index(s, f) = None THEN 0 ELSE in_account_index(s, f)
             values == [j \in 1..m |-> NoteAt(q[j]).b]
             energies == [j \in 1..m |-> NoteAt(q[j]).b * (held - q[j])]
  <1>1. q \in Seq(Notes(1..s) \cup Notes(f)) /\ m <= In
    BY InNotes
  <1>2. Notes(1..s) \in SUBSET AllNotes /\ Notes(f) \in SUBSET AllNotes
    <2>1. 1..s \in SUBSET (1..Len(ledger)) /\ f \in SUBSET (1..Len(ledger))
      BY FragmentType
    <2> QED
      BY <2>1, AllNotesType
  <1>3. \A n \in AllNotes : n \in Nat /\ NoteAt(n).b \in Nat
    BY AllNotesType
  <1>4. Notes(1..s) \cup Notes(f) \in SUBSET AllNotes /\ AllNotes \in SUBSET Nat
    BY <1>2, <1>3
  <1>5. q \in Seq(AllNotes) /\ q \in Seq(Nat)
    BY <1>1, <1>4, SequenceIn
  <1>6. m \in Nat /\ DOMAIN q = 1..m /\ q \in [1..m -> AllNotes]
    <2> HIDE DEF q
    <2> QED
      BY <1>5
  <1>7. ValueOf(Range(q)) = Total(values)
    <2> HIDE DEF q
    <2>1. IsInjective(q)
      BY DEF q
    <2> QED
      BY <1>6, <2>1, ValueOfSequence
  <1>8. held \in Nat /\ index \in Nat
    <2>1. in_account_index(s, f) \in Nat \cup {None}
      BY InAccount
    <2> QED
      BY <2>1, FallbackIndex
  <1>9. ASSUME NEW j \in 1..m
        PROVE  q[j] \in Nat /\ NoteAt(q[j]).b \in Nat
    <2> HIDE DEF q
    <2>1. q[j] \in AllNotes
      BY <1>6
    <2> QED
      BY <1>3, <2>1
  <1> HIDE DEF q, held, index
  <1>10. values \in [1..m -> Int] /\ energies \in [1..m -> Int]
    BY <1>8, <1>9
  <1>11. Total(values) \in Int /\ Total(energies) \in Int
    BY <1>6, <1>10, TotalType
  <1>12. in_account(s, f).b \in Nat /\ in_account(s, f).e \in Nat
    BY InAccount DEF Account
  <1>13. /\ Inputs(s, f).value = in_account(s, f).b + Total(values)
         /\ Inputs(s, f).energy =
              in_account(s, f).e + in_account(s, f).b * (held - index) + Total(energies)
    BY <1>6, InputsFields DEF q, held, index
  <1>14. in_account(s, f).b * (held - index) \in Int
    BY <1>8, <1>12
  <1>15. Inputs(s, f).value \in Int /\ Inputs(s, f).energy \in Int
    BY <1>11, <1>12, <1>13, <1>14
  <1>16. ValueOf(Range(q)) \in Int /\ Inputs(s, f).value = in_account(s, f).b + ValueOf(Range(q))
    BY <1>7, <1>11, <1>13
  <1> QED
    BY <1>1, <1>5, <1>6, <1>15, <1>16 DEF q

\* The fields of the transaction.
LEMMA CreateTxFields ==
  ASSUME NEW request, NEW in
  PROVE  LET tx == create_tx(request, in)
         IN  /\ tx.account = [i |-> in.i,
                              b |-> in.value + DeltaValue(request) - OutputValue(request),
                              e |-> in.energy + DeltaEnergy(request)]
             /\ tx.account.i = in.i
             /\ tx.account.b = in.value + DeltaValue(request) - OutputValue(request)
             /\ tx.account.e = in.energy + DeltaEnergy(request)
             /\ tx.notes = Outputs(request)
             /\ tx.in_account = in.account_index
             /\ tx.in_notes = in.notes
             /\ tx.delta_index = in.delta_index
             /\ tx.delta_value = DeltaValue(request)
             /\ tx.view = in.view
  BY DEF create_tx

\* A transaction that create_tx makes and the circuit accepts is Made, from any
\* state and any fragment.
LEMMA CreatedTx ==
  ASSUME LedgerInv, NEW s \in 0..Len(ledger), NEW f \in Fragments, NEW request \in Requests,
         Allowed(request, Inputs(s, f)), Provable(create_tx(request, Inputs(s, f)))
  PROVE  LET tx == create_tx(request, Inputs(s, f))
         IN  tx \in Tx /\ tx.view \in 0..Len(ledger) /\ Made(tx)
  <1> DEFINE in == Inputs(s, f)
             tx == create_tx(request, in)
             q == in_notes(s, f)
  <1>1. /\ tx.account = [i |-> in.i,
                         b |-> in.value + DeltaValue(request) - OutputValue(request),
                         e |-> in.energy + DeltaEnergy(request)]
        /\ tx.account.i = in.i
        /\ tx.account.b = in.value + DeltaValue(request) - OutputValue(request)
        /\ tx.account.e = in.energy + DeltaEnergy(request)
        /\ tx.notes = Outputs(request)
        /\ tx.in_account = in.account_index
        /\ tx.in_notes = in.notes
        /\ tx.delta_index = in.delta_index
        /\ tx.delta_value = DeltaValue(request)
        /\ tx.view = in.view
    BY CreateTxFields
  <1>2. /\ in.account_index = in_account_index(s, f) /\ in.notes = q
        /\ in.i = spend_interval_index(s, f, q)
        /\ in.delta_index = fallback_delta_index(s, f) /\ in.view = root_view(s, f)
    BY InputsFields
  <1>3. /\ tx.view # None /\ IsInjective(tx.in_notes)
        /\ tx.account.b >= 0 /\ tx.account.e >= 0
    BY DEF Provable
  <1>4. root_view(s, f) # None /\ IsInjective(q)
    BY <1>1, <1>2, <1>3
  <1>5. tx.view \in 0..Len(ledger) /\ tx.view \in Nat
    BY <1>1, <1>2, <1>4, RootViewIsRow
  <1>6. /\ InputOf(tx) = in_account(s, f) /\ InputOf(tx) \in Account
        /\ tx.in_account \in Nat \cup {None}
    BY <1>1, <1>2, InAccount DEF InputOf
  <1>7. /\ Range(q) = {n \in Notes(1..tx.view) : in_account(s, f).i <= n /\ n < tx.account.i}
        /\ tx.account.i \in Nat
        /\ tx.account.i = 0 \/ \E n \in Notes(1..tx.view) : tx.account.i = n + 1
    BY <1>1, <1>2, <1>4, InputsTakeInterval
  <1>8. /\ q \in Seq(Nat) /\ Len(q) <= In
        /\ in.value = in_account(s, f).b + ValueOf(Range(q))
        /\ ValueOf(Range(q)) \in Int
        /\ in.value \in Int /\ in.energy \in Int
    BY <1>4, InputsType
  <1>9. /\ Outputs(request) \in Seq(Note) /\ OutputValue(request) \in Int
        /\ OutputValue(request) =
             ToWallet(Outputs(request)) + ToOthers(Outputs(request))
        /\ DeltaValue(request) \in Int /\ DeltaEnergy(request) \in Int
        /\ Len(Outputs(request)) <= Out
    BY RequestType
  <1>10. ToWallet(Outputs(request)) \in Int /\ ToOthers(Outputs(request)) \in Int
    BY <1>9, PartsType
  <1>11. tx.delta_index \in Nat
    BY <1>1, <1>2, FallbackIndex
  <1>12. tx.account \in Account
    <2>1. tx.account.b \in Nat
      <3>1. in.value + DeltaValue(request) - OutputValue(request) \in Int
        <4> HIDE DEF in
        <4> QED
          BY <1>8, <1>9
      <3> QED
        BY <1>1, <1>3, <3>1
    <2>2. tx.account.e \in Nat
      <3>1. in.energy + DeltaEnergy(request) \in Int
        <4> HIDE DEF in
        <4> QED
          BY <1>8, <1>9
      <3> QED
        BY <1>1, <1>3, <3>1
    <2> QED
      BY <1>1, <1>7, <2>1, <2>2 DEF Account
  <1>13. tx \in Tx
    <2>1. tx = [account |-> tx.account, notes |-> tx.notes, in_account |-> tx.in_account,
                in_notes |-> tx.in_notes, delta_index |-> tx.delta_index,
                delta_value |-> tx.delta_value, view |-> tx.view]
      BY DEF create_tx
    <2>2. tx.notes \in Seq(Note) /\ tx.in_notes \in Seq(Nat) /\ tx.delta_value \in Int
      BY <1>1, <1>2, <1>8, <1>9
    <2> HIDE DEF tx
    <2> QED
      BY <1>5, <1>6, <1>11, <1>12, <2>1, <2>2 DEF Tx
  <1>14. Made(tx)
    <2>1. SpendsItsInterval(tx)
      BY <1>1, <1>2, <1>6, <1>7 DEF SpendsItsInterval
    <2>2. IndexFollowsNote(tx)
      BY <1>7 DEF IndexFollowsNote
    <2>3. Balanced(tx)
      <3>1. in_account(s, f).b \in Nat
        BY InAccount DEF Account
      <3>2. tx.account.b = (in_account(s, f).b + ValueOf(Range(q))) + DeltaValue(request)
                             - (ToWallet(Outputs(request)) + ToOthers(Outputs(request)))
        BY <1>1, <1>8, <1>9
      <3>3. tx.account.b = in_account(s, f).b + ValueOf(Range(q)) + DeltaValue(request)
                             - ToWallet(Outputs(request)) - ToOthers(Outputs(request))
        <4>1. in_account(s, f).b \in Int
          BY <3>1
        <4> HIDE DEF tx, q
        <4> QED
          BY <1>8, <1>9, <1>10, <3>2, <4>1, SumLeft
      <3> HIDE DEF tx, q
      <3> QED
        BY <1>1, <1>2, <1>6, <3>3 DEF Balanced
    <2>4. Len(tx.notes) <= Out /\ Len(tx.in_notes) <= In
      BY <1>1, <1>2, <1>8, <1>9
    <2> QED
      BY <2>1, <2>2, <2>3, <2>4 DEF Made
  <1> QED
    BY <1>5, <1>13, <1>14

-----------------------------------------------------------------------------
(***************************************************************************)
(* The history.  Along a ledger whose transactions are Made and take the   *)
(* latest account, the spent intervals join.                               *)
(***************************************************************************)

\* The index of a transaction lies in its view, so the notes below it are the
\* same in every longer prefix.
LEMMA IndexBounded ==
  ASSUME LedgerInv, NEW tx \in Tx, tx.view \in 0..Len(ledger), Made(tx)
  PROVE  /\ tx.account.i \in 0..Position(tx.view + 1)
         /\ \A w \in tx.view..Len(ledger) : \A n \in Notes(1..w) :
              n < tx.account.i => n \in Notes(1..tx.view)
         /\ \A w \in tx.view..Len(ledger) : Notes(1..tx.view) \subseteq Notes(1..w)
  <1> DEFINE v == tx.view
             i == tx.account.i
  <1>1. v \in 0..Len(ledger) /\ v \in Nat /\ v + 1 \in Nat \ {0}
    BY GroupsInLedger
  <1>2. i \in Nat
    BY DEF Tx, Account
  <1>3. i = 0 \/ \E n \in Notes(1..v) : i = n + 1
    BY DEF Made, IndexFollowsNote
  <1>4. /\ Position(v + 1) \in Nat
        /\ \A n \in Notes(1..v) : n \in Nat /\ n < Position(v + 1)
    BY <1>1, GroupsInLedger, NotesBounded
  <1>5. i \in 0..Position(v + 1)
    BY <1>2, <1>3, <1>4
  <1>6. ASSUME NEW w \in v..Len(ledger), NEW n \in Notes(1..w), n < i
        PROVE  n \in Notes(1..v)
    <2>1. w \in 0..Len(ledger) /\ 1..w \in SUBSET (1..Len(ledger))
      BY <1>1 DEF LedgerInv
    <2>2. n \in Nat /\ GroupOf(n) \in 1..w /\ Position(GroupOf(n)) < n
      BY <2>1, NotesWhere
    <2>3. GroupOf(n) \in Nat \ {0}
      BY <2>2
    <2>4. Position(GroupOf(n)) \in Nat
      BY <2>3, PositionType
    <2>5. GroupOf(n) <= v
      <3> SUFFICES ASSUME v + 1 <= GroupOf(n) PROVE FALSE
        BY <1>1, <2>3
      <3>1. Position(v + 1) <= Position(GroupOf(n))
        BY <1>1, <2>3, PositionsGrow
      <3> QED
        BY <1>2, <1>4, <1>5, <1>6, <2>2, <2>4, <3>1
    <2>6. GroupOf(n) \in 1..v
      BY <1>1, <2>3, <2>5
    <2> QED
      BY <2>1, <2>6, NotesIn
  <1>7. ASSUME NEW w \in v..Len(ledger) PROVE Notes(1..v) \subseteq Notes(1..w)
    <2>1. 1..w = (1..v) \cup (1..w)
      BY <1>1
    <2> QED
      BY <2>1, NotesUnion
  <1> QED
    BY <1>5, <1>6, <1>7

\* An own transaction of the ledger.
LEMMA OwnGroup ==
  ASSUME HistoryInv, NEW k \in 1..Len(ledger), IsOwn(k)
  PROVE  /\ k \in OwnGroups /\ k - 1 \in 0..Len(ledger)
         /\ ledger[k] \in Tx /\ Made(ledger[k])
         /\ ledger[k].view \in 0..(k - 1) /\ ledger[k].view \in 0..Len(ledger)
         /\ ledger[k].in_account = latest_account_index(k - 1)
         /\ InputOf(ledger[k]) = latest_account(k - 1)
  <1>1. LedgerInv /\ MadeInv /\ ChainInv
    BY DEF HistoryInv
  <1>2. k \in OwnGroups /\ k - 1 \in 0..Len(ledger) /\ k \in Nat /\ Len(ledger) \in Nat
    BY <1>1 DEF OwnGroups, LedgerInv
  <1>3. ledger[k] \in Tx
    BY <1>1, EntryType
  <1>4. Made(ledger[k]) /\ ledger[k].view < k
    BY <1>1, <1>2 DEF MadeInv
  <1>5. ledger[k].view \in Nat
    BY <1>3 DEF Tx
  <1>6. ledger[k].in_account = latest_account_index(k - 1)
    BY <1>1, <1>2 DEF ChainInv
  <1>7. InputOf(ledger[k]) = latest_account(k - 1)
    BY <1>1, <1>2, <1>6, LatestAccount DEF InputOf
  <1> QED
    BY <1>2, <1>3, <1>4, <1>5, <1>6, <1>7

\* The latest account changes with an own transaction, to its account.
LEMMA NextAccount ==
  ASSUME LedgerInv, NEW s \in 1..Len(ledger)
  PROVE  /\ ~IsOwn(s) => /\ latest_account_index(s) = latest_account_index(s - 1)
                         /\ latest_account(s) = latest_account(s - 1)
         /\ IsOwn(s) => /\ latest_account_index(s) = Position(s)
                        /\ latest_account(s) = ledger[s].account
  <1>1. s \in Nat \ {0} /\ s \in 0..Len(ledger) /\ s - 1 \in 0..Len(ledger) /\ Len(ledger) \in Nat
    BY DEF LedgerInv
  <1>2. \A g : g \in 1..s <=> g \in 1..(s - 1) \/ g = s
    BY <1>1
  <1>3. CASE ~IsOwn(s)
    <2>1. Accounts(1..s) = Accounts(1..(s - 1))
      BY <1>2, <1>3 DEF Accounts
    <2> QED
      BY <1>3, <2>1 DEF latest_account_index, latest_account
  <1>4. CASE IsOwn(s)
    <2>1. Position(s) \in Accounts(1..s)
      BY <1>2, <1>4, AccountsIn
    <2>2. Accounts(1..s) \in SUBSET Nat
      BY <1>1, GroupsInLedger, AccountsBounded
    <2>3. ASSUME NEW a \in Accounts(1..s) PROVE a <= Position(s)
      <3>1. GroupOf(a) \in 1..s /\ a = Position(GroupOf(a))
        BY <1>1, <2>3, GroupsInLedger, AccountsWhere
      <3>2. GroupOf(a) \in Nat \ {0} /\ GroupOf(a) <= s
        BY <1>1, <3>1
      <3> QED
        BY <1>1, <3>1, <3>2, PositionsGrow
    <2>4. Max(Accounts(1..s)) = Position(s)
      BY <2>1, <2>2, <2>3, MaxIs
    <2>5. latest_account_index(s) = Position(s) /\ latest_account(s) = AccountAt(Position(s))
      BY <2>1, <2>4 DEF latest_account_index, latest_account
    <2>6. 0 \in 0..Out /\ Position(s) + 0 = Position(s)
      BY <1>1, SizeType, PositionType
    <2>7. GroupOf(Position(s)) = s
      BY <1>1, <2>6, GroupOfPosition
    <2> QED
      BY <1>4, <2>5, <2>7 DEF AccountAt
  <1> QED
    BY <1>3, <1>4

\* The empty prefix.
LEMMA NoAccountYet ==
  ASSUME LedgerInv
  PROVE  /\ Accounts(1..0) = {} /\ Notes(1..0) = {}
         /\ latest_account_index(0) = None /\ latest_account(0) = initial_account
  <1>1. Accounts(1..0) = {} /\ Notes(1..0) = {}
    BY DEF Accounts, Notes
  <1> QED
    BY <1>1 DEF latest_account_index, latest_account

\* The notes that a group adds lie behind all indexes that are spent up to it,
\* and the index of the latest account does not fall.
LEMMA NextNotes ==
  ASSUME HistoryInv, NEW s \in 1..Len(ledger)
  PROVE  /\ Notes(1..s) = Notes(1..(s - 1)) \cup Notes({s})
         /\ Notes(1..(s - 1)) \cap Notes({s}) = {}
         /\ \A n \in Notes(1..s) : n \in Nat
         /\ latest_account(s - 1).i \in Nat /\ latest_account(s).i \in Nat
         /\ \A n \in Notes({s}) : latest_account(s - 1).i <= n /\ latest_account(s).i <= n
         /\ IsOwn(s) => latest_account(s - 1).i <= latest_account(s).i
  <1>1. LedgerInv
    BY DEF HistoryInv
  <1>2. s \in Nat \ {0} /\ s \in 0..Len(ledger) /\ s - 1 \in 0..Len(ledger) /\ Len(ledger) \in Nat
        /\ {s} \in SUBSET (1..Len(ledger))
    BY <1>1 DEF LedgerInv
  <1>3. 1..s = (1..(s - 1)) \cup {s}
    BY <1>2
  <1>4. Notes(1..s) = Notes(1..(s - 1)) \cup Notes({s})
    BY <1>3, NotesUnion
  <1>5. \A n \in Notes({s}) : n \in Nat /\ GroupOf(n) = s /\ Position(s) < n
    BY <1>1, <1>2, NotesWhere
  <1>6. \A n \in Notes(1..(s - 1)) : n \in Nat /\ n < Position(s)
    <2>1. (s - 1) + 1 = s
      BY <1>2
    <2> QED
      BY <1>1, <1>2, <2>1, GroupsInLedger, NotesBounded
  <1>7. Position(s) \in Nat
    BY <1>2, PositionType
  <1>8. ASSUME NEW t \in 0..Len(ledger), t <= s
        PROVE  latest_account(t).i \in Nat /\ latest_account(t).i <= Position(s)
    <2>1. CASE Accounts(1..t) = {}
      <3>1. latest_account(t).i = 0
        BY <1>1, <2>1, LatestAccount DEF initial_account
      <3> QED
        BY <1>7, <3>1
    <2>2. CASE Accounts(1..t) # {}
      <3> DEFINE a == latest_account_index(t)
                 g == GroupOf(a)
      <3>1. a \in Accounts(1..t) /\ latest_account(t) = AccountAt(a)
        BY <1>1, <2>2, LatestAccount
      <3>2. g \in 1..t /\ IsOwn(g) /\ AccountAt(a) = ledger[g].account
        BY <1>1, <3>1, GroupsInLedger, AccountsWhere
      <3>3. g \in 1..Len(ledger) /\ g \in Nat \ {0} /\ g <= s /\ t \in Nat
        BY <1>2, <1>8, <3>2
      <3> HIDE DEF a, g
      <3>4. /\ ledger[g] \in Tx /\ Made(ledger[g]) /\ ledger[g].view \in 0..(g - 1)
            /\ ledger[g].view \in 0..Len(ledger)
        BY <3>2, <3>3, OwnGroup
      <3>5. ledger[g].account.i \in 0..Position(ledger[g].view + 1)
        BY <1>1, <3>4, IndexBounded
      <3>6. ledger[g].view + 1 \in Nat \ {0} /\ ledger[g].view + 1 <= s
        BY <1>2, <3>3, <3>4
      <3>7. Position(ledger[g].view + 1) \in Nat /\ Position(ledger[g].view + 1) <= Position(s)
        BY <1>2, <3>6, PositionsGrow, PositionType
      <3> QED
        BY <1>7, <3>1, <3>2, <3>5, <3>7
    <2> QED
      BY <2>1, <2>2
  <1>9. /\ latest_account(s - 1).i \in Nat /\ latest_account(s - 1).i <= Position(s)
        /\ latest_account(s).i \in Nat /\ latest_account(s).i <= Position(s)
    BY <1>2, <1>8
  <1>10. \A n \in Notes({s}) : latest_account(s - 1).i <= n /\ latest_account(s).i <= n
    BY <1>5, <1>7, <1>9
  <1>11. Notes(1..(s - 1)) \cap Notes({s}) = {}
    <2> SUFFICES ASSUME NEW n \in Notes(1..(s - 1)), n \in Notes({s}) PROVE FALSE
      OBVIOUS
    <2>1. n \in Nat /\ n < Position(s)
      BY <1>6
    <2>2. Position(s) < n
      BY <1>5
    <2> QED
      BY <1>7, <2>1, <2>2
  <1>12. IsOwn(s) => latest_account(s - 1).i <= latest_account(s).i
    <2> SUFFICES ASSUME IsOwn(s) PROVE latest_account(s - 1).i <= latest_account(s).i
      OBVIOUS
    <2>1. Made(ledger[s]) /\ InputOf(ledger[s]) = latest_account(s - 1)
      BY OwnGroup
    <2>2. latest_account(s) = ledger[s].account
      BY <1>1, NextAccount
    <2> QED
      BY <2>1, <2>2 DEF Made, Provable, InputOf
  <1>13. \A n \in Notes(1..s) : n \in Nat
    BY <1>4, <1>5, <1>6
  <1> QED
    BY <1>4, <1>9, <1>10, <1>11, <1>12, <1>13

\* What an own group takes: the notes between the index of the last account and
\* the index of its own, in every prefix.
LEMMA TakenByGroup ==
  ASSUME HistoryInv, NEW s \in 1..Len(ledger), IsOwn(s)
  PROVE  /\ Range(ledger[s].in_notes) =
              {n \in Notes(1..(s - 1)) : latest_account(s - 1).i <= n /\ n < latest_account(s).i}
         /\ Range(ledger[s].in_notes) =
              {n \in Notes(1..s) : latest_account(s - 1).i <= n /\ n < latest_account(s).i}
         /\ \A w \in s..Len(ledger) : Range(ledger[s].in_notes) =
              {n \in Notes(1..w) : latest_account(s - 1).i <= n /\ n < latest_account(s).i}
  <1> DEFINE tx == ledger[s]
             v == tx.view
             from == latest_account(s - 1).i
             to == latest_account(s).i
  <1>1. LedgerInv /\ s \in Nat \ {0} /\ Len(ledger) \in Nat
    BY DEF HistoryInv, LedgerInv
  <1>2. /\ tx \in Tx /\ Made(tx) /\ v \in 0..(s - 1) /\ v \in 0..Len(ledger)
        /\ InputOf(tx) = latest_account(s - 1)
    BY OwnGroup
  <1>3. latest_account(s) = tx.account
    BY <1>1, NextAccount
  <1>4. Range(tx.in_notes) = {n \in Notes(1..v) : from <= n /\ n < to}
    BY <1>2, <1>3 DEF Made, SpendsItsInterval
  <1>5. /\ \A w \in v..Len(ledger) : \A n \in Notes(1..w) : n < to => n \in Notes(1..v)
        /\ \A w \in v..Len(ledger) : Notes(1..v) \subseteq Notes(1..w)
    BY <1>1, <1>2, <1>3, IndexBounded
  <1> HIDE DEF tx, v, from, to
  <1>6. ASSUME NEW w \in v..Len(ledger)
        PROVE  Range(tx.in_notes) = {n \in Notes(1..w) : from <= n /\ n < to}
    BY <1>4, <1>5
  <1>7. s - 1 \in v..Len(ledger) /\ s \in v..Len(ledger)
        /\ \A w \in s..Len(ledger) : w \in v..Len(ledger)
    BY <1>1, <1>2
  <1> QED
    BY <1>6, <1>7 DEF tx, from, to

\* The notes that the transactions of a prefix take are those below the index of
\* its latest account.
LEMMA SpentIsBelowIndex ==
  ASSUME HistoryInv, NEW s \in 0..Len(ledger)
  PROVE  SpentNotes(s) = {n \in Notes(1..s) : n < latest_account(s).i}
  <1> DEFINE below(t) == {n \in Notes(1..t) : n < latest_account(t).i}
             S == {t \in 0..Len(ledger) : SpentNotes(t) = below(t)}
  <1>1. LedgerInv /\ Len(ledger) \in Nat /\ 0 \in 0..Len(ledger)
    BY DEF HistoryInv, LedgerInv
  <1>2. 0 \in S
    <2>1. SpentNotes(0) = {}
      BY DEF SpentNotes
    <2>2. below(0) = {}
      BY <1>1, NoAccountYet
    <2> QED
      BY <1>1, <2>1, <2>2
  <1>3. ASSUME NEW t \in 1..Len(ledger), t - 1 \in S PROVE t \in S
    <2> DEFINE i == latest_account(t - 1).i
               j == latest_account(t).i
               old == Notes(1..(t - 1))
               new == Notes({t})
    <2>1. t \in Nat \ {0} /\ t \in 0..Len(ledger)
      BY <1>1
    <2>2. SpentNotes(t - 1) = {n \in old : n < i}
      BY <1>3
    <2>3. /\ Notes(1..t) = old \cup new /\ old \cap new = {}
          /\ \A n \in Notes(1..t) : n \in Nat
          /\ i \in Nat /\ j \in Nat /\ \A n \in new : i <= n /\ j <= n
          /\ IsOwn(t) => i <= j
      BY NextNotes
    <2>4. \A k \in OwnGroups \cap 1..t : k \in OwnGroups \cap 1..(t - 1) \/ k = t
      BY <2>1
    <2>5. \A k \in OwnGroups \cap 1..(t - 1) : k \in OwnGroups \cap 1..t
      BY <2>1
    <2>6. CASE ~IsOwn(t)
      <3>1. j = i
        BY <1>1, <2>6, NextAccount
      <3>2. t \notin OwnGroups
        BY <2>6 DEF OwnGroups
      <3>3. SpentNotes(t) = SpentNotes(t - 1)
        BY <2>4, <2>5, <3>2 DEF SpentNotes
      <3> HIDE DEF i, j, old, new
      <3>4. {n \in Notes(1..t) : n < j} = {n \in old : n < i}
        BY <2>3, <3>1
      <3>5. SpentNotes(t) = {n \in Notes(1..t) : n < j}
        BY <2>2, <3>3, <3>4
      <3> QED
        BY <2>1, <3>5 DEF j
    <2>7. CASE IsOwn(t)
      <3>1. t \in OwnGroups /\ t \in 1..t
        BY <2>1, <2>7, OwnGroup
      <3>2. SpentNotes(t) = SpentNotes(t - 1) \cup Range(ledger[t].in_notes)
        BY <2>4, <2>5, <3>1 DEF SpentNotes
      <3>3. Range(ledger[t].in_notes) = {n \in old : i <= n /\ n < j}
        BY <2>7, TakenByGroup
      <3>4. i <= j
        BY <2>3, <2>7
      <3> HIDE DEF i, j, old, new
      <3>5. \A n \in old : n < j <=> n < i \/ (i <= n /\ n < j)
        BY <2>3, <3>4
      <3>6. \A n \in new : ~(n < j)
        BY <2>3
      <3>7. {n \in Notes(1..t) : n < j} = {n \in old : n < i} \cup {n \in old : i <= n /\ n < j}
        BY <2>3, <3>5, <3>6
      <3>8. SpentNotes(t) = {n \in Notes(1..t) : n < j}
        BY <2>2, <3>2, <3>3, <3>7
      <3> QED
        BY <2>1, <3>8 DEF j
    <2> QED
      BY <2>6, <2>7
  <1> HIDE DEF S
  <1>4. 0..Len(ledger) \subseteq S
    BY <1>1, <1>2, <1>3, IntervalInduction
  <1>5. s \in S
    BY <1>4
  <1> QED
    BY <1>5 DEF S

\* The balance is the amount of the account and of the notes from its index on:
\* no note lies behind the latest.
LEMMA BalanceOfUnspent ==
  ASSUME LedgerInv, NEW s \in 0..Len(ledger)
  PROVE  total_balance(s) =
           latest_account(s).b + ValueOf({n \in Notes(1..s) : latest_account(s).i <= n})
  <1>1. \A n \in Notes(1..s) : n <= latest_note_index(s)
    BY LatestNote
  <1>2. {n \in Notes(1..s) : latest_account(s).i <= n /\ n <= latest_note_index(s)} =
          {n \in Notes(1..s) : latest_account(s).i <= n}
    BY <1>1
  <1> QED
    BY <1>2 DEF total_balance, note_balance

\* What a group adds to the balance.
LEMMA GainType ==
  ASSUME LedgerInv, NEW k \in 1..Len(ledger)
  PROVE  /\ Gain(k) \in Int /\ ToWallet(ledger[k].notes) \in Int /\ ToOthers(ledger[k].notes) \in Int
         /\ IsOwn(k) => Gain(k) = ledger[k].delta_value - ToOthers(ledger[k].notes)
         /\ ~IsOwn(k) => Gain(k) = ToWallet(ledger[k].notes)
  <1> DEFINE in == ToWallet(ledger[k].notes)
             out == ToOthers(ledger[k].notes)
  <1>1. in \in Int /\ out \in Int
    BY EntryType, PartsType
  <1>2. Gain(k) = IF IsOwn(k) THEN ledger[k].delta_value - out ELSE in
    BY DEF Gain, ToWallet, ToOthers
  <1>3. IsOwn(k) => ledger[k].delta_value \in Int
    BY EntryType DEF Tx
  <1> HIDE DEF in, out
  <1>4. Gain(k) \in Int
    BY <1>1, <1>2, <1>3
  <1> QED
    BY <1>1, <1>2, <1>4 DEF in, out

\* The arithmetic of an own transaction.
LEMMA BalanceOfNext ==
  ASSUME NEW b \in Int, NEW taken \in Int, NEW kept \in Int, NEW made \in Int, NEW d \in Int,
         NEW others \in Int
  PROVE  (b + taken + d - made - others) + (kept + made) = (b + (taken + kept)) + (d - others)
  OBVIOUS

\* The balance grows by what the next group adds.
LEMMA NextBalance ==
  ASSUME HistoryInv, NEW s \in 1..Len(ledger)
  PROVE  total_balance(s) = total_balance(s - 1) + Gain(s) /\ total_balance(s - 1) \in Int
  <1> DEFINE old == Notes(1..(s - 1))
             new == Notes({s})
             i == latest_account(s - 1).i
             j == latest_account(s).i
             b == latest_account(s - 1).b
             made == ToWallet(ledger[s].notes)
             others == ToOthers(ledger[s].notes)
             unspent == {n \in old : i <= n}
             kept == {n \in old : j <= n}
             taken == {n \in old : i <= n /\ n < j}
  <1>1. LedgerInv /\ s \in Nat \ {0} /\ s \in 0..Len(ledger) /\ s - 1 \in 0..Len(ledger)
        /\ {s} \in SUBSET (1..Len(ledger)) /\ Len(ledger) \in Nat
    BY DEF HistoryInv, LedgerInv
  <1>2. /\ Notes(1..s) = old \cup new /\ old \cap new = {}
        /\ \A n \in Notes(1..s) : n \in Nat
        /\ i \in Nat /\ j \in Nat /\ \A n \in new : i <= n /\ j <= n
        /\ IsOwn(s) => i <= j
    BY NextNotes
  <1>3. old \in SUBSET AllNotes /\ new \in SUBSET AllNotes
    BY <1>1, GroupsInLedger, AllNotesType
  <1>4. ValueOf(new) = made /\ made \in Int /\ others \in Int
    BY <1>1, ValueOfGroup, GainType
  <1>5. total_balance(s - 1) = b + ValueOf(unspent)
    BY <1>1, BalanceOfUnspent
  <1>6. total_balance(s) = latest_account(s).b + ValueOf({n \in Notes(1..s) : j <= n})
    BY <1>1, BalanceOfUnspent
  <1>7. b \in Int
    BY <1>1, LatestAccount DEF Account
  <1>8. IsOwn(s) =>
          /\ latest_account(s) = ledger[s].account
          /\ Made(ledger[s]) /\ ledger[s] \in Tx /\ InputOf(ledger[s]) = latest_account(s - 1)
          /\ Range(ledger[s].in_notes) = taken
    BY <1>1, OwnGroup, NextAccount, TakenByGroup
  <1>9. /\ IsOwn(s) => Gain(s) = ledger[s].delta_value - others
        /\ ~IsOwn(s) => Gain(s) = made
    BY <1>1, GainType
  <1>10. ~IsOwn(s) => latest_account(s) = latest_account(s - 1)
    BY <1>1, NextAccount
  <1>11. IsOwn(s) =>
           /\ ledger[s].delta_value \in Int
           /\ latest_account(s).b = b + ValueOf(taken) + ledger[s].delta_value - made - others
    BY <1>8 DEF Made, Balanced, Tx
  <1> HIDE DEF old, new, made, others
  <1>12. /\ unspent \in SUBSET AllNotes /\ kept \in SUBSET AllNotes /\ taken \in SUBSET AllNotes
         /\ unspent \cap new = {} /\ kept \cap new = {} /\ taken \cap kept = {}
    <2>1. unspent \in SUBSET AllNotes /\ kept \in SUBSET AllNotes /\ taken \in SUBSET AllNotes
      BY <1>3
    <2>2. unspent \cap new = {} /\ kept \cap new = {}
      BY <1>2
    <2>3. taken \cap kept = {}
      <3> HIDE DEF i, j
      <3> SUFFICES ASSUME NEW n \in taken, n \in kept PROVE FALSE
        OBVIOUS
      <3>1. n \in Nat /\ j <= n /\ n < j
        BY <1>2
      <3> QED
        BY <1>2, <3>1
    <2> QED
      BY <2>1, <2>2, <2>3
  <1>13. {n \in Notes(1..s) : j <= n} = kept \cup new
    BY <1>2
  <1>14. ValueOf(unspent) \in Int /\ ValueOf(kept) \in Int /\ ValueOf(taken) \in Int
    BY <1>1, <1>12, NoteValuesType
  <1>15. ValueOf(kept \cup new) = ValueOf(kept) + made
    BY <1>1, <1>3, <1>4, <1>12, ValueUnion
  <1>16. total_balance(s - 1) \in Int
    BY <1>5, <1>7, <1>14
  <1>17. CASE ~IsOwn(s)
    <2>1. kept = unspent /\ latest_account(s).b = b
      BY <1>10, <1>17
    <2> HIDE DEF i, j, b, unspent, kept, taken
    <2>2. total_balance(s) = b + (ValueOf(unspent) + made)
      BY <1>6, <1>13, <1>15, <2>1
    <2>3. b + (ValueOf(unspent) + made) = (b + ValueOf(unspent)) + made
      BY <1>4, <1>7, <1>14
    <2> QED
      BY <1>5, <1>9, <1>16, <1>17, <2>2, <2>3
  <1>18. CASE IsOwn(s)
    <2>1. unspent = taken \cup kept
      <3> HIDE DEF i, j
      <3>1. \A n \in old : n \in Nat
        BY <1>2
      <3>2. \A n \in old : i <= n <=> (i <= n /\ n < j) \/ j <= n
        BY <1>2, <1>18, <3>1
      <3> QED
        BY <3>2
    <2>2. ValueOf(unspent) = ValueOf(taken) + ValueOf(kept)
      <3> HIDE DEF unspent, taken, kept
      <3> QED
        BY <1>1, <1>12, <2>1, ValueUnion
    <2> DEFINE d == ledger[s].delta_value
    <2>3. d \in Int /\ latest_account(s).b = b + ValueOf(taken) + d - made - others
      BY <1>11, <1>18
    <2>4. Gain(s) = d - others
      BY <1>9, <1>18
    <2> HIDE DEF i, j, b, d, unspent, kept, taken
    <2>5. total_balance(s) = (b + ValueOf(taken) + d - made - others) + (ValueOf(kept) + made)
      BY <1>6, <1>13, <1>15, <2>3
    <2>6. total_balance(s - 1) = b + (ValueOf(taken) + ValueOf(kept))
      BY <1>5, <2>2
    <2>7. (b + ValueOf(taken) + d - made - others) + (ValueOf(kept) + made)
            = (b + (ValueOf(taken) + ValueOf(kept))) + (d - others)
      BY <1>4, <1>7, <1>14, <2>3, BalanceOfNext
    <2> QED
      BY <1>16, <2>4, <2>5, <2>6, <2>7
  <1> QED
    BY <1>16, <1>17, <1>18

\* The balance of a prefix is what its groups add.
LEMMA BalanceIsGains ==
  ASSUME HistoryInv, NEW s \in 0..Len(ledger)
  PROVE  total_balance(s) = Total([k \in 1..s |-> Gain(k)])
  <1> DEFINE gains(t) == [k \in 1..t |-> Gain(k)]
             S == {t \in 0..Len(ledger) : total_balance(t) = Total(gains(t))}
  <1>1. LedgerInv /\ Len(ledger) \in Nat /\ 0 \in 0..Len(ledger)
    BY DEF HistoryInv, LedgerInv
  <1>2. \A k \in 1..Len(ledger) : Gain(k) \in Int
    BY <1>1, GainType
  <1>3. \A t \in 0..Len(ledger) : gains(t) \in [1..t -> Int]
    BY <1>1, <1>2
  <1>4. 0 \in S
    <2>1. gains(0) \in [1..0 -> Int]
      BY <1>1, <1>3
    <2>2. Total(gains(0)) = 0
      <3> HIDE DEF gains
      <3> QED
        BY <2>1, TotalEmpty
    <2>3. {n \in Notes(1..0) : latest_account(0).i <= n} = {} /\ latest_account(0).b = 0
      BY <1>1, NoAccountYet DEF initial_account
    <2>4. total_balance(0) = 0 + 0
      BY <1>1, <2>3, BalanceOfUnspent, ValueEmpty
    <2> HIDE DEF gains
    <2> QED
      BY <1>1, <2>2, <2>4
  <1>5. ASSUME NEW t \in 1..Len(ledger), t - 1 \in S PROVE t \in S
    <2>1. t - 1 \in Nat /\ (t - 1) + 1 = t /\ t \in 0..Len(ledger) /\ t - 1 \in 0..Len(ledger)
      BY <1>1
    <2>2. gains(t - 1) \in [1..(t - 1) -> Int] /\ gains(t) \in [1..((t - 1) + 1) -> Int]
      BY <1>3, <2>1
    <2>3. /\ \A k \in 1..(t - 1) : gains(t)[k] = gains(t - 1)[k]
          /\ gains(t)[(t - 1) + 1] = Gain(t)
      BY <2>1
    <2>4. total_balance(t) = total_balance(t - 1) + Gain(t)
      BY NextBalance
    <2>5. total_balance(t - 1) = Total(gains(t - 1))
      BY <1>5
    <2> HIDE DEF gains
    <2>6. Total(gains(t)) = Total(gains(t - 1)) + Gain(t)
      BY <2>1, <2>2, <2>3, TotalAppended
    <2> QED
      BY <2>1, <2>4, <2>5, <2>6
  <1> HIDE DEF S
  <1>6. 0..Len(ledger) \subseteq S
    BY <1>1, <1>4, <1>5, IntervalInduction
  <1>7. s \in S
    BY <1>6
  <1> QED
    BY <1>7 DEF S

-----------------------------------------------------------------------------
(***************************************************************************)
(* What the invariant implies.  The fields of the state, and what the      *)
(* wallet tells its user.                                                  *)
(***************************************************************************)

\* The parts of the invariant.
LEMMA InvHistory ==
  ASSUME Inv
  PROVE  /\ LedgerInv /\ HistoryInv /\ TypeInv /\ synced \in 0..Len(ledger)
         /\ Len(ledger) \in Nat /\ Len(ledger) \in 0..Len(ledger)
  BY DEF Inv, HistoryInv, TypeInv, LedgerInv

\* The invariant bounds the state.
LEMMA InvImpliesTypeOK ==
  ASSUME TypeInv, HistoryInv
  PROVE  TypeOK
  <1>1. /\ LedgerInv /\ Len(ledger) <= MaxTxs /\ synced \in 0..Len(ledger)
        /\ created \subseteq Tx /\ \A tx \in created : tx.view <= Len(ledger)
    BY DEF TypeInv
  <1>2. ASSUME NEW k \in DOMAIN ledger
        PROVE  Len(ledger[k].notes) <= Out
    <2>1. k \in 1..Len(ledger)
      BY <1>1 DEF LedgerInv
    <2> QED
      BY <1>1, <2>1 DEF LedgerInv
  <1>3. ASSUME NEW k \in OwnGroups PROVE ledger[k].account.i \in 0..Position(k)
    <2>1. k \in 1..Len(ledger) /\ IsOwn(k) /\ k \in Nat \ {0}
      BY <1>1 DEF LedgerInv, OwnGroups
    <2>2. /\ ledger[k] \in Tx /\ Made(ledger[k]) /\ ledger[k].view \in 0..(k - 1)
          /\ ledger[k].view \in 0..Len(ledger)
      BY <2>1, OwnGroup
    <2>3. ledger[k].account.i \in 0..Position(ledger[k].view + 1)
      BY <1>1, <2>2, IndexBounded
    <2>4. ledger[k].view + 1 \in Nat \ {0} /\ ledger[k].view + 1 <= k
      BY <2>1, <2>2
    <2>5. /\ Position(ledger[k].view + 1) \in Nat /\ Position(k) \in Nat
          /\ Position(ledger[k].view + 1) <= Position(k)
      BY <2>1, <2>4, PositionsGrow, PositionType
    <2> QED
      BY <2>3, <2>5
  <1>4. ASSUME NEW tx \in created
        PROVE  /\ tx.view \in 0..Len(ledger) /\ tx.delta_index \in Nat
               /\ tx.account.i \in 0..Position(tx.view + 1) /\ Len(tx.in_notes) <= In
    <2>1. tx \in Tx /\ tx.view \in Nat /\ tx.view \in 0..Len(ledger) /\ tx.delta_index \in Nat
      BY <1>1 DEF Tx, LedgerInv
    <2>2. Made(tx)
      BY DEF HistoryInv, MadeInv
    <2>3. tx.account.i \in 0..Position(tx.view + 1)
      BY <1>1, <2>1, <2>2, IndexBounded
    <2> QED
      BY <2>1, <2>2, <2>3 DEF Made
  <1> QED
    BY <1>1, <1>2, <1>3, <1>4 DEF TypeOK

\* get_usable_notes starts at the first note that is not spent (state.rs:164-180,
\* 226-244).
LEMMA InvImpliesUsableNotesUnspent ==
  ASSUME HistoryInv, synced \in 0..Len(ledger)
  PROVE  UsableNotesUnspent
  <1> DEFINE all == Notes(1..synced)
             i == latest_account(synced).i
             latest == latest_note_index(synced)
             usable == {n \in all : i <= n /\ n <= latest}
             e == earliest_usable_index(synced)
  <1>1. LedgerInv
    BY DEF HistoryInv
  <1>2. all \in SUBSET Nat
    BY <1>1, GroupsInLedger, NotesBounded
  <1>3. i \in Nat
    BY <1>1, LatestAccount DEF Account
  <1>4. \A n \in all : n <= latest
    BY <1>1, LatestNote
  <1>5. e = IF usable = {} THEN i ELSE Min(usable)
    BY DEF earliest_usable_index
  <1>6. get_usable_notes(synced) = {n \in all : e <= n /\ n <= latest}
    BY DEF get_usable_notes
  <1>7. SpentNotes(synced) = {n \in all : n < i}
    BY SpentIsBelowIndex
  <1>8. UNION {Range(ledger[k].in_notes) : k \in OwnGroups \cap 1..synced} = SpentNotes(synced)
    BY DEF SpentNotes
  <1> HIDE DEF all, i, latest, e, usable
  <1>9. \A n \in all : n \in usable <=> i <= n
    BY <1>2, <1>4 DEF usable
  <1>10. \A n \in all : e <= n <=> i <= n
    <2> SUFFICES ASSUME NEW n \in all PROVE e <= n <=> i <= n
      OBVIOUS
    <2>1. CASE usable = {}
      BY <1>5, <2>1
    <2>2. CASE usable # {}
      <3>1. usable \in SUBSET Nat
        BY <1>2 DEF usable
      <3>2. e \in usable /\ \A m \in usable : e <= m
        BY <1>5, <2>2, <3>1, MinIsLeast
      <3>3. e \in all /\ e \in Nat /\ i <= e /\ n \in Nat
        BY <1>2, <3>2 DEF usable
      <3> QED
        BY <1>3, <1>9, <3>2, <3>3
    <2> QED
      BY <2>1, <2>2
  <1>11. {n \in all : e <= n /\ n <= latest} = all \ {n \in all : n < i}
    <2>1. \A n \in all : n \in Nat
      BY <1>2
    <2>2. \A n \in all : i <= n <=> ~(n < i)
      BY <1>3, <2>1
    <2>3. \A n \in all : e <= n /\ n <= latest <=> ~(n < i)
      BY <1>4, <1>10, <2>2
    <2> QED
      BY <2>3
  <1>12. get_usable_notes(synced) = all \ SpentNotes(synced)
    BY <1>6, <1>7, <1>11
  <1> QED
    BY <1>8, <1>12 DEF UsableNotesUnspent, all

\* get_tx_input looks up the latest account before the transaction, which is the
\* one it took, and the notes between the two indexes (client/mod.rs:670-690).
LEMMA InvImpliesTxInputsAreTrue ==
  ASSUME HistoryInv, synced \in 0..Len(ledger)
  PROVE  TxInputsAreTrue
  <1>1. LedgerInv /\ Len(ledger) \in Nat
    BY DEF HistoryInv, LedgerInv
  <1> SUFFICES ASSUME NEW k \in OwnGroups \cap 1..synced
               PROVE  LET input == get_tx_input(synced, Position(k))
                      IN  /\ input.account = IF ledger[k].in_account = None THEN 0
                                             ELSE ledger[k].in_account
                          /\ input.notes = Range(ledger[k].in_notes)
    BY DEF TxInputsAreTrue
  <1> DEFINE p == Position(k)
             earlier == {a \in Accounts(1..synced) : a < p}
             acc == IF earlier = {} THEN initial_account ELSE AccountAt(Max(earlier))
             input == get_tx_input(synced, p)
  <1>2. k \in 1..Len(ledger) /\ IsOwn(k) /\ k \in Nat \ {0} /\ k - 1 \in 0..Len(ledger)
        /\ synced \in k..Len(ledger)
    BY <1>1 DEF OwnGroups
  <1>3. input = [account |-> IF earlier = {} THEN 0 ELSE Max(earlier),
                 notes |-> get_notes_in_range(synced, acc.i, AccountAt(p).i)]
    BY DEF get_tx_input
  <1>4. earlier = Accounts(1..(k - 1))
    <2>1. ASSUME NEW a \in Accounts(1..synced), a < p PROVE a \in Accounts(1..(k - 1))
      <3>1. GroupOf(a) \in 1..synced /\ a = Position(GroupOf(a)) /\ IsOwn(GroupOf(a)) /\ a \in Nat
        BY <1>1, <2>1, GroupsInLedger, AccountsWhere
      <3>2. GroupOf(a) \in Nat \ {0}
        BY <3>1
      <3>3. GroupOf(a) < k
        <4> SUFFICES ASSUME k <= GroupOf(a) PROVE FALSE
          BY <1>2, <3>2
        <4>1. p <= a
          BY <1>2, <3>1, <3>2, PositionsGrow
        <4>2. p \in Nat
          BY <1>2, PositionType
        <4> HIDE DEF p
        <4> QED
          BY <2>1, <3>1, <4>1, <4>2
      <3>4. GroupOf(a) \in 1..(k - 1)
        BY <1>2, <3>2, <3>3
      <3>5. Position(GroupOf(a)) \in Accounts(1..(k - 1))
        BY <3>1, <3>4, AccountsIn
      <3> QED
        BY <3>1, <3>5
    <2>2. ASSUME NEW a \in Accounts(1..(k - 1)) PROVE a \in Accounts(1..synced) /\ a < p
      <3>1. /\ GroupOf(a) \in 1..(k - 1) /\ a = Position(GroupOf(a)) /\ IsOwn(GroupOf(a))
            /\ a \in Nat
        BY <1>1, <1>2, <2>2, GroupsInLedger, AccountsWhere
      <3>2. GroupOf(a) \in Nat \ {0} /\ GroupOf(a) < k /\ GroupOf(a) \in 1..synced
        BY <1>2, <3>1
      <3>3. a + GroupSize <= p /\ p \in Nat
        BY <1>2, <3>1, <3>2, PositionsApart, PositionType
      <3>4. a < p
        <4> HIDE DEF p
        <4> QED
          BY <3>1, <3>3, SizeType
      <3> QED
        BY <3>1, <3>2, <3>4, AccountsIn
    <2> QED
      BY <2>1, <2>2
  <1>5. acc = latest_account(k - 1)
    BY <1>4 DEF latest_account, latest_account_index
  <1>6. ledger[k].in_account = latest_account_index(k - 1)
    BY <1>2, OwnGroup
  <1>7. input.account = IF ledger[k].in_account = None THEN 0 ELSE ledger[k].in_account
    <2>1. input.account = IF earlier = {} THEN 0 ELSE Max(earlier)
      BY <1>3
    <2>2. latest_account_index(k - 1) = IF earlier = {} THEN None ELSE Max(earlier)
      BY <1>4 DEF latest_account_index
    <2>3. earlier # {} => latest_account_index(k - 1) # None
      BY <1>1, <1>2, <1>4, LatestAccount
    <2> QED
      BY <1>6, <2>1, <2>2, <2>3
  <1>8. AccountAt(p) = latest_account(k)
    <2>1. latest_account(k) = ledger[k].account
      BY <1>1, <1>2, NextAccount
    <2>2. 0 \in 0..Out /\ Position(k) + 0 = Position(k)
      BY <1>2, SizeType, PositionType
    <2>3. GroupOf(p) = k
      BY <1>2, <2>2, GroupOfPosition
    <2> QED
      BY <2>1, <2>3 DEF AccountAt
  <1>9. input.notes = Range(ledger[k].in_notes)
    <2>1. input.notes =
            {n \in Notes(1..synced) : latest_account(k - 1).i <= n /\ n < latest_account(k).i}
      BY <1>3, <1>5, <1>8 DEF get_notes_in_range
    <2> QED
      BY <1>2, <2>1, TakenByGroup
  <1> QED
    BY <1>7, <1>9

-----------------------------------------------------------------------------
(***************************************************************************)
(* Transactions that can be proved.  With a fragment that continues the    *)
(* state nothing is listed twice, no index falls and no energy is          *)
(* negative.                                                               *)
(***************************************************************************)

\* Usable notes of the fragment that lie behind those of the state are listed
\* once.
LEMMA LowestInjective ==
  ASSUME NEW K \in SUBSET Nat, IsFiniteSet(K), NEW O \in SUBSET Nat, IsFiniteSet(O),
         \A k \in K, n \in O : k < n
  PROVE  IsInjective(Lowest(K, O))
  <1> DEFINE mK == IF In <= Cardinality(K) THEN In ELSE Cardinality(K)
             mO == IF In <= Cardinality(O) THEN In ELSE Cardinality(O)
             tK == Take(In, K)
             tO == Take(In, O)
             N == Min({In, Cardinality(K) + Cardinality(O)})
             q == Lowest(K, O)
  <1>1. In \in Nat /\ Cardinality(K) \in Nat /\ Cardinality(O) \in Nat
    BY SizeAssumption, FS_CardinalityType
  <1>2. mK \in Nat /\ tK \in [1..mK -> K] /\ mO \in Nat /\ tO \in [1..mO -> O]
    BY <1>1, TakeType
  <1>3. /\ \A j \in 1..mK, k \in 1..mK : j < k => tK[j] < tK[k]
        /\ \A j \in 1..mO, k \in 1..mO : j < k => tO[j] < tO[k]
    BY <1>1, TakeLowest
  <1>4. N \in Nat /\ N <= mK + mO
    <2>1. Cardinality(K) + Cardinality(O) \in Nat
      BY <1>1
    <2>2. N = IF In <= Cardinality(K) + Cardinality(O) THEN In ELSE Cardinality(K) + Cardinality(O)
      BY <1>1, <2>1, MinOfTwo
    <2> QED
      BY <1>1, <2>2
  <1> HIDE DEF mK, mO, tK, tO, N
  <1>5. q = SubSeq(tK \o tO, 1, N)
    BY DEF Lowest, tK, tO, N
  <1>6. tK \in Seq(Nat) /\ tO \in Seq(Nat) /\ Len(tK) = mK /\ Len(tO) = mO
    <2>1. tK \in [1..mK -> Nat] /\ tO \in [1..mO -> Nat]
      BY <1>2
    <2>2. tK \in Seq(Nat) /\ Len(tK) = mK
      BY <1>2, <2>1
    <2>3. tO \in Seq(Nat) /\ Len(tO) = mO
      BY <1>2, <2>1
    <2> QED
      BY <2>2, <2>3
  <1>7. Len(tK \o tO) = mK + mO /\ tK \o tO \in Seq(Nat)
        /\ \A j \in 1..(mK + mO) : (tK \o tO)[j] = IF j <= mK THEN tK[j] ELSE tO[j - mK]
    <2>1. tK \o tO \in Seq(Nat) /\ Len(tK \o tO) = mK + mO
      BY <1>6
    <2>2. \A j \in 1..(Len(tK) + Len(tO)) :
            (tK \o tO)[j] = IF j <= Len(tK) THEN tK[j] ELSE tO[j - Len(tK)]
      BY <1>6
    <2> QED
      BY <1>6, <2>1, <2>2
  <1>8. DOMAIN q = 1..N /\ \A j \in 1..N : q[j] = (tK \o tO)[j]
    BY <1>2, <1>4, <1>5, <1>7
  <1>9. ASSUME NEW j \in 1..N, NEW k \in 1..N, j < k PROVE q[j] < q[k]
    <2>0. j \in 1..(mK + mO) /\ k \in 1..(mK + mO) /\ j \in Nat /\ k \in Nat
      BY <1>2, <1>4
    <2>1. /\ q[j] = IF j <= mK THEN tK[j] ELSE tO[j - mK]
          /\ q[k] = IF k <= mK THEN tK[k] ELSE tO[k - mK]
      BY <1>7, <1>8, <2>0
    <2>2. CASE k <= mK
      <3>1. j \in 1..mK /\ k \in 1..mK /\ j <= mK
        BY <1>2, <1>9, <2>0, <2>2
      <3>2. tK[j] < tK[k]
        BY <1>3, <1>9, <3>1
      <3> QED
        BY <2>1, <2>2, <3>1, <3>2
    <2>3. CASE j > mK
      <3>1. j - mK \in 1..mO /\ k - mK \in 1..mO /\ j - mK < k - mK /\ ~(j <= mK) /\ ~(k <= mK)
        BY <1>2, <1>9, <2>0, <2>3
      <3>2. tO[j - mK] < tO[k - mK]
        BY <1>3, <3>1
      <3> QED
        BY <2>1, <3>1, <3>2
    <2>4. CASE j <= mK /\ ~(k <= mK)
      <3>1. j \in 1..mK /\ k - mK \in 1..mO
        BY <1>2, <2>0, <2>4
      <3>2. tK[j] \in K /\ tO[k - mK] \in O
        BY <1>2, <3>1
      <3>3. tK[j] < tO[k - mK]
        BY <3>2
      <3> QED
        BY <2>1, <2>4, <3>3
    <2> QED
      BY <1>2, <2>0, <2>2, <2>3, <2>4
  <1>10. \A j \in 1..N : q[j] \in Nat
    <2> SUFFICES ASSUME NEW j \in 1..N PROVE q[j] \in Nat
      OBVIOUS
    <2>1. j \in 1..Len(tK \o tO)
      BY <1>2, <1>4, <1>7
    <2>2. (tK \o tO)[j] \in Nat
      BY <1>7, <2>1
    <2> QED
      BY <1>8, <2>2
  <1> HIDE DEF q
  <1>11. ASSUME NEW j \in 1..N, NEW k \in 1..N, q[j] = q[k] PROVE j = k
    <2>1. j \in Nat /\ k \in Nat /\ q[j] \in Nat
      BY <1>4, <1>10
    <2>2. ~(j < k)
      BY <1>9, <1>11, <2>1
    <2>3. ~(k < j)
      BY <1>9, <1>11, <2>1
    <2> QED
      BY <2>1, <2>2, <2>3
  <1> QED
    BY <1>8, <1>11 DEF IsInjective, q

\* A fragment that starts behind the state.
LEMMA ContinuingFragment ==
  ASSUME LedgerInv, NEW s \in 0..Len(ledger), NEW v \in s..Len(ledger)
  PROVE  LET f == Fragment(s, v)
         IN  /\ f \in Fragments /\ root_view(s, f) = v /\ v \in 0..Len(ledger)
             /\ (1..s) \cup f = 1..v
             /\ fallback_delta_index(s, f) = Position(v + 1)
             /\ \A k \in Notes(1..s), n \in Notes(f) : k < n
  <1> DEFINE f == Fragment(s, v)
  <1>1. Len(ledger) \in Nat /\ s \in Nat /\ v \in Nat /\ s <= v /\ v \in 0..Len(ledger)
    BY DEF LedgerInv
  <1>2. f = (s + 1)..v
    BY DEF Fragment
  <1>3. f \in Fragments
    BY <1>1 DEF Fragments
  <1>4. (1..s) \cup f = 1..v
    BY <1>1, <1>2
  <1>9. f = {} => v = s
    <2> SUFFICES ASSUME v # s PROVE v \in f
      OBVIOUS
    <2>1. s + 1 <= v
      BY <1>1
    <2> QED
      BY <1>1, <1>2, <2>1
  <1>5. f # {} => Min(f) = s + 1 /\ Max(f) = v /\ v \in f
    <2> SUFFICES ASSUME f # {} PROVE Min(f) = s + 1 /\ Max(f) = v /\ v \in f
      OBVIOUS
    <2>1. f \in SUBSET Nat /\ s + 1 \in f /\ v \in f
      BY <1>1, <1>2
    <2>2. \A k \in f : s + 1 <= k /\ k <= v
      BY <1>1, <1>2
    <2>3. Max(f) = v
      <3> HIDE DEF f
      <3> QED
        BY <2>1, <2>2, MaxIs
    <2>4. Min(f) \in f /\ \A k \in f : Min(f) <= k
      <3> HIDE DEF f
      <3> QED
        BY <2>1, MinIsLeast
    <2>5. Min(f) \in Nat /\ Min(f) <= s + 1 /\ s + 1 <= Min(f)
      <3> HIDE DEF f
      <3>1. Min(f) \in Nat
        BY <2>1, <2>4, Zenon
      <3> QED
        BY <2>1, <2>2, <2>4, <3>1, Zenon
    <2>6. Min(f) = s + 1
      BY <1>1, <2>5
    <2> QED
      BY <2>1, <2>3, <2>6
  <1>6. root_view(s, f) = v
    <2>1. CASE f = {}
      <3>1. v = s
        BY <1>9, <2>1
      <3>2. {s} \cup f = {s}
        BY <2>1
      <3>3. {s} \in SUBSET Nat /\ s \in {s} /\ \A n \in {s} : n <= s
        BY <1>1
      <3>4. Max({s}) = s
        BY <3>3, MaxIs
      <3> HIDE DEF f
      <3> QED
        BY <2>1, <3>1, <3>2, <3>4 DEF root_view
    <2>2. CASE f # {}
      <3>1. {s} \cup f \in SUBSET Nat /\ v \in {s} \cup f /\ \A n \in {s} \cup f : n <= v
        <4>1. v \in f
          BY <1>5, <2>2
        <4> QED
          BY <1>1, <1>2, <4>1
      <3>2. Max({s} \cup f) = v
        <4> HIDE DEF f
        <4> QED
          BY <3>1, MaxIs
      <3>3. Min(f) = s + 1 /\ ~(Min(f) > s + 1)
        <4>1. Min(f) = s + 1
          BY <1>5, <2>2
        <4> HIDE DEF f
        <4> QED
          BY <1>1, <4>1
      <3> HIDE DEF f
      <3> QED
        BY <3>2, <3>3 DEF root_view
    <2> QED
      BY <2>1, <2>2
  <1>7. fallback_delta_index(s, f) = Position(v + 1)
    <2>1. CASE f = {}
      <3>1. v = s
        BY <1>9, <2>1
      <3> HIDE DEF f
      <3> QED
        BY <1>3, <2>1, <3>1, FallbackIndex
    <2>2. CASE f # {}
      <3>1. Max(f) = v
        BY <1>5, <2>2
      <3> HIDE DEF f
      <3> QED
        BY <1>3, <2>2, <3>1, FallbackIndex
    <2> QED
      BY <2>1, <2>2
  <1>8. ASSUME NEW k \in Notes(1..s), NEW n \in Notes(f) PROVE k < n
    <2>1. f \in SUBSET (1..Len(ledger))
      BY <1>1, <1>2
    <2>2. k \in Nat /\ k < Position(s + 1) /\ Position(s + 1) \in Nat
      BY <1>1, GroupsInLedger, NotesBounded
    <2>3. n \in Nat /\ GroupOf(n) \in f /\ Position(GroupOf(n)) < n
      BY <2>1, NotesWhere
    <2>4. GroupOf(n) \in Nat \ {0} /\ s + 1 <= GroupOf(n) /\ s + 1 \in Nat \ {0}
      BY <1>1, <1>2, <2>3
    <2>5. Position(GroupOf(n)) \in Nat /\ Position(s + 1) <= Position(GroupOf(n))
      BY <2>4, PositionsGrow, PositionType
    <2> QED
      BY <2>2, <2>3, <2>5
  <1> QED
    BY <1>1, <1>3, <1>4, <1>6, <1>7, <1>8

\* With it, create_tx takes no note twice.
LEMMA InNotesDistinct ==
  ASSUME LedgerInv, NEW s \in 0..Len(ledger), NEW v \in s..Len(ledger)
  PROVE  IsInjective(in_notes(s, Fragment(s, v)))
  <1> DEFINE f == Fragment(s, v)
             A == Notes(1..s)
             F == Notes(f)
             e == earliest_usable_index_optimistic(s, f)
             latest == latest_note_index(s)
             K == {n \in A : e <= n /\ n <= latest}
             O == {n \in F : e <= n}
  <1>1. f \in Fragments /\ \A k \in A, n \in F : k < n
    BY ContinuingFragment
  <1>2. A \in SUBSET Nat /\ IsFiniteSet(A) /\ F \in SUBSET Nat /\ IsFiniteSet(F)
    <2> HIDE DEF f
    <2> QED
      BY <1>1, NotesOfStateAndFragment
  <1>3. in_notes(s, f) = Lowest(K, O)
    BY DEF in_notes, Lowest
  <1> HIDE DEF A, F, e, latest
  <1>4. K \in SUBSET Nat /\ IsFiniteSet(K) /\ O \in SUBSET Nat /\ IsFiniteSet(O)
    BY <1>2, FS_Subset
  <1>5. \A k \in K, n \in O : k < n
    BY <1>1
  <1> HIDE DEF K, O, f
  <1>6. IsInjective(Lowest(K, O))
    BY <1>4, <1>5, LowestInjective
  <1> QED
    BY <1>3, <1>6 DEF f

\* The account of a group marks no note as spent that does not exist there.
LEMMA AccountFollowsNotes ==
  ASSUME HistoryInv, NEW g \in 1..Len(ledger), IsOwn(g), NEW v \in g..Len(ledger)
  PROVE  ledger[g].account.i = 0 \/ \E n \in Notes(1..v) : ledger[g].account.i = n + 1
  <1>1. LedgerInv /\ Len(ledger) \in Nat /\ g \in Nat
    BY DEF HistoryInv, LedgerInv
  <1>2. /\ ledger[g] \in Tx /\ Made(ledger[g]) /\ ledger[g].view \in 0..(g - 1)
        /\ ledger[g].view \in 0..Len(ledger)
    BY OwnGroup
  <1>3. v \in ledger[g].view..Len(ledger)
    BY <1>1, <1>2
  <1>4. Notes(1..ledger[g].view) \subseteq Notes(1..v)
    BY <1>1, <1>2, <1>3, IndexBounded
  <1>5. \/ ledger[g].account.i = 0
        \/ \E n \in Notes(1..ledger[g].view) : ledger[g].account.i = n + 1
    BY <1>2 DEF Made, IndexFollowsNote
  <1> QED
    BY <1>4, <1>5

\* The account that create_tx takes is known, and its index is not above the new
\* one: with no note to take the new one is behind all notes.
LEMMA IndexDoesNotFall ==
  ASSUME HistoryInv, NEW s \in 0..Len(ledger), NEW v \in s..Len(ledger)
  PROVE  LET f == Fragment(s, v)
         IN  /\ in_account_index(s, f) = None \/ in_account_index(s, f) \in Accounts(1..v)
             /\ in_account(s, f).i <= spend_interval_index(s, f, in_notes(s, f))
  <1> DEFINE f == Fragment(s, v)
             a == in_account_index(s, f)
             i == in_account(s, f).i
             q == in_notes(s, f)
             latest == latest_note_index_optimistic(s, f)
             new == spend_interval_index(s, f, q)
             all == Notes(1..s) \cup Notes(f)
  <1>1. LedgerInv /\ Len(ledger) \in Nat /\ s \in Nat /\ v \in Nat /\ v \in 0..Len(ledger)
    BY DEF HistoryInv, LedgerInv
  <1>2. /\ f \in Fragments /\ root_view(s, f) = v /\ (1..s) \cup f = 1..v
        /\ \A k \in Notes(1..s), n \in Notes(f) : k < n
    BY <1>1, ContinuingFragment
  <1>3. IsInjective(q)
    BY <1>1, InNotesDistinct
  <1> HIDE DEF f
  <1>4. a = None \/ a \in Accounts(1..v)
    <2>1. CASE Accounts(f) = {}
      <3>1. a = latest_account_index(s)
        BY <1>1, <1>2, <2>1, InAccount
      <3>2. a = None \/ a \in Accounts(1..s)
        BY <1>1, <3>1, LatestAccount
      <3>3. Accounts(1..s) \subseteq Accounts((1..s) \cup f)
        BY DEF Accounts
      <3> QED
        BY <1>2, <3>2, <3>3
    <2>2. CASE Accounts(f) # {}
      <3>1. a \in Accounts(f)
        BY <1>1, <1>2, <2>2, InAccount
      <3>2. Accounts(f) \subseteq Accounts((1..s) \cup f)
        BY DEF Accounts
      <3> QED
        BY <1>2, <3>1, <3>2
    <2> QED
      BY <2>1, <2>2
  <1>5. i \in Nat /\ in_account(s, f) = IF a = None THEN initial_account ELSE AccountAt(a)
    BY <1>1, <1>2, InAccount DEF Account
  <1>6. all = Notes(1..v) /\ all \in SUBSET Nat
    <2>1. /\ Notes(1..s) \in SUBSET Nat /\ Notes(f) \in SUBSET Nat
          /\ Notes(1..s) \cup Notes(f) = Notes((1..s) \cup f)
      BY <1>1, <1>2, NotesOfStateAndFragment
    <2>2. all = Notes(1..v)
      BY <1>2, <2>1
    <2>3. all \in SUBSET Nat
      BY <2>1
    <2> QED
      BY <2>2, <2>3
  <1>7. i = 0 \/ \E n \in all : i = n + 1
    <2>1. CASE a = None
      BY <1>5, <2>1 DEF initial_account
    <2>2. CASE a # None
      <3> DEFINE g == GroupOf(a)
      <3>1. a \in Accounts(1..v)
        BY <1>4, <2>2
      <3>2. g \in 1..v /\ IsOwn(g) /\ AccountAt(a) = ledger[g].account
        BY <1>1, <3>1, GroupsInLedger, AccountsWhere
      <3>3. g \in 1..Len(ledger) /\ v \in g..Len(ledger)
        BY <1>1, <3>2
      <3> HIDE DEF g
      <3>4. ledger[g].account.i = 0 \/ \E n \in Notes(1..v) : ledger[g].account.i = n + 1
        BY <3>2, <3>3, AccountFollowsNotes
      <3>5. i = ledger[g].account.i
        BY <1>5, <2>2, <3>2
      <3> QED
        BY <1>6, <3>4, <3>5
    <2> QED
      BY <2>1, <2>2
  <1>8. \A n \in all : n <= latest
    <2>1. CASE Notes(f) = {}
      BY <1>1, <1>2, <2>1, LatestNote, LatestNoteOptimistic
    <2>2. CASE Notes(f) # {}
      <3>1. PICK n \in Notes(f) : TRUE
        BY <2>2
      <3>2. \A k \in Notes(1..s) : k < n
        BY <1>2
      <3>3. latest \in Nat /\ \A m \in Notes(f) : m <= latest
        BY <1>1, <1>2, LatestNoteOptimistic
      <3>4. n \in Nat /\ n <= latest /\ \A k \in Notes(1..s) : k \in Nat
        BY <1>6, <3>3
      <3> HIDE DEF latest
      <3>5. \A k \in Notes(1..s) : k <= latest
        BY <3>2, <3>3, <3>4
      <3> QED
        BY <3>3, <3>5
    <2> QED
      BY <2>1, <2>2
  <1>9. latest \in Nat /\ \A n \in all : 0 < n
    BY <1>1, <1>2, LatestNoteOptimistic, NotesOfStateAndFragment
  <1>10. q # <<>> => Last(q) \in all /\ i <= Last(q)
    BY <1>1, <1>2, <1>3, InNotes
  <1>11. new = IF q # <<>> THEN Last(q) + 1 ELSE IF latest > 0 THEN latest + 1 ELSE 0
    BY DEF spend_interval_index
  <1> HIDE DEF i, a, q, latest, new, all
  <1>12. i <= new
    <2>1. CASE q # <<>>
      <3>1. new = Last(q) + 1 /\ Last(q) \in Nat /\ i <= Last(q)
        BY <1>6, <1>10, <1>11, <2>1
      <3> QED
        BY <1>5, <3>1
    <2>2. CASE q = <<>>
      <3>1. CASE i = 0
        BY <1>9, <1>11, <2>2, <3>1
      <3>2. CASE i # 0
        <4>1. PICK n \in all : i = n + 1
          BY <1>7, <3>2
        <4>2. n \in Nat /\ 0 < n /\ n <= latest
          BY <1>6, <1>8, <1>9
        <4>3. new = latest + 1
          BY <1>9, <1>11, <2>2, <4>2
        <4> QED
          BY <1>9, <4>1, <4>2, <4>3
      <3> QED
        BY <3>1, <3>2
    <2> QED
      BY <2>1, <2>2
  <1> QED
    BY <1>4, <1>12 DEF a, i, new, q, f

\* What create_tx finds has no negative energy: all of it lies before
\* delta_index.
LEMMA EnergyNotNegative ==
  ASSUME LedgerInv, NEW s \in 0..Len(ledger), NEW v \in s..Len(ledger),
         in_account_index(s, Fragment(s, v)) = None
           \/ in_account_index(s, Fragment(s, v)) \in Accounts(1..v)
  PROVE  Inputs(s, Fragment(s, v)).energy \in Nat
  <1> DEFINE f == Fragment(s, v)
             q == in_notes(s, f)
             m == Len(q)
             held == fallback_delta_index(s, f)
             a == in_account_index(s, f)
             index == IF a = None THEN 0 ELSE a
             b == in_account(s, f).b
             energies == [j \in 1..m |-> NoteAt(q[j]).b * (held - q[j])]
  <1>1. Len(ledger) \in Nat /\ v \in 0..Len(ledger) /\ v \in Nat /\ s \in Nat
    BY DEF LedgerInv
  <1>2. f \in Fragments /\ (1..s) \cup f = 1..v /\ held = Position(v + 1)
    BY ContinuingFragment
  <1>3. IsInjective(q)
    BY InNotesDistinct
  <1> HIDE DEF f
  <1>4. /\ q \in Seq(Notes(1..s) \cup Notes(f)) /\ q \in [1..m -> AllNotes] /\ m \in Nat
        /\ DOMAIN q = 1..m
    BY <1>2, <1>3, InNotes, InputsType
  <1>5. Notes(1..s) \cup Notes(f) = Notes(1..v)
    BY <1>2, NotesOfStateAndFragment
  <1>6. held \in Nat /\ \A n \in Notes(1..v) : n \in Nat /\ n <= held
    <2>1. /\ Position(v + 1) \in Nat
          /\ \A n \in Notes(1..v) : n \in Nat /\ n < Position(v + 1)
      BY <1>1, GroupsInLedger, NotesBounded
    <2> QED
      BY <1>2, <2>1
  <1>7. index \in Nat /\ index <= held
    <2>1. /\ Position(v + 1) \in Nat
          /\ \A c \in Accounts(1..v) : c \in Nat /\ c < Position(v + 1)
      BY <1>1, GroupsInLedger, AccountsBounded
    <2>2. a = None \/ a \in Accounts(1..v)
      BY DEF f
    <2> HIDE DEF a
    <2> QED
      BY <1>2, <2>1, <2>2
  <1>8. b \in Nat /\ in_account(s, f).e \in Nat
    BY <1>2, InAccount DEF Account
  <1> HIDE DEF q, held, a, index, b
  <1>9. ASSUME NEW j \in 1..m PROVE NoteAt(q[j]).b * (held - q[j]) \in Nat
    <2>1. q[j] \in Notes(1..v)
      BY <1>4, <1>5
    <2>2. q[j] \in AllNotes
      BY <1>4
    <2>3. NoteAt(q[j]).b \in Nat
      BY <2>2, AllNotesType
    <2>4. q[j] \in Nat /\ q[j] <= held
      BY <1>6, <2>1
    <2>5. held - q[j] \in Nat
      BY <1>6, <2>4
    <2> QED
      BY <2>3, <2>5, ProductNotNegative
  <1>10. energies \in [1..m -> Int] /\ \A j \in 1..m : energies[j] >= 0
    BY <1>9
  <1>11. Total(energies) \in Int /\ Total(energies) >= 0
    <2> HIDE DEF energies
    <2> QED
      BY <1>4, <1>10, TotalNotNegative, TotalType
  <1>12. b * (held - index) \in Nat
    <2>1. held - index \in Nat
      BY <1>6, <1>7
    <2> QED
      BY <1>8, <2>1, ProductNotNegative
  <1>13. Inputs(s, f).energy = in_account(s, f).e + b * (held - index) + Total(energies)
    BY <1>4, InputsFields DEF q, held, a, index, b
  <1> HIDE DEF energies
  <1>14. Inputs(s, f).energy \in Nat
    <2> DEFINE p == b * (held - index)
    <2>1. p \in Nat
      BY <1>12
    <2>2. Inputs(s, f).energy = in_account(s, f).e + p + Total(energies)
      BY <1>13
    <2> HIDE DEF p
    <2> QED
      BY <1>8, <1>11, <2>1, <2>2
  <1> QED
    BY <1>14 DEF f

\* The conditions of the circuit, one by one.
LEMMA InvImpliesCreatedTxsProvable ==
  ASSUME HistoryInv, synced \in 0..Len(ledger)
  PROVE  CreatedTxsProvable
  <1>1. LedgerInv
    BY DEF HistoryInv
  <1>2. ASSUME NEW v \in synced..Len(ledger), NEW request \in Requests,
               Allowed(request, Inputs(synced, Fragment(synced, v))),
               create_tx(request, Inputs(synced, Fragment(synced, v))).account.b >= 0
        PROVE  Provable(create_tx(request, Inputs(synced, Fragment(synced, v))))
    <2> DEFINE f == Fragment(synced, v)
               in == Inputs(synced, f)
               tx == create_tx(request, in)
               q == in_notes(synced, f)
               a == in_account_index(synced, f)
               i == in_account(synced, f).i
               new == spend_interval_index(synced, f, q)
    <2>1. /\ f \in Fragments /\ root_view(synced, f) = v /\ v \in 0..Len(ledger)
          /\ fallback_delta_index(synced, f) = Position(v + 1)
      BY <1>1, ContinuingFragment
    <2>2. v \in Nat /\ v # None
      BY <1>1, <2>1, GroupsInLedger, NoneAssumption
    <2>3. IsInjective(q)
      BY <1>1, InNotesDistinct
    <2>4. (a = None \/ a \in Accounts(1..v)) /\ i <= new
      BY IndexDoesNotFall
    <2>5. in.energy \in Nat
      BY <1>1, <2>4, EnergyNotNegative
    <2> HIDE DEF f
    <2>6. Range(q) = {n \in Notes(1..v) : i <= n /\ n < new}
      BY <1>1, <2>1, <2>2, <2>3, InputsTakeInterval
    <2>7. /\ Position(v + 1) \in Nat
          /\ \A n \in Notes(1..v) : n \in Nat /\ n <= Position(v + 1)
          /\ \A c \in Accounts(1..v) : c \in Nat /\ c <= Position(v + 1)
      <3>1. 1..v \in SUBSET (1..v)
        BY <1>1, <2>1, GroupsInLedger
      <3>2. /\ Position(v + 1) \in Nat
            /\ \A n \in Notes(1..v) : n \in Nat /\ n < Position(v + 1)
        BY <1>1, <2>1, <3>1, NotesBounded
      <3>3. \A c \in Accounts(1..v) : c \in Nat /\ c < Position(v + 1)
        BY <1>1, <2>1, <3>1, AccountsBounded
      <3> QED
        BY <3>2, <3>3
    <2>8. in_account(synced, f) = IF a = None THEN initial_account ELSE AccountAt(a)
      BY <1>1, <2>1, InAccount
    <2>9. /\ in.account_index = a /\ in.notes = q /\ in.i = new
          /\ in.delta_index = Position(v + 1) /\ in.view = v
      BY <2>1, InputsFields
    <2>10. /\ tx.account.i = new /\ tx.in_account = a /\ tx.in_notes = q
           /\ tx.delta_index = Position(v + 1) /\ tx.view = v
           /\ tx.account.e = in.energy + DeltaEnergy(request)
           /\ tx.account.b >= 0
      <3>1. tx.account.b >= 0
        BY <1>2 DEF f
      <3>2. /\ tx.account.i = in.i /\ tx.in_account = in.account_index
            /\ tx.in_notes = in.notes /\ tx.delta_index = in.delta_index
            /\ tx.view = in.view /\ tx.account.e = in.energy + DeltaEnergy(request)
        <4> HIDE DEF in
        <4> QED
          BY DEF create_tx
      <3> HIDE DEF tx, in, a, q, new
      <3> QED
        BY <2>9, <3>1, <3>2
    <2>11. tx.account.e >= 0
      <3>1. request \in Request
        BY RequestAssumption
      <3>2. request.energy \in Nat
        BY <3>1 DEF Request
      <3>3. request.type = "withdraw" => in.energy < 0 \/ request.energy <= in.energy
        BY <1>2 DEF Allowed, f
      <3>4. DeltaEnergy(request) = IF request.type = "withdraw" THEN -request.energy ELSE 0
        BY DEF DeltaEnergy
      <3> DEFINE energy == in.energy
      <3>5. energy \in Nat /\ tx.account.e = energy + DeltaEnergy(request)
        BY <2>5, <2>10 DEF f
      <3>6. request.type = "withdraw" => request.energy <= energy
        BY <2>5, <3>3 DEF f
      <3> HIDE DEF energy, tx
      <3> QED
        BY <3>2, <3>4, <3>5, <3>6
    <2>12. IF tx.in_account = None THEN initial_account.i = i ELSE AccountAt(tx.in_account).i = i
      BY <2>8, <2>10
    <2> HIDE DEF tx, q, a, i, new, in
    <2>13. \A n \in Range(q) : n \in Notes(1..v) /\ i <= n /\ n < new /\ n <= Position(v + 1)
      BY <2>6, <2>7
    <2>14. a # None => a \in Accounts(1..v) /\ a <= Position(v + 1)
      BY <2>4, <2>7
    <2>15. Provable(tx)
      <3> DEFINE seen == 1..tx.view
                 input == IF tx.in_account = None THEN initial_account ELSE AccountAt(tx.in_account)
      <3>1. tx.view # None /\ (tx.in_account # None => tx.in_account \in Accounts(seen))
        BY <2>2, <2>10, <2>14
      <3>2. Range(tx.in_notes) \subseteq Notes(seen) /\ IsInjective(tx.in_notes)
        BY <2>3, <2>10, <2>13
      <3>3. input.i = i
        BY <2>12
      <3>4. /\ \A n \in Range(tx.in_notes) : input.i <= n /\ n < tx.account.i
            /\ input.i <= tx.account.i
        <4> HIDE DEF input
        <4> QED
          BY <2>4, <2>10, <2>13, <3>3
      <3>5. \A n \in Range(tx.in_notes) \cup (IF tx.in_account = None THEN {} ELSE {tx.in_account}) :
              n <= tx.delta_index
        BY <2>10, <2>13, <2>14
      <3>6. tx.delta_index <= Position(tx.view + 1)
        BY <2>7, <2>10
      <3> QED
        BY <2>10, <2>11, <3>1, <3>2, <3>4, <3>5, <3>6 DEF Provable
    <2> QED
      BY <2>15 DEF tx, in, f
  <1> QED
    BY <1>2 DEF CreatedTxsProvable

-----------------------------------------------------------------------------
(***************************************************************************)
(* Steps.  A transaction was made from a prefix of the ledger; what it     *)
(* says of the prefix is true as long as the prefix is there.              *)
(***************************************************************************)

\* A step keeps the first m groups of the ledger.
KeepsPrefix(m) ==
  /\ m \in 0..Len(ledger) /\ m <= Len(ledger')
  /\ \A k \in 1..m : ledger'[k] = ledger[k]

\* What the groups of the prefix hold stays.
LEMMA PrefixKept ==
  ASSUME LedgerInv, LedgerInv', NEW m, KeepsPrefix(m)
  PROVE  /\ \A k \in 1..m : IsOwn(k)' <=> IsOwn(k)
         /\ \A G \in SUBSET (1..m) : Notes(G)' = Notes(G) /\ Accounts(G)' = Accounts(G)
         /\ \A n \in Notes(1..m) : NoteAt(n)' = NoteAt(n)
         /\ \A a \in Accounts(1..m) : AccountAt(a)' = AccountAt(a)
         /\ \A s \in 0..m : latest_account_index(s)' = latest_account_index(s)
  <1>1. /\ m \in 0..Len(ledger) /\ m <= Len(ledger') /\ \A k \in 1..m : ledger'[k] = ledger[k]
        /\ Len(ledger) \in Nat /\ Len(ledger') \in Nat
    BY DEF KeepsPrefix, LedgerInv
  <1>2. \A k \in 1..m : IsOwn(k)' <=> IsOwn(k)
    BY <1>1 DEF IsOwn
  <1>3. ASSUME NEW G \in SUBSET (1..m) PROVE Notes(G)' = Notes(G)
    <2>1. \A k \in G : ledger'[k] = ledger[k]
      BY <1>1
    <2> QED
      BY <2>1 DEF Notes
  <1>4. ASSUME NEW G \in SUBSET (1..m) PROVE Accounts(G)' = Accounts(G)
    BY <1>2 DEF Accounts
  <1>5. ASSUME NEW n \in Notes(1..m) PROVE NoteAt(n)' = NoteAt(n)
    <2>1. GroupOf(n) \in 1..m
      BY <1>1, GroupsInLedger, NotesWhere
    <2> QED
      BY <1>1, <2>1 DEF NoteAt
  <1>6. ASSUME NEW a \in Accounts(1..m) PROVE AccountAt(a)' = AccountAt(a)
    <2>1. GroupOf(a) \in 1..m
      BY <1>1, GroupsInLedger, AccountsWhere
    <2> QED
      BY <1>1, <2>1 DEF AccountAt
  <1>7. ASSUME NEW s \in 0..m PROVE latest_account_index(s)' = latest_account_index(s)
    <2>1. 1..s \in SUBSET (1..m)
      BY <1>1
    <2>2. Accounts(1..s)' = Accounts(1..s)
      BY <1>4, <2>1
    <2> QED
      BY <2>2 DEF latest_account_index
  <1> QED
    BY <1>2, <1>3, <1>4, <1>5, <1>6, <1>7

\* So does the value of notes, although it is a sum over the indexes of the whole
\* tree.
LEMMA ValueKept ==
  ASSUME LedgerInv, LedgerInv', NEW m, KeepsPrefix(m), NEW S \in SUBSET Notes(1..m)
  PROVE  ValueOf(S)' = ValueOf(S)
  <1> DEFINE W == Position(m + 1)
             N == Position(Len(ledger) + 1)
             M == Position(Len(ledger') + 1)
             base == [p \in 1..W |-> IF p \in S THEN NoteAt(p).b ELSE 0]
             now == [p \in 1..N |-> IF p \in S THEN NoteAt(p).b ELSE 0]
             next == [p \in 1..M |-> IF p \in S THEN NoteAt(p)'.b ELSE 0]
  <1>1. m \in 0..Len(ledger) /\ m <= Len(ledger') /\ Len(ledger) \in Nat /\ Len(ledger') \in Nat
    BY DEF KeepsPrefix, LedgerInv
  <1>2. W \in Nat /\ N \in Nat /\ M \in Nat /\ W <= N /\ W <= M
    <2>1. /\ m + 1 \in Nat \ {0} /\ Len(ledger) + 1 \in Nat \ {0}
          /\ Len(ledger') + 1 \in Nat \ {0}
          /\ m + 1 <= Len(ledger) + 1 /\ m + 1 <= Len(ledger') + 1
      BY <1>1
    <2> QED
      BY <2>1, PositionType, PositionsGrow
  <1>3. \A n \in Notes(1..m) : n \in Nat /\ 0 < n /\ n < W /\ NoteAt(n).b \in Nat
    <2>1. \A n \in Notes(1..m) : n \in Nat /\ 0 < n /\ n < W
      BY <1>1, GroupsInLedger, NotesBounded
    <2>2. Notes(1..m) \in SUBSET AllNotes
      BY <1>1, GroupsInLedger, AllNotesType
    <2>3. \A n \in AllNotes : NoteAt(n).b \in Nat
      BY AllNotesType
    <2> QED
      BY <2>1, <2>2, <2>3
  <1>4. \A n \in Notes(1..m) : NoteAt(n)' = NoteAt(n)
    BY PrefixKept
  <1>5. ValueOf(S) = Total(now)
    BY DEF ValueOf
  <1>6. ValueOf(S)' = Total(next)
    BY DEF ValueOf
  <1> HIDE DEF W, N, M
  <1>7. /\ base \in [1..W -> Int] /\ now \in [1..N -> Int]
        /\ \A p \in 1..W : now[p] = base[p]
        /\ \A p \in 1..N : p > W => now[p] = 0
    BY <1>2, <1>3
  <1>8. \A n \in S : NoteAt(n)'.b = NoteAt(n).b /\ NoteAt(n).b \in Nat
    BY <1>3, <1>4
  <1>9. /\ next \in [1..M -> Int]
        /\ \A p \in 1..W : next[p] = base[p]
        /\ \A p \in 1..M : p > W => next[p] = 0
    BY <1>2, <1>3, <1>8
  <1> HIDE DEF base, now, next
  <1>10. Total(now) = Total(base)
    BY <1>2, <1>7, TotalExtended
  <1>11. Total(next) = Total(base)
    BY <1>2, <1>7, <1>9, TotalExtended
  <1> QED
    BY <1>5, <1>6, <1>10, <1>11

\* A transaction made from the prefix stays Made: it can still be proved and
\* still takes its interval.
LEMMA MadeKept ==
  ASSUME LedgerInv, LedgerInv', NEW m, KeepsPrefix(m),
         NEW tx \in Tx, tx.view <= m, Made(tx)
  PROVE  Made(tx)'
  <1> DEFINE v == tx.view
  <1>1. v \in Nat /\ v \in 0..m /\ 1..v \in SUBSET (1..m) /\ 1..m \in SUBSET (1..m)
        /\ 1..v \subseteq 1..m /\ m \in Nat
    BY DEF Tx, KeepsPrefix, LedgerInv
  <1>2. /\ Notes(1..v)' = Notes(1..v) /\ Accounts(1..v)' = Accounts(1..v)
        /\ Notes(1..v) \subseteq Notes(1..m) /\ Accounts(1..v) \subseteq Accounts(1..m)
    <2>1. Notes(1..v) \subseteq Notes(1..m) /\ Accounts(1..v) \subseteq Accounts(1..m)
      BY <1>1 DEF Notes, Accounts
    <2> QED
      BY <1>1, <2>1, PrefixKept
  <1>3. tx.in_account # None => tx.in_account \in Accounts(1..v)
    BY DEF Made, Provable
  <1>4. InputOf(tx)' = InputOf(tx)
    <2>1. CASE tx.in_account = None
      BY <2>1 DEF InputOf
    <2>2. CASE tx.in_account # None
      <3>1. AccountAt(tx.in_account)' = AccountAt(tx.in_account)
        BY <1>2, <1>3, <2>2, PrefixKept
      <3> QED
        BY <3>1 DEF InputOf
    <2> QED
      BY <2>1, <2>2
  <1>5. Range(tx.in_notes) \in SUBSET Notes(1..m)
    BY <1>2 DEF Made, Provable
  <1>6. ValueOf(Range(tx.in_notes))' = ValueOf(Range(tx.in_notes))
    BY <1>5, ValueKept
  <1>7. Provable(tx)'
    <2>1. Provable(tx)
      BY DEF Made
    <2>2. (IF tx.in_account = None THEN initial_account ELSE AccountAt(tx.in_account))'
            = IF tx.in_account = None THEN initial_account ELSE AccountAt(tx.in_account)
      BY <1>4 DEF InputOf
    <2> QED
      BY <1>2, <2>1, <2>2 DEF Provable
  <1>8. SpendsItsInterval(tx)' /\ IndexFollowsNote(tx)'
    BY <1>2, <1>4 DEF Made, SpendsItsInterval, IndexFollowsNote
  <1>9. Balanced(tx)'
    BY <1>4, <1>6 DEF Made, Balanced
  <1> QED
    BY <1>7, <1>8, <1>9 DEF Made

\* The latest account is that of the last own group.
LEMMA LatestIs ==
  ASSUME LedgerInv, NEW s \in 0..Len(ledger), NEW g \in 1..s, IsOwn(g),
         \A k \in 1..s : IsOwn(k) => k <= g
  PROVE  latest_account_index(s) = Position(g)
  <1>1. s \in Nat /\ g \in Nat \ {0}
    BY DEF LedgerInv
  <1>2. Position(g) \in Accounts(1..s)
    BY AccountsIn
  <1>3. Accounts(1..s) \in SUBSET Nat
    BY GroupsInLedger, AccountsBounded
  <1>4. ASSUME NEW a \in Accounts(1..s) PROVE a <= Position(g)
    <2>1. GroupOf(a) \in 1..s /\ IsOwn(GroupOf(a)) /\ a = Position(GroupOf(a))
      BY GroupsInLedger, AccountsWhere
    <2>2. GroupOf(a) \in Nat \ {0} /\ GroupOf(a) <= g
      BY <1>1, <2>1
    <2> QED
      BY <1>1, <2>1, <2>2, PositionsGrow
  <1>5. Max(Accounts(1..s)) = Position(g)
    BY <1>2, <1>3, <1>4, MaxIs
  <1> QED
    BY <1>2, <1>5 DEF latest_account_index

\* A transaction whose account no transaction of the ledger has taken takes the
\* latest account: any later own group, the first one of them, would have taken
\* it.
LEMMA NotNullified ==
  ASSUME Inv, NEW tx \in created, ~Nullified(tx)
  PROVE  tx.in_account = latest_account_index(Len(ledger))
  <1> DEFINE a == tx.in_account
             N == Len(ledger)
             base == IF a = None THEN 0 ELSE GroupOf(a)
             later == {k \in 1..N : IsOwn(k) /\ base < k}
  <1>1. LedgerInv /\ HistoryInv /\ N \in Nat /\ DOMAIN ledger = 1..N
    BY InvHistory DEF LedgerInv
  <1>2. tx \in Tx /\ tx.view \in 0..N /\ Made(tx)
    <2>1. tx \in Tx /\ tx.view <= N
      BY DEF Inv, TypeInv
    <2> QED
      BY <1>1, <2>1 DEF Tx, Inv, MadeInv
  <1>3. a # None => a \in Accounts(1..N)
    <2>1. a # None => a \in Accounts(1..tx.view)
      BY <1>2 DEF Made, Provable
    <2>2. 1..tx.view \subseteq 1..N
      BY <1>1, <1>2
    <2> QED
      BY <2>1, <2>2 DEF Accounts
  <1>4. a # None => base \in 1..N /\ IsOwn(base) /\ a = Position(base)
    BY <1>1, <1>3, GroupsInLedger, AccountsWhere
  <1>5. base \in 0..N /\ (base = 0 <=> a = None)
    BY <1>1, <1>4
  <1> HIDE DEF a, base
  <1>6. ASSUME NEW s \in 0..N, base <= s, \A k \in 1..s : IsOwn(k) => k <= base
        PROVE  latest_account_index(s) = a
    <2>1. CASE a = None
      <3>1. \A k \in 1..s : ~IsOwn(k)
        BY <1>1, <1>5, <1>6, <2>1
      <3>2. Accounts(1..s) = {}
        BY <3>1 DEF Accounts
      <3> QED
        BY <2>1, <3>2 DEF latest_account_index
    <2>2. CASE a # None
      <3>1. base \in 1..s /\ IsOwn(base) /\ a = Position(base)
        BY <1>1, <1>4, <1>6, <2>2
      <3> QED
        BY <1>1, <1>6, <3>1, LatestIs
    <2> QED
      BY <2>1, <2>2
  <1>7. later = {}
    <2> SUFFICES ASSUME later # {} PROVE FALSE
      OBVIOUS
    <2> DEFINE k == Min(later)
    <2>1. later \in SUBSET Nat
      BY <1>1
    <2>2. k \in later /\ \A l \in later : k <= l
      <3> HIDE DEF later
      <3> QED
        BY <2>1, MinIsLeast
    <2> HIDE DEF k
    <2>3. k \in 1..N /\ IsOwn(k) /\ base < k /\ k \in Nat /\ k - 1 \in 0..N /\ base <= k - 1
      BY <1>1, <1>5, <2>2
    <2>4. ASSUME NEW l \in 1..(k - 1), IsOwn(l) PROVE l <= base
      <3>1. l \in 1..N /\ l < k /\ l \in Nat
        BY <1>1, <2>3
      <3>2. l \notin later
        BY <2>2, <2>3, <3>1
      <3> QED
        BY <1>5, <2>4, <3>1, <3>2
    <2>5. latest_account_index(k - 1) = a
      BY <1>6, <2>3, <2>4
    <2>6. ledger[k].in_account = a
      BY <1>1, <2>3, <2>5, OwnGroup
    <2> QED
      BY <1>1, <2>3, <2>6 DEF Nullified, a
  <1>8. N \in 0..N /\ base <= N /\ \A k \in 1..N : IsOwn(k) => k <= base
    BY <1>1, <1>5, <1>7
  <1>9. latest_account_index(N) = a
    <2> HIDE DEF N, later
    <2> QED
      BY <1>6, <1>8
  <1> QED
    BY <1>9 DEF a

\* A step that keeps a prefix, drops what saw more, and adds at most one
\* transaction that is not nullified.
LEMMA HistoryStep ==
  ASSUME Inv, LedgerInv', NEW m, KeepsPrefix(m),
         \A tx \in created' : tx \in Tx /\ tx.view <= m /\ Made(tx),
         \/ Len(ledger') = m
         \/ /\ Len(ledger') = m + 1 /\ m = Len(ledger)
            /\ IsOwn(m + 1)' => \E tx \in created : ledger'[m + 1] = tx /\ ~Nullified(tx)
  PROVE  MadeInv' /\ ChainInv'
  <1>1. /\ LedgerInv /\ HistoryInv /\ Len(ledger) \in Nat
        /\ created \subseteq Tx /\ \A tx \in created : tx.view <= Len(ledger) /\ Made(tx)
    BY InvHistory DEF TypeInv, Inv, MadeInv
  <1>2. m \in 0..Len(ledger) /\ m \in Nat /\ \A k \in 1..m : ledger'[k] = ledger[k]
    BY <1>1 DEF KeepsPrefix
  <1>3. ASSUME NEW tx \in created' PROVE Made(tx)'
    <2>1. tx \in Tx /\ tx.view <= m /\ Made(tx)
      BY <1>3
    <2> QED
      BY <1>1, <2>1, MadeKept
  <1>4. ASSUME NEW k \in OwnGroups', NEW tx, tx = ledger'[k]
        PROVE  Made(tx)' /\ tx.view < k /\ tx.in_account = latest_account_index(k - 1)'
    <2>1. k \in 1..Len(ledger') /\ IsOwn(k)'
      <3>1. DOMAIN ledger' = 1..Len(ledger')
        BY DEF LedgerInv
      <3> QED
        BY <3>1 DEF OwnGroups
    <2>2. CASE k \in 1..m
      <3>1. k \in 1..Len(ledger) /\ IsOwn(k) /\ tx = ledger[k] /\ k - 1 \in 0..m /\ k \in Nat
        BY <1>1, <1>2, <1>4, <2>1, <2>2, PrefixKept
      <3>2. /\ tx \in Tx /\ tx.view \in 0..(k - 1)
            /\ tx.in_account = latest_account_index(k - 1) /\ k \in OwnGroups
        BY <1>1, <3>1, OwnGroup
      <3>3. Made(tx)
        BY <3>1, <3>2 DEF Inv, MadeInv
      <3>4. tx.view <= m /\ tx.view < k
        BY <1>2, <2>2, <3>2
      <3>5. latest_account_index(k - 1)' = latest_account_index(k - 1)
        BY <1>1, <3>1, PrefixKept
      <3> QED
        BY <1>1, <3>2, <3>3, <3>4, <3>5, MadeKept
    <2>3. CASE k \notin 1..m
      <3>1. Len(ledger') = m + 1 /\ m = Len(ledger) /\ k = m + 1
        BY <1>2, <2>1, <2>3
      <3>2. PICK t \in created : ledger'[m + 1] = t /\ ~Nullified(t)
        BY <2>1, <3>1
      <3>3. tx = t
        BY <1>4, <3>1, <3>2
      <3>4. tx \in created /\ tx \in Tx /\ tx.view <= m /\ Made(tx) /\ ~Nullified(tx)
        BY <1>1, <3>1, <3>2, <3>3
      <3>5. tx.view < k
        BY <1>2, <3>1, <3>4 DEF Tx
      <3>6. tx.in_account = latest_account_index(Len(ledger))
        BY <3>4, NotNullified
      <3>7. k - 1 = m /\ m \in 0..m
        BY <1>2, <3>1
      <3>8. latest_account_index(m)' = latest_account_index(m)
        BY <1>1, <3>7, PrefixKept
      <3>9. tx.in_account = latest_account_index(k - 1)'
        BY <3>1, <3>6, <3>7, <3>8
      <3> QED
        BY <1>1, <3>4, <3>5, <3>9, MadeKept
    <2> QED
      BY <2>2, <2>3
  <1>5. MadeInv'
    BY <1>3, <1>4 DEF MadeInv
  <1>6. ChainInv'
    BY <1>4 DEF ChainInv
  <1> QED
    BY <1>5, <1>6

\* The invariant holds in the empty wallet.
LEMMA InitInv == Init => Inv
  <1> SUFFICES ASSUME Init PROVE Inv
    OBVIOUS
  <1>1. ledger = <<>> /\ synced = 0 /\ created = {} /\ Len(ledger) = 0 /\ OwnGroups = {}
    BY DEF Init, OwnGroups
  <1>2. ledger \in Seq(Entry)
    BY <1>1
  <1>3. LedgerInv
    BY <1>1, <1>2 DEF LedgerInv
  <1>4. TypeInv
    BY <1>1, <1>3, BoundsAssumption DEF TypeInv
  <1>5. MadeInv /\ ChainInv
    BY <1>1 DEF MadeInv, ChainInv
  <1> QED
    BY <1>4, <1>5 DEF Inv

\* A ledger with one more entry.
LEMMA LedgerExtended ==
  ASSUME Inv, NEW e \in Entry, Len(e.notes) <= Out, ledger' = Append(ledger, e)
  PROVE  /\ LedgerInv' /\ KeepsPrefix(Len(ledger)) /\ Len(ledger') = Len(ledger) + 1
         /\ ledger'[Len(ledger) + 1] = e
  <1>1. /\ ledger \in Seq(Entry) /\ Len(ledger) \in Nat
        /\ \A k \in 1..Len(ledger) : Len(ledger[k].notes) <= Out
    BY InvHistory DEF LedgerInv
  <1>2. ledger' \in Seq(Entry) /\ Len(ledger') = Len(ledger) + 1
    BY <1>1
  <1>3. /\ \A k \in 1..Len(ledger) : ledger'[k] = ledger[k]
        /\ ledger'[Len(ledger) + 1] = e
    BY <1>1
  <1>4. \A k \in 1..(Len(ledger) + 1) : k \in 1..Len(ledger) \/ k = Len(ledger) + 1
    BY <1>1
  <1>5. LedgerInv'
    BY <1>1, <1>2, <1>3, <1>4 DEF LedgerInv
  <1>6. KeepsPrefix(Len(ledger))
    BY <1>1, <1>2, <1>3 DEF KeepsPrefix
  <1> QED
    BY <1>2, <1>3, <1>5, <1>6

\* A ledger that stays.
LEMMA LedgerSame ==
  ASSUME Inv, ledger' = ledger
  PROVE  LedgerInv' /\ KeepsPrefix(Len(ledger)) /\ Len(ledger') = Len(ledger)
  BY InvHistory DEF LedgerInv, KeepsPrefix

\* The transactions that were made.
LEMMA CreatedKept ==
  ASSUME Inv
  PROVE  \A tx \in created : tx \in Tx /\ tx.view <= Len(ledger) /\ Made(tx)
  BY DEF Inv, TypeInv, MadeInv

\* Every step keeps the invariant: transactions of others, create_tx, submission,
\* synchronisation and rollbacks of any depth.
LEMMA NextInv ==
  ASSUME Inv, [Next]_vars
  PROVE  Inv'
  <1>1. /\ LedgerInv /\ HistoryInv /\ synced \in 0..Len(ledger) /\ Len(ledger) \in Nat
        /\ Len(ledger) <= MaxTxs /\ MaxTxs \in Nat /\ created \subseteq Tx
    BY InvHistory, BoundsAssumption DEF TypeInv
  <1>2. \A tx \in created : tx \in Tx /\ tx.view <= Len(ledger) /\ Made(tx)
    BY CreatedKept
  <1>3. ASSUME NEW notes \in ForeignTxs, Receive(notes) PROVE Inv'
    <2> DEFINE e == [account |-> None, notes |-> notes]
               N == Len(ledger)
    <2>1. e \in Entry /\ Len(e.notes) <= Out /\ e.account = None
      BY ForeignAssumption DEF Entry, ForeignTx
    <2>2. ledger' = Append(ledger, e) /\ synced' = synced /\ created' = created /\ N < MaxTxs
      BY <1>3 DEF Receive
    <2> HIDE DEF e
    <2>3. LedgerInv' /\ KeepsPrefix(N) /\ Len(ledger') = N + 1 /\ ledger'[N + 1] = e
      BY <2>1, <2>2, LedgerExtended
    <2>4. PICK m \in Nat : m = N
      BY <1>1
    <2>5. MadeInv' /\ ChainInv'
      <3>1. LedgerInv' /\ KeepsPrefix(m) /\ Len(ledger') = m + 1 /\ m = Len(ledger)
        BY <2>3, <2>4
      <3>2. ~IsOwn(m + 1)'
        BY <2>1, <2>3, <2>4 DEF IsOwn
      <3> QED
        BY <1>2, <2>2, <2>4, <3>1, <3>2, HistoryStep
    <2>6. TypeInv'
      <3>1. Len(ledger') <= MaxTxs /\ synced' \in 0..Len(ledger')
        BY <1>1, <2>2, <2>3
      <3>2. \A tx \in created' : tx.view <= Len(ledger')
        <4> SUFFICES ASSUME NEW tx \in created' PROVE tx.view <= Len(ledger')
          OBVIOUS
        <4>1. tx.view \in Nat /\ tx.view <= N
          BY <1>2, <2>2 DEF Tx
        <4> QED
          BY <1>1, <2>3, <4>1
      <3> QED
        BY <1>1, <2>2, <2>3, <3>1, <3>2 DEF TypeInv
    <2> QED
      BY <2>5, <2>6 DEF Inv
  <1>4. ASSUME CreateTx PROVE Inv'
    <2>1. PICK f \in Fragments, request \in Requests :
            LET in == Inputs(synced, f)
                tx == create_tx(request, in)
            IN  Allowed(request, in) /\ Provable(tx) /\ created' = created \cup {tx}
      BY <1>4 DEF CreateTx
    <2> DEFINE tx == create_tx(request, Inputs(synced, f))
    <2>2. ledger' = ledger /\ synced' = synced
      BY <1>4 DEF CreateTx
    <2>3. created' = created \cup {tx}
      BY <2>1
    <2>4. tx \in Tx /\ tx.view \in 0..Len(ledger) /\ Made(tx)
      BY <1>1, <2>1, CreatedTx
    <2> HIDE DEF tx
    <2>5. LedgerInv' /\ KeepsPrefix(Len(ledger)) /\ Len(ledger') = Len(ledger)
      BY <2>2, LedgerSame
    <2>6. \A t \in created' : t \in Tx /\ t.view <= Len(ledger) /\ Made(t)
      BY <1>1, <1>2, <2>3, <2>4
    <2>7. MadeInv' /\ ChainInv'
      BY <2>5, <2>6, HistoryStep
    <2>8. TypeInv'
      BY <1>1, <2>2, <2>5, <2>6 DEF TypeInv
    <2> QED
      BY <2>7, <2>8 DEF Inv
  <1>5. ASSUME NEW tx \in created, Submit(tx) PROVE Inv'
    <2> DEFINE N == Len(ledger)
    <2>1. created' = created \ {tx} /\ synced' = synced
      BY <1>5 DEF Submit
    <2>2. \A t \in created' : t \in Tx /\ t.view <= N /\ Made(t)
      BY <1>2, <2>1
    <2>3. CASE Nullified(tx)
      <3>1. ledger' = ledger
        BY <1>5, <2>3 DEF Submit
      <3>2. LedgerInv' /\ KeepsPrefix(N) /\ Len(ledger') = N
        BY <3>1, LedgerSame
      <3>3. MadeInv' /\ ChainInv'
        BY <2>2, <3>2, HistoryStep
      <3>4. TypeInv'
        BY <1>1, <2>1, <2>2, <3>1, <3>2 DEF TypeInv
      <3> QED
        BY <3>3, <3>4 DEF Inv
    <2>4. CASE ~Nullified(tx)
      <3>1. ledger' = Append(ledger, tx) /\ N < MaxTxs
        BY <1>5, <2>4 DEF Submit
      <3>2. tx \in Entry /\ Len(tx.notes) <= Out
        BY <1>2 DEF Entry, Made
      <3>3. LedgerInv' /\ KeepsPrefix(N) /\ Len(ledger') = N + 1 /\ ledger'[N + 1] = tx
        BY <3>1, <3>2, LedgerExtended
      <3>4. MadeInv' /\ ChainInv'
        BY <2>2, <2>4, <3>3, HistoryStep
      <3>5. TypeInv'
        <4>1. Len(ledger') <= MaxTxs /\ synced' \in 0..Len(ledger')
          BY <1>1, <2>1, <3>1, <3>3
        <4>2. \A t \in created' : t.view <= Len(ledger')
          <5> SUFFICES ASSUME NEW t \in created' PROVE t.view <= Len(ledger')
            OBVIOUS
          <5>1. t.view \in Nat /\ t.view <= N
            BY <2>2 DEF Tx
          <5> QED
            BY <1>1, <3>3, <5>1
        <4> QED
          BY <1>1, <2>1, <3>3, <4>1, <4>2 DEF TypeInv
      <3> QED
        BY <3>4, <3>5 DEF Inv
    <2> QED
      BY <2>3, <2>4
  <1>6. ASSUME NEW s \in 0..Len(ledger), Sync(s) PROVE Inv'
    <2>1. ledger' = ledger /\ created' = created /\ synced' = s
      BY <1>6 DEF Sync
    <2>2. LedgerInv' /\ KeepsPrefix(Len(ledger)) /\ Len(ledger') = Len(ledger)
      BY <2>1, LedgerSame
    <2>3. MadeInv' /\ ChainInv'
      BY <1>2, <2>1, <2>2, HistoryStep
    <2>4. TypeInv'
      BY <1>1, <1>2, <2>1, <2>2 DEF TypeInv
    <2> QED
      BY <2>3, <2>4 DEF Inv
  <1>7. ASSUME NEW k \in 0..MaxTxs, Drop(k) PROVE Inv'
    <2>1. /\ k < Len(ledger) /\ ledger' = SubSeq(ledger, 1, k) /\ synced' = Min({synced, k})
          /\ created' = {tx \in created : tx.view <= k}
      BY <1>7 DEF Drop
    <2>2. k \in Nat /\ k \in 0..Len(ledger)
      BY <1>1, <2>1
    <2>3. /\ ledger' \in Seq(Entry) /\ Len(ledger') = k
          /\ \A j \in 1..k : ledger'[j] = ledger[j]
      <3>1. ledger \in Seq(Entry)
        BY <1>1 DEF LedgerInv
      <3> QED
        BY <1>1, <2>1, <2>2, <3>1
    <2>4. LedgerInv'
      <3>1. \A j \in 1..k : j \in 1..Len(ledger)
        BY <1>1, <2>2
      <3> QED
        BY <1>1, <2>3, <3>1 DEF LedgerInv
    <2>5. KeepsPrefix(k)
      BY <2>2, <2>3 DEF KeepsPrefix
    <2>6. \A tx \in created' : tx \in Tx /\ tx.view <= k /\ Made(tx)
      BY <1>2, <2>1
    <2>7. MadeInv' /\ ChainInv'
      BY <2>3, <2>4, <2>5, <2>6, HistoryStep
    <2>8. TypeInv'
      <3>1. synced \in Nat
        BY <1>1
      <3>2. synced' \in 0..Len(ledger')
        BY <2>1, <2>2, <2>3, <3>1, MinOfTwo
      <3>3. Len(ledger') <= MaxTxs
        BY <1>1, <2>1, <2>2, <2>3
      <3> QED
        BY <2>3, <2>4, <2>6, <3>2, <3>3 DEF TypeInv
    <2> QED
      BY <2>7, <2>8 DEF Inv
  <1>8. ASSUME UNCHANGED vars PROVE Inv'
    <2>1. ledger' = ledger /\ created' = created /\ synced' = synced
      BY <1>8 DEF vars
    <2>2. LedgerInv' /\ KeepsPrefix(Len(ledger)) /\ Len(ledger') = Len(ledger)
      BY <2>1, LedgerSame
    <2>3. MadeInv' /\ ChainInv'
      BY <1>2, <2>1, <2>2, HistoryStep
    <2>4. TypeInv'
      BY <1>1, <1>2, <2>1, <2>2 DEF TypeInv
    <2> QED
      BY <2>3, <2>4 DEF Inv
  <1> QED
    BY <1>3, <1>4, <1>5, <1>6, <1>7, <1>8 DEF Next

\* The invariant holds in every state.
LEMMA InvHolds == Spec => []Inv
  <1>1. Init => Inv
    BY InitInv
  <1>2. Inv /\ [Next]_vars => Inv'
    BY NextInv
  <1> QED
    BY <1>1, <1>2, PTL DEF Spec

-----------------------------------------------------------------------------
(***************************************************************************)
(* Theorems.  The invariants that the run wallet checks, for every value   *)
(* of the constants.                                                       *)
(***************************************************************************)

\* The types of the state; an account never marks indexes as spent that do not
\* exist where it is made (the index i of client/mod.rs:419-422).
THEOREM TypeCorrect == Spec => []TypeOK
  <1>1. Inv => TypeOK
    BY InvHistory, InvImpliesTypeOK
  <1> QED
    BY <1>1, InvHolds, PTL

\* The balance of a synchronised wallet is what its groups gave it less what they
\* took, after any transactions, rejections and rollbacks (state.rs:269-293).
THEOREM BalanceIsTrue == Spec => []NothingLost
  <1>1. Inv => NothingLost
    BY InvHistory, BalanceIsGains DEF NothingLost
  <1> QED
    BY <1>1, InvHolds, PTL

\* get_usable_notes gives exactly the notes that no synchronised transaction took
\* (state.rs:164-180, 226-244).
THEOREM UsableNotes == Spec => []UsableNotesUnspent
  <1>1. Inv => UsableNotesUnspent
    BY InvHistory, InvImpliesUsableNotesUnspent
  <1> QED
    BY <1>1, InvHolds, PTL

\* get_tx_input finds exactly the account and the notes that an own transaction
\* took, although it was made from another state (client/mod.rs:670-690).
THEOREM HistoryIsTrue == Spec => []TxInputsAreTrue
  <1>1. Inv => TxInputsAreTrue
    BY InvHistory, InvImpliesTxInputsAreTrue
  <1> QED
    BY <1>1, InvHolds, PTL

\* What create_tx makes from a fragment that continues the state can be proved,
\* if it does not overspend: for every such request the circuit accepts the
\* inputs it picks (client/mod.rs:325-425, 467-474).
THEOREM ProofsExist == Spec => []CreatedTxsProvable
  <1>1. Inv => CreatedTxsProvable
    BY InvHistory, InvImpliesCreatedTxsProvable
  <1> QED
    BY <1>1, InvHolds, PTL

=============================================================================
