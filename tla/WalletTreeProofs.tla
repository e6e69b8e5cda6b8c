-------------------------- MODULE WalletTreeProofs --------------------------
(***************************************************************************)
(* The tree of a wallet holds its ledger: proofs about WalletTree for all  *)
(* sizes of trees and groups, all transactions and batches.                *)
(*                                                                         *)
(* The inductive invariant IInv says that every stored node has the hash   *)
(* of its leaves, that what the code reads of every node it may need again *)
(* is that hash, that the ledger is filled exactly up to next_index, and   *)
(* how the keys of the database and the first index relate to it; Moves    *)
(* says what a step may do to them and to the stable index.  Each kind of  *)
(* update is shown to write true hashes (AddTrue, AddHashesTrue,           *)
(* CommitmentTrue, and RollbackTrue of TreeLemmas), then each action to    *)
(* keep the invariant.                                                     *)
(*                                                                         *)
(* CrashInv is the invariant of MerkleTreeCrash: what an interrupted call  *)
(* leaves holds the ledger up to the index that is safe, and the nodes     *)
(* that reach further can be anything.  Every prefix of the transactions   *)
(* of a call keeps that, and rollback needs no more.                       *)
(***************************************************************************)
EXTENDS MerkleTreeCrash, TreeLemmas

\* What a leaf can hold: of a group in the tree, of any.
Full == Leaf \cup {ZeroNote}
\* What a leaf of the tree can hold, filled or not.
Values == Leaf \cup {Default, ZeroNote}

\* No hash of such leaves is None.
LEMMA NoneIsNoValue == NoneIsNoHash(Values)
  BY LeafAssumption DEF NoneIsNoHash, Values

-----------------------------------------------------------------------------
\* An index whose node ends within the tree has one.
LEMMA NodeFits ==
  ASSUME NEW h \in 0..HEIGHT, NEW p \in Nat, (p + 1) * Width[h] <= Capacity
  PROVE  <<h, p>> \in Node
  <1>1. /\ HEIGHT - h \in 0..HEIGHT /\ (HEIGHT - h) + h = HEIGHT
        /\ Width[HEIGHT - h] \in Nat /\ Width[h] \in Nat /\ Width[h] >= 1
    BY WidthPositive, SizesAssumption
  <1>2. Capacity = Width[HEIGHT - h] * Width[h]
    BY <1>1, WidthSum DEF Capacity
  <1>3. p < Width[HEIGHT - h]
    <2>1. ASSUME ~ p < Width[HEIGHT - h] PROVE FALSE
      <3>1. (Width[HEIGHT - h] + 1) * Width[h] <= (p + 1) * Width[h]
        BY <1>1, <2>1, ProductMonotone
      <3>2. /\ (Width[HEIGHT - h] + 1) * Width[h] = Width[HEIGHT - h] * Width[h] + Width[h]
            /\ Width[HEIGHT - h] * Width[h] \in Nat /\ (p + 1) * Width[h] \in Nat
        BY <1>1, ProductFacts
      <3> QED
        BY <1>1, <1>2, <3>1, <3>2
    <2> QED
      BY <2>1
  <1> QED
    BY <1>3, NodeAt

\* A quotient is at least what fits in it.
LEMMA QuotientAtLeast ==
  ASSUME NEW a \in Nat, NEW w \in Nat, w >= 1, NEW q \in Nat, q * w <= a
  PROVE  q <= a \div w
  <1>1. a \div w \in Nat /\ a % w \in 0..(w - 1) /\ a = (a \div w) * w + (a % w)
    BY Division
  <1>2. ASSUME a \div w < q PROVE FALSE
    <2> DEFINE d == a \div w
    <2>1. (d + 1) * w <= q * w
      BY <1>1, <1>2, ProductMonotone
    <2>2. (d + 1) * w = d * w + w /\ d * w \in Nat /\ q * w \in Nat
      BY <1>1, ProductFacts
    <2> HIDE DEF d
    <2>3. a = d * w + (a % w)
      BY <1>1 DEF d
    <2> QED
      BY <1>1, <2>1, <2>2, <2>3
  <1> QED
    BY <1>1, <1>2

\* Where the ways of two leaves to the root meet, they come from two siblings.
LEMMA Fork ==
  ASSUME NEW a \in 0..(Capacity - 1), NEW b \in 0..(Capacity - 1), a < b
  PROVE  \E h \in 0..(HEIGHT - 1) :
           LET A == Above(<<0, a>>, h)
               B == Above(<<0, b>>, h)
           IN  /\ A \in Node /\ A[1] = h /\ A[2] % 2 = 0 /\ LeftEdge(A) <= a /\ a < RightEdge(A)
               /\ B \in Node /\ B[1] = h /\ B[2] % 2 = 1 /\ LeftEdge(B) <= b /\ b < RightEdge(B)
               /\ B[2] = A[2] + 1 /\ A = Sibling(B) /\ RightEdge(A) = LeftEdge(B)
  <1> DEFINE up(j, h) == Above(<<0, j>>, h)
             S == {h \in 0..HEIGHT : up(a, h) # up(b, h)}
  <1>1. \A j \in 0..(Capacity - 1), h \in 0..HEIGHT :
           /\ up(j, h) \in Node /\ up(j, h)[1] = h /\ LeftEdge(up(j, h)) <= j /\ j < RightEdge(up(j, h))
    BY LeafAbove
  <1>2. \A j \in 0..(Capacity - 1), m \in Node : LeftEdge(m) <= j /\ j < RightEdge(m) => m = up(j, m[1])
    BY HasLeaf
  <1> HIDE DEF up
  <1>3. 0 \in S
    <2>1. /\ <<0, a>> \in Node /\ LeftEdge(<<0, a>>) = a /\ RightEdge(<<0, a>>) = a + 1
          /\ <<0, b>> \in Node /\ LeftEdge(<<0, b>>) = b /\ RightEdge(<<0, b>>) = b + 1
      BY LeafNode
    <2>2. <<0, a>> = up(a, 0) /\ <<0, b>> = up(b, 0)
      BY <1>2, <2>1
    <2>3. <<0, a>> # <<0, b>>
      OBVIOUS
    <2> QED
      BY <2>2, <2>3, SizesAssumption
  <1>4. HEIGHT \notin S
    <2>1. Root \in Node /\ Root[1] = HEIGHT /\ LeftEdge(Root) = 0 /\ RightEdge(Root) = Capacity
      BY RootIs
    <2>2. Root = up(a, HEIGHT) /\ Root = up(b, HEIGHT)
      BY <1>2, <2>1, GroupSizeIs
    <2> QED
      BY <2>2
  <1>5. S \in SUBSET Nat /\ S # {} /\ HEIGHT \in Nat /\ \A h \in S : h <= HEIGHT
    BY <1>3, SizesAssumption
  <1>6. \E h \in S : \A k \in S : k <= h
    <2> HIDE DEF S
    <2> QED
      BY <1>5, GreatestNumber
  <1>7. PICK h \in S : \A k \in S : k <= h
    BY <1>6
  <1>8. h \in 0..HEIGHT /\ h # HEIGHT /\ up(a, h) # up(b, h) /\ h + 1 \in 0..HEIGHT /\ h \in 0..(HEIGHT - 1)
    BY <1>4, <1>7, SizesAssumption
  <1>9. up(a, h + 1) = up(b, h + 1)
    BY <1>7, <1>8
  <1> DEFINE A == up(a, h)
             B == up(b, h)
  <1>10. /\ A \in Node /\ A[1] = h /\ LeftEdge(A) <= a /\ a < RightEdge(A)
         /\ B \in Node /\ B[1] = h /\ LeftEdge(B) <= b /\ b < RightEdge(B) /\ A # B
    BY <1>1, <1>8
  <1> HIDE DEF A, B, S
  <1>11. ASSUME NEW n \in Node, n[1] = h, NEW j \in 0..(Capacity - 1), LeftEdge(n) <= j, j < RightEdge(n)
         PROVE  LET p == up(j, h + 1)
                IN  /\ p \in Node /\ p[1] = h + 1
                    /\ \/ n[2] % 2 = 0 /\ n = LeftChild(p) /\ Sibling(n) = RightChild(p)
                       \/ n[2] % 2 = 1 /\ n = RightChild(p) /\ Sibling(n) = LeftChild(p)
    <2> DEFINE p == Above(n, n[1] + 1)
    <2>1. n[1] < HEIGHT
      BY <1>8, <1>11, SizesAssumption
    <2>2. /\ p \in Node /\ p[1] = n[1] + 1
          /\ \/ n[2] % 2 = 0 /\ n = LeftChild(p) /\ Sibling(n) = RightChild(p)
             \/ n[2] % 2 = 1 /\ n = RightChild(p) /\ Sibling(n) = LeftChild(p)
      BY <2>1, ParentIs
    <2>3. LeftEdge(p) <= LeftEdge(n) /\ RightEdge(n) <= RightEdge(p)
      <3>1. n[1] + 1 \in n[1]..HEIGHT
        BY <2>1, NodeIs, SizesAssumption
      <3> QED
        BY <3>1, AboveIs
    <2> HIDE DEF p
    <2>4. LeftEdge(p) <= j /\ j < RightEdge(p)
      BY <1>11, <2>2, <2>3, NodeIs
    <2>5. p = up(j, h + 1)
      BY <1>2, <1>11, <2>2, <2>4
    <2> QED
      BY <1>11, <2>2, <2>5
  <1> DEFINE p == up(a, h + 1)
  <1>12. /\ p \in Node /\ p[1] = h + 1
         /\ \/ A[2] % 2 = 0 /\ A = LeftChild(p) /\ Sibling(A) = RightChild(p)
            \/ A[2] % 2 = 1 /\ A = RightChild(p) /\ Sibling(A) = LeftChild(p)
    BY <1>10, <1>11
  <1>13. \/ B[2] % 2 = 0 /\ B = LeftChild(p) /\ Sibling(B) = RightChild(p)
         \/ B[2] % 2 = 1 /\ B = RightChild(p) /\ Sibling(B) = LeftChild(p)
    BY <1>9, <1>10, <1>11
  <1> HIDE DEF p
  <1>14. p[1] > 0 /\ p[2] \in Nat
    BY <1>8, <1>12, NodeIs
  <1>15. /\ RightEdge(LeftChild(p)) = LeftEdge(RightChild(p))
         /\ LeftEdge(RightChild(p)) \in Nat
    <2>1. LeftEdge(p) \in Nat /\ Width[p[1] - 1] \in Nat
      BY <1>8, <1>12, NodeIs, WidthIs
    <2> QED
      BY <1>12, <1>14, <2>1, ChildrenAre
  <1>16. A # RightChild(p)
    BY <1>10, <1>12, <1>13, <1>15
  <1>17. A = LeftChild(p) /\ B = RightChild(p) /\ A[2] % 2 = 0 /\ B[2] % 2 = 1 /\ A = Sibling(B)
    BY <1>10, <1>12, <1>13, <1>16
  <1>18. B[2] = A[2] + 1
    BY <1>14, <1>17 DEF LeftChild, RightChild
  <1> QED
    BY <1>8, <1>10, <1>15, <1>17, <1>18 DEF A, B, up
-----------------------------------------------------------------------------
\* What the transactions of a batch are.
LEMMA GroupTxIs ==
  ASSUME NEW tx \in GroupTxs
  PROVE  /\ TxLeaves(tx) \in [1..GroupSize -> Full]
         /\ \/ /\ tx.kind = "leafs" /\ tx = LeafTx(tx.leafs) /\ tx.leafs \in Seq(Leaf)
               /\ Len(tx.leafs) \in 1..GroupSize
               /\ \A k \in 1..GroupSize :
                    TxLeaves(tx)[k] = IF k <= Len(tx.leafs) THEN tx.leafs[k] ELSE ZeroNote
            \/ /\ tx.kind = "commitment" /\ tx = CommitmentTx(tx.hash)
               /\ tx.hash \in [1..GroupSize -> Full] /\ TxLeaves(tx) = tx.hash
  <1>1. GroupSize \in Nat
    BY GroupSizeIs
  <1>2. CASE \E leafs \in UNION {[1..n -> Leaf] : n \in 1..GroupSize} : tx = LeafTx(leafs)
    <2>0. PICK n \in 1..GroupSize : \E leafs \in [1..n -> Leaf] : tx = LeafTx(leafs)
      BY <1>2
    <2>1. PICK leafs \in [1..n -> Leaf] : tx = LeafTx(leafs)
      BY <2>0
    <2>2. leafs \in Seq(Leaf) /\ Len(leafs) = n /\ \A k \in 1..n : leafs[k] \in Leaf
      BY <1>1, <2>1
    <2>3. tx.kind = "leafs" /\ tx.leafs = leafs
      BY <2>1 DEF LeafTx
    <2>4. TxLeaves(tx) = [k \in 1..GroupSize |-> IF k <= n THEN leafs[k] ELSE ZeroNote]
      BY <2>2, <2>3 DEF TxLeaves
    <2>5. \A k \in 1..GroupSize : k <= n => leafs[k] \in Full
      BY <1>1, <2>1, <2>2 DEF Full
    <2>6. TxLeaves(tx) \in [1..GroupSize -> Full]
      BY <2>4, <2>5 DEF Full
    <2> QED
      BY <2>1, <2>2, <2>3, <2>4, <2>6
  <1>3. CASE \E hash \in [1..GroupSize -> Leaf \cup {ZeroNote}] : tx = CommitmentTx(hash)
    <2>1. PICK hash \in [1..GroupSize -> Leaf \cup {ZeroNote}] : tx = CommitmentTx(hash)
      BY <1>3
    <2>2. tx.kind = "commitment" /\ tx.hash = hash
      BY <2>1 DEF CommitmentTx
    <2>3. TxLeaves(tx) = hash
      BY <2>1, <2>2 DEF TxLeaves
    <2> QED
      BY <2>1, <2>2, <2>3 DEF Full
  <1> QED
    BY <1>2, <1>3 DEF GroupTxs

\* A batch of n groups in a row from start on.
IsBatch(batch, start, n) ==
  /\ Whole(start) /\ n \in Nat \ {0} /\ start + n * GroupSize <= Capacity
  /\ DOMAIN batch = {start + g * GroupSize : g \in 0..(n - 1)}
  /\ \A i \in DOMAIN batch : batch[i] \in GroupTxs

\* The leaves M have the groups of the batch.
BatchIn(batch, M) ==
  \A i \in DOMAIN batch, k \in 1..GroupSize : M[i + k - 1] = TxLeaves(batch[i])[k]

\* The groups of a batch are contiguous and within the tree.
LEMMA BatchIs ==
  ASSUME NEW batch, NEW start, NEW n, IsBatch(batch, start, n)
  PROVE  LET e == start + n * GroupSize
             l == e - GroupSize
         IN  /\ start \in Nat /\ e \in Nat /\ Whole(e) /\ start < e /\ e <= Capacity
             /\ start \in DOMAIN batch /\ l \in DOMAIN batch /\ Whole(l)
             /\ \A i \in DOMAIN batch :
                  /\ i \in Nat /\ Whole(i) /\ start <= i /\ i <= l /\ i + GroupSize <= e
                  /\ i + GroupSize <= Capacity
             /\ \A j \in Nat : start <= j /\ j < e =>
                  /\ calc_first_index(j) \in DOMAIN batch
                  /\ j = calc_first_index(j) + (j % GroupSize)
                  /\ (j % GroupSize) + 1 \in 1..GroupSize
  <1> DEFINE e == start + n * GroupSize
             l == e - GroupSize
             q == start \div GroupSize
  <1>1. GroupSize \in Nat /\ GroupSize >= 1 /\ Capacity \in Nat
    BY GroupSizeIs
  <1>2. /\ Whole(start) /\ start \in Nat /\ n \in Nat /\ n >= 1 /\ e <= Capacity
        /\ DOMAIN batch = {start + g * GroupSize : g \in 0..(n - 1)}
    BY DEF IsBatch, Whole
  <1>3. q \in Nat /\ start = q * GroupSize
    BY <1>2, WholeProduct
  <1> HIDE DEF q
  <1>4. \A g \in Nat : g * GroupSize \in Nat /\ start + g * GroupSize = (q + g) * GroupSize
    <2> SUFFICES ASSUME NEW g \in Nat
                 PROVE  g * GroupSize \in Nat /\ start + g * GroupSize = (q + g) * GroupSize
      OBVIOUS
    <2>1. ASSUME NEW a \in Nat, NEW b \in Nat, NEW w \in Nat
          PROVE  b * w \in Nat /\ a * w + b * w = (a + b) * w
      OBVIOUS
    <2> QED
      BY <1>1, <1>3, <2>1
  <1>5. \A p \in Nat : Whole(p * GroupSize)
    <2> SUFFICES ASSUME NEW p \in Nat PROVE Whole(p * GroupSize)
      OBVIOUS
    <2>1. (p * GroupSize + 0) % GroupSize = 0 /\ p * GroupSize \in Nat
      BY <1>1, DivisionUnique, ProductFacts
    <2> QED
      BY <2>1 DEF Whole
  <1>6. ASSUME NEW g \in 0..(n - 1)
        PROVE  /\ start + g * GroupSize \in Nat /\ Whole(start + g * GroupSize)
               /\ start <= start + g * GroupSize
               /\ (start + g * GroupSize) + GroupSize <= e
    <2>1. g \in Nat /\ g + 1 <= n /\ q + g \in Nat
      BY <1>2, <1>3
    <2>2. (g + 1) * GroupSize <= n * GroupSize
      BY <1>1, <1>2, <2>1, ProductMonotone
    <2>3. (g + 1) * GroupSize = g * GroupSize + GroupSize /\ g * GroupSize \in Nat /\ n * GroupSize \in Nat
      BY <1>1, <1>2, <2>1, ProductFacts
    <2>4. Whole(start + g * GroupSize)
      BY <1>4, <1>5, <2>1
    <2> QED
      BY <1>1, <1>2, <2>2, <2>3, <2>4
  <1>7. e \in Nat /\ Whole(e)
    <2>1. n \in Nat /\ q + n \in Nat
      BY <1>2, <1>3
    <2> QED
      BY <1>2, <1>4, <1>5, <2>1
  <1>8. start + (n - 1) * GroupSize = l /\ n - 1 \in 0..(n - 1) /\ 0 \in 0..(n - 1) /\ start + 0 * GroupSize = start
    <2>1. n - 1 \in Nat /\ (n - 1) + 1 = n
      BY <1>2
    <2>2. n * GroupSize = (n - 1) * GroupSize + GroupSize /\ (n - 1) * GroupSize \in Nat
      BY <1>1, <2>1, ProductFacts
    <2>3. 0 * GroupSize = 0
      BY <1>1
    <2> QED
      BY <1>1, <1>2, <2>1, <2>2, <2>3
  <1> HIDE DEF e
  <1>9. start \in DOMAIN batch /\ l \in DOMAIN batch
    BY <1>2, <1>8
  <1>10. \A i \in DOMAIN batch :
            /\ i \in Nat /\ Whole(i) /\ start <= i /\ i + GroupSize <= e
            /\ i <= l /\ i + GroupSize <= Capacity
    <2> SUFFICES ASSUME NEW i \in DOMAIN batch
                 PROVE  /\ i \in Nat /\ Whole(i) /\ start <= i /\ i + GroupSize <= e
                        /\ i <= l /\ i + GroupSize <= Capacity
      OBVIOUS
    <2>1. PICK g \in 0..(n - 1) : i = start + g * GroupSize
      BY <1>2
    <2>2. i \in Nat /\ Whole(i) /\ start <= i /\ i + GroupSize <= e
      BY <1>6, <2>1
    <2> QED
      BY <1>1, <1>2, <1>7, <2>2
  <1>11. ASSUME NEW j \in Nat, start <= j, j < e
         PROVE  /\ calc_first_index(j) \in DOMAIN batch
                /\ j = calc_first_index(j) + (j % GroupSize)
                /\ (j % GroupSize) + 1 \in 1..GroupSize
    <2> DEFINE f == calc_first_index(j)
               p == f \div GroupSize
    <2>1. /\ Whole(f) /\ f <= j /\ j < f + GroupSize /\ j = f + (j % GroupSize)
          /\ j % GroupSize \in 0..(GroupSize - 1)
      BY GroupOf
    <2> HIDE DEF f
    <2>2. p \in Nat /\ f = p * GroupSize /\ f \in Nat
      BY <2>1, WholeProduct DEF Whole
    <2> HIDE DEF p
    <2>3. ~ f < start
      <3>1. f < start => f + GroupSize <= start
        BY <1>2, <2>1, NextWhole
      <3> QED
        BY <1>1, <1>2, <1>11, <2>1, <2>2, <3>1
    <2>4. q <= p
      <3>1. ASSUME p < q PROVE FALSE
        <4>1. (p + 1) * GroupSize <= q * GroupSize
          BY <1>1, <1>3, <2>2, <3>1, ProductMonotone
        <4>2. (p + 1) * GroupSize = p * GroupSize + GroupSize
          BY <1>1, <2>2, ProductFacts
        <4> QED
          BY <1>1, <1>2, <1>3, <2>2, <2>3, <4>1, <4>2
      <3> QED
        BY <1>3, <2>2, <3>1
    <2>5. p - q \in Nat /\ f = start + (p - q) * GroupSize
      <3>1. p - q \in Nat /\ q + (p - q) = p
        BY <1>3, <2>2, <2>4
      <3> QED
        BY <1>4, <2>2, <3>1
    <2>6. p - q \in 0..(n - 1)
      <3>1. ASSUME n <= p - q PROVE FALSE
        <4>1. n * GroupSize <= (p - q) * GroupSize
          BY <1>1, <1>2, <2>5, <3>1, ProductMonotone
        <4>2. n * GroupSize \in Nat /\ (p - q) * GroupSize \in Nat
          BY <1>2, <1>4, <2>5
        <4> QED
          BY <1>2, <1>11, <2>1, <2>2, <2>5, <4>1, <4>2 DEF e
      <3> QED
        BY <1>2, <2>5, <3>1
    <2> QED
      BY <1>1, <1>2, <2>1, <2>5, <2>6 DEF f
  <1>12. start < e /\ Whole(l)
    <2>1. start + GroupSize <= e /\ Whole(l)
      BY <1>9, <1>10
    <2> QED
      BY <1>1, <1>2, <1>7, <2>1
  <1>13. e <= Capacity
    BY <1>2 DEF e
  <1> QED
    BY <1>2, <1>7, <1>9, <1>10, <1>11, <1>12, <1>13 DEF e
\* The last index of a batch: of its last group.
LEMMA LastBoundIs ==
  ASSUME NEW batch, NEW start, NEW n, IsBatch(batch, start, n)
  PROVE  LET e == start + n * GroupSize
             l == e - GroupSize
         IN  /\ LastBound(batch) \in Nat /\ l <= LastBound(batch) /\ LastBound(batch) < e
             /\ calc_next_index(LastBound(batch)) = e
             /\ LastBound(batch) = IF batch[l].kind = "leafs" THEN LastLeaf(batch, l) ELSE l
             /\ Min(DOMAIN batch) = start
  <1> DEFINE e == start + n * GroupSize
             l == e - GroupSize
             S == {LastLeaf(batch, i) : i \in OfKind(batch, "leafs")} \cup OfKind(batch, "commitment")
             last == IF batch[l].kind = "leafs" THEN LastLeaf(batch, l) ELSE l
  <1>1. /\ start \in Nat /\ e \in Nat /\ Whole(e) /\ e <= Capacity
        /\ start \in DOMAIN batch /\ l \in DOMAIN batch /\ Whole(l)
        /\ \A i \in DOMAIN batch : i \in Nat /\ start <= i /\ i <= l /\ i + GroupSize <= e /\ Whole(i)
    BY BatchIs
  <1>2. GroupSize \in Nat /\ GroupSize >= 1
    BY GroupSizeIs
  <1>3. \A i \in DOMAIN batch :
           /\ batch[i].kind \in {"leafs", "commitment"}
           /\ batch[i].kind = "leafs" =>
                i <= LastLeaf(batch, i) /\ LastLeaf(batch, i) < i + GroupSize /\ LastLeaf(batch, i) \in Nat
    <2> SUFFICES ASSUME NEW i \in DOMAIN batch
                 PROVE  /\ batch[i].kind \in {"leafs", "commitment"}
                        /\ batch[i].kind = "leafs" =>
                             i <= LastLeaf(batch, i) /\ LastLeaf(batch, i) < i + GroupSize /\ LastLeaf(batch, i) \in Nat
      OBVIOUS
    <2>1. batch[i] \in GroupTxs
      BY DEF IsBatch
    <2>2. \/ batch[i].kind = "leafs" /\ Len(batch[i].leafs) \in 1..GroupSize
          \/ batch[i].kind = "commitment"
      BY <2>1, GroupTxIs
    <2>3. i \in Nat
      BY <1>1
    <2>4. LastLeaf(batch, i) = i + Len(batch[i].leafs) - 1
      BY DEF LastLeaf
    <2> QED
      BY <1>2, <2>2, <2>3, <2>4
  <1>4. last \in S /\ S \in SUBSET Nat
    BY <1>1, <1>3 DEF OfKind
  <1> HIDE DEF e
  <1>5. last \in Nat /\ l <= last /\ last < e
    BY <1>1, <1>2, <1>3
  <1>6. \A s \in S : s <= last
    <2> SUFFICES ASSUME NEW s \in S PROVE s <= last
      OBVIOUS
    <2>1. PICK i \in DOMAIN batch : \/ batch[i].kind = "leafs" /\ s = LastLeaf(batch, i)
                                    \/ s = i
      BY DEF OfKind
    <2>2. CASE i = l
      <3>1. s \in {last, l}
        BY <1>1, <2>1, <2>2
      <3> QED
        BY <1>1, <1>4, <1>5, <3>1
    <2>3. CASE i # l
      <3>1. i \in Nat /\ i < l /\ Whole(i) /\ Whole(l) /\ l \in Nat
        BY <1>1, <2>3
      <3>2. i + GroupSize <= l
        BY <3>1, NextWhole
      <3>3. s < i + GroupSize /\ s \in Nat
        BY <1>2, <1>3, <2>1, <3>1
      <3> QED
        BY <1>2, <1>5, <3>1, <3>2, <3>3
    <2> QED
      BY <2>2, <2>3
  <1>7. Max(S) = last
    <2> HIDE DEF S, last
    <2> QED
      BY <1>4, <1>6, MaxIs
  <1>8. LastBound(batch) = last
    BY <1>7 DEF LastBound
  <1>9. calc_next_index(last) = e
    <2>1. Whole(l) /\ l + GroupSize = e
      BY <1>1, <1>2
    <2> HIDE DEF l, last
    <2>2. calc_next_index(last) = l + GroupSize
      BY <1>1, <1>2, <1>5, <2>1, GroupUnique
    <2> QED
      BY <2>1, <2>2
  <1>10. Min(DOMAIN batch) = start
    <2>1. DOMAIN batch \in SUBSET Nat /\ DOMAIN batch # {}
      BY <1>1
    <2>2. Min(DOMAIN batch) \in DOMAIN batch /\ \A i \in DOMAIN batch : Min(DOMAIN batch) <= i
      BY <2>1, MinIsLeast
    <2> QED
      BY <1>1, <2>2
  <1> QED
    BY <1>1, <1>5, <1>8, <1>9, <1>10 DEF e

\* The leaves of a group of a batch that are told one by one.
ToldLeaf(batch, j) ==
  /\ calc_first_index(j) \in DOMAIN batch
  /\ batch[calc_first_index(j)].kind = "leafs"

\* A leaf of a group is in its transaction.
LEMMA GroupLeaf ==
  ASSUME NEW batch, NEW start, NEW n, IsBatch(batch, start, n), NEW M, BatchIn(batch, M),
         NEW i \in DOMAIN batch, NEW j \in Nat, i <= j, j < i + GroupSize
  PROVE  /\ calc_first_index(j) = i /\ (j % GroupSize) + 1 = (j - i) + 1
         /\ (j - i) + 1 \in 1..GroupSize
         /\ M[j] = TxLeaves(batch[i])[(j - i) + 1]
  <1>1. i \in Nat /\ Whole(i) /\ GroupSize \in Nat /\ GroupSize >= 1
    BY BatchIs, GroupSizeIs
  <1>2. calc_first_index(j) = i /\ j % GroupSize = j - i
    BY <1>1, GroupUnique
  <1>3. (j - i) + 1 \in 1..GroupSize /\ i + ((j - i) + 1) - 1 = j
    BY <1>1
  <1>4. M[i + ((j - i) + 1) - 1] = TxLeaves(batch[i])[(j - i) + 1]
    BY <1>3 DEF BatchIn
  <1> QED
    BY <1>2, <1>3, <1>4

\* The padding nodes of a group.
LEMMA PaddingNodeIs ==
  ASSUME NEW i, Whole(i), i + GroupSize <= Capacity, NEW last \in Nat, i <= last,
         last < i + GroupSize, NEW m \in PaddingNodes(i, last)
  PROVE  /\ m \in Node /\ m[1] < OUTPLUSONELOG
         /\ last < LeftEdge(m) /\ RightEdge(m) <= i + GroupSize
  <1>1. PICK h \in 0..(OUTPLUSONELOG - 1) :
          /\ m = <<h, PaddingAt(last, h)>>
          /\ PaddingAt(last, h) < (i + GroupSize) \div Width[h]
    BY DEF PaddingNodes
  <1> DEFINE w == Width[h]
             q == last \div w
             r == (i + GroupSize) \div w
  <1>2. /\ h \in 0..HEIGHT /\ h < OUTPLUSONELOG /\ w \in Nat /\ w >= 1
        /\ i \in Nat /\ GroupSize \in Nat /\ Capacity \in Nat /\ i + GroupSize \in Nat
    BY SizesAssumption, WidthPositive, GroupSizeIs DEF Whole
  <1> HIDE DEF w
  <1>3. /\ q \in Nat /\ last % w \in 0..(w - 1) /\ last = q * w + (last % w)
        /\ r \in Nat /\ (i + GroupSize) % w \in 0..(w - 1)
        /\ i + GroupSize = r * w + ((i + GroupSize) % w)
    BY <1>2, Division
  <1>4. m = <<h, q + 1>> /\ q + 1 < r
    BY <1>1 DEF PaddingAt, w
  <1> HIDE DEF q, r
  <1>5. ((q + 1) + 1) * w <= r * w
    BY <1>2, <1>3, <1>4, ProductMonotone
  <1>6. (q + 1) * w = q * w + w /\ q * w \in Nat /\ ((q + 1) + 1) * w \in Nat /\ r * w \in Nat
    BY <1>2, <1>3, ProductFacts
  <1>7. m \in Node
    <2>1. ((q + 1) + 1) * Width[h] <= Capacity
      BY <1>2, <1>3, <1>5, <1>6 DEF w
    <2> QED
      BY <1>2, <1>3, <1>4, <2>1, NodeFits
  <1>8. LeftEdge(m) = (q + 1) * w /\ RightEdge(m) = ((q + 1) + 1) * w
    BY <1>4 DEF LeftEdge, RightEdge, w
  <1> QED
    BY <1>2, <1>3, <1>4, <1>5, <1>6, <1>7, <1>8
\* The nodes given for a batch: hashes of its leaves, no higher than a group.
LEMMA GivenNodesTrue ==
  ASSUME NEW batch, NEW start, NEW n, IsBatch(batch, start, n), NEW M, BatchIn(batch, M)
  PROVE  \A m \in DOMAIN GivenNodes(batch) :
           /\ m \in Node /\ m[1] <= OUTPLUSONELOG
           /\ start <= LeftEdge(m) /\ RightEdge(m) <= start + n * GroupSize
           /\ GivenNodes(batch)[m] = HashOf(M, m)
           /\ m[1] = 0 => ToldLeaf(batch, m[2]) \/ OUTPLUSONELOG = 0
  <1> DEFINE e == start + n * GroupSize
             commitments == {Above(<<0, i>>, OUTPLUSONELOG) : i \in OfKind(batch, "commitment")}
             leafs == UNION {{<<0, j>> : j \in i..LastLeaf(batch, i)} : i \in OfKind(batch, "leafs")}
             padding == UNION {PaddingNodes(i, LastLeaf(batch, i)) : i \in OfKind(batch, "leafs")}
             value(m) == IF m \in commitments THEN batch[LeftEdge(m)].hash
                         ELSE IF m \in leafs
                              THEN <<batch[calc_first_index(m[2])].leafs[(m[2] % GroupSize) + 1]>>
                              ELSE zero_note_hashes[m[1]]
             Right(m) == /\ m \in Node /\ m[1] <= OUTPLUSONELOG
                         /\ start <= LeftEdge(m) /\ RightEdge(m) <= e
                         /\ m[1] = 0 => ToldLeaf(batch, m[2]) \/ OUTPLUSONELOG = 0
  <1>1. GivenNodes(batch) = [m \in commitments \cup leafs \cup padding |-> value(m)]
    BY DEF GivenNodes
  <1>2. /\ \A i \in DOMAIN batch :
             /\ i \in Nat /\ Whole(i) /\ start <= i /\ i + GroupSize <= e /\ i + GroupSize <= Capacity
             /\ batch[i] \in GroupTxs
        /\ start \in Nat /\ e \in Nat /\ e <= Capacity
    BY BatchIs DEF IsBatch
  <1>3. GroupSize \in Nat /\ GroupSize >= 1 /\ Capacity \in Nat /\ OUTPLUSONELOG \in 0..HEIGHT
    BY GroupSizeIs
  <1>4. ASSUME NEW i \in DOMAIN batch, NEW j \in Nat, i <= j, j < i + GroupSize
        PROVE  /\ calc_first_index(j) = i /\ (j % GroupSize) + 1 = (j - i) + 1
               /\ (j - i) + 1 \in 1..GroupSize
               /\ M[j] = TxLeaves(batch[i])[(j - i) + 1]
    BY <1>4, GroupLeaf
  <1> HIDE DEF e
  <1>5. ASSUME NEW m \in commitments PROVE Right(m) /\ batch[LeftEdge(m)].hash = HashOf(M, m)
    <2>1. PICK i \in DOMAIN batch : batch[i].kind = "commitment" /\ m = Above(<<0, i>>, OUTPLUSONELOG)
      BY DEF OfKind
    <2>2. /\ m \in Node /\ m[1] = OUTPLUSONELOG /\ Width[m[1]] = GroupSize
          /\ LeftEdge(m) = i /\ RightEdge(m) = i + GroupSize
      BY <1>2, <2>1, GroupNode
    <2>3. batch[i].hash \in [1..GroupSize -> Full] /\ TxLeaves(batch[i]) = batch[i].hash
      <3>1. batch[i] \in GroupTxs /\ batch[i].kind # "leafs"
        BY <1>2, <2>1
      <3> QED
        BY <3>1, GroupTxIs
    <2>4. HashOf(M, m) = [k \in 1..GroupSize |-> M[i + k - 1]]
      BY <2>2 DEF HashOf
    <2>5. \A k \in 1..GroupSize : M[i + k - 1] = batch[i].hash[k]
      BY <2>3 DEF BatchIn
    <2>6. HashOf(M, m) = batch[i].hash
      BY <2>3, <2>4, <2>5
    <2>7. m[1] = 0 => OUTPLUSONELOG = 0
      BY <2>2
    <2>8. m[1] <= OUTPLUSONELOG
      BY <1>3, <2>2
    <2> QED
      BY <1>2, <2>2, <2>6, <2>7, <2>8
  <1>6. ASSUME NEW m \in leafs
        PROVE  /\ Right(m)
               /\ <<batch[calc_first_index(m[2])].leafs[(m[2] % GroupSize) + 1]>> = HashOf(M, m)
    <2>1. PICK i \in OfKind(batch, "leafs") : m \in {<<0, j>> : j \in i..LastLeaf(batch, i)}
      OBVIOUS
    <2>2. i \in DOMAIN batch /\ batch[i].kind = "leafs"
      BY <2>1 DEF OfKind
    <2>3. PICK j \in i..LastLeaf(batch, i) : m = <<0, j>>
      BY <2>1
    <2>4. /\ Len(batch[i].leafs) \in 1..GroupSize
          /\ \A k \in 1..GroupSize :
               TxLeaves(batch[i])[k] = IF k <= Len(batch[i].leafs) THEN batch[i].leafs[k] ELSE ZeroNote
      <3>1. batch[i] \in GroupTxs /\ batch[i].kind # "commitment"
        BY <1>2, <2>2
      <3> QED
        BY <3>1, GroupTxIs
    <2>5. j \in Nat /\ i <= j /\ j < i + GroupSize /\ j <= i + Len(batch[i].leafs) - 1
      BY <1>2, <1>3, <2>2, <2>3, <2>4 DEF LastLeaf
    <2>6. /\ calc_first_index(j) = i /\ (j % GroupSize) + 1 = (j - i) + 1
          /\ (j - i) + 1 \in 1..GroupSize
          /\ M[j] = TxLeaves(batch[i])[(j - i) + 1]
      BY <1>4, <2>2, <2>5
    <2>7. j \in 0..(Capacity - 1)
      BY <1>2, <1>3, <2>2, <2>5
    <2>8. /\ m \in Node /\ m[1] = 0 /\ m[2] = j /\ LeftEdge(m) = j /\ RightEdge(m) = j + 1
          /\ Width[m[1]] = 1
      BY <2>3, <2>7, LeafNode, WidthIs
    <2>9. M[j] = batch[i].leafs[(j - i) + 1]
      <3>1. (j - i) + 1 <= Len(batch[i].leafs)
        BY <1>2, <2>2, <2>4, <2>5
      <3> QED
        BY <2>4, <2>6, <3>1
    <2>10. HashOf(M, m) = <<M[j]>>
      <3>1. HashOf(M, m) = [k \in 1..1 |-> M[j + k - 1]]
        BY <2>8 DEF HashOf
      <3>2. \A k \in 1..1 : j + k - 1 = j
        BY <2>5
      <3>3. HashOf(M, m) = [k \in 1..1 |-> M[j]]
        BY <3>1, <3>2
      <3> QED
        BY <3>3
    <2>11. ToldLeaf(batch, m[2])
      BY <2>2, <2>6, <2>8 DEF ToldLeaf
    <2>12. start <= LeftEdge(m) /\ RightEdge(m) <= e /\ m[1] <= OUTPLUSONELOG
      BY <1>2, <1>3, <2>2, <2>5, <2>8
    <2> QED
      BY <2>6, <2>8, <2>9, <2>10, <2>11, <2>12
  <1>7. ASSUME NEW m \in padding PROVE Right(m) /\ zero_note_hashes[m[1]] = HashOf(M, m)
    <2>1. PICK i \in OfKind(batch, "leafs") : m \in PaddingNodes(i, LastLeaf(batch, i))
      OBVIOUS
    <2>2. i \in DOMAIN batch /\ batch[i].kind = "leafs"
      BY <2>1 DEF OfKind
    <2>3. /\ Len(batch[i].leafs) \in 1..GroupSize
          /\ \A k \in 1..GroupSize :
               TxLeaves(batch[i])[k] = IF k <= Len(batch[i].leafs) THEN batch[i].leafs[k] ELSE ZeroNote
      <3>1. batch[i] \in GroupTxs /\ batch[i].kind # "commitment"
        BY <1>2, <2>2
      <3> QED
        BY <3>1, GroupTxIs
    <2> DEFINE last == LastLeaf(batch, i)
    <2>4. last = i + Len(batch[i].leafs) - 1 /\ last \in Nat /\ i <= last /\ last < i + GroupSize
      <3>1. last = i + Len(batch[i].leafs) - 1
        BY DEF LastLeaf
      <3>2. i \in Nat /\ GroupSize \in Nat
        BY <1>2, <1>3, <2>2
      <3> QED
        BY <2>3, <3>1, <3>2
    <2> HIDE DEF last
    <2>5. m \in PaddingNodes(i, last) /\ Whole(i) /\ i + GroupSize <= Capacity
      BY <1>2, <2>1, <2>2 DEF last
    <2>6. m \in Node /\ m[1] < OUTPLUSONELOG /\ last < LeftEdge(m) /\ RightEdge(m) <= i + GroupSize
      BY <2>4, <2>5, PaddingNodeIs
    <2>7. /\ LeftEdge(m) \in Nat /\ RightEdge(m) \in Nat /\ LeftEdge(m) < RightEdge(m)
          /\ m[1] \in Nat
      BY <2>6, NodeIs
    <2>8. \A j \in Below(m) : M[j] = ZeroNote /\ calc_first_index(j) = i
      <3> SUFFICES ASSUME NEW j \in Below(m) PROVE M[j] = ZeroNote /\ calc_first_index(j) = i
        OBVIOUS
      <3>1. j \in Nat /\ last < j /\ i <= j /\ j < i + GroupSize
        <4>1. i \in Nat /\ GroupSize \in Nat
          BY <1>2, <1>3, <2>2
        <4>2. j \in Nat /\ LeftEdge(m) <= j /\ j < RightEdge(m)
          BY DEF Below
        <4> QED
          BY <2>4, <2>6, <2>7, <4>1, <4>2
      <3>2. /\ (j - i) + 1 \in 1..GroupSize /\ calc_first_index(j) = i
            /\ M[j] = TxLeaves(batch[i])[(j - i) + 1]
        BY <1>4, <2>2, <3>1
      <3>3. ~ (j - i) + 1 <= Len(batch[i].leafs)
        BY <1>2, <2>2, <2>3, <2>4, <3>1
      <3> QED
        BY <2>3, <3>2, <3>3
    <2>9. HashOf(M, m) = [k \in 1..Width[m[1]] |-> ZeroNote]
      BY <2>6, <2>8, BelowHas DEF HashOf
    <2>10. zero_note_hashes[m[1]] = [k \in 1..Width[m[1]] |-> ZeroNote]
      BY <2>6, EmptyHashes
    <2>11. m[1] = 0 => ToldLeaf(batch, m[2])
      <3> SUFFICES ASSUME m[1] = 0 PROVE ToldLeaf(batch, m[2])
        OBVIOUS
      <3>1. LeftEdge(m) = m[2] /\ m[2] \in Nat
        BY <2>6, NodeIs, WidthIs DEF LeftEdge
      <3>2. m[2] \in Below(m)
        BY <2>7, <3>1 DEF Below
      <3> QED
        BY <2>2, <2>8, <3>2 DEF ToldLeaf
    <2>12. start <= LeftEdge(m) /\ RightEdge(m) <= e /\ m[1] <= OUTPLUSONELOG
      <3>1. /\ i \in Nat /\ start <= i /\ i + GroupSize <= e
            /\ start \in Nat /\ e \in Nat /\ GroupSize \in Nat /\ OUTPLUSONELOG \in Nat
        BY <1>2, <1>3, <2>2
      <3>2. start <= LeftEdge(m)
        BY <2>4, <2>6, <2>7, <3>1
      <3>3. RightEdge(m) <= e
        BY <2>6, <2>7, <3>1
      <3>4. m[1] <= OUTPLUSONELOG
        BY <2>6, <2>7, <3>1
      <3> QED
        BY <3>2, <3>3, <3>4
    <2> QED
      BY <2>6, <2>9, <2>10, <2>11, <2>12
  <1>8. ASSUME NEW m \in commitments \cup leafs \cup padding PROVE Right(m) /\ value(m) = HashOf(M, m)
    <2> HIDE DEF commitments, leafs, padding, Right
    <2>1. CASE m \in commitments
      BY <1>5, <2>1
    <2>2. CASE m \notin commitments /\ m \in leafs
      BY <1>6, <2>2
    <2>3. CASE m \notin commitments /\ m \notin leafs /\ m \in padding
      BY <1>7, <2>3
    <2> QED
      BY <2>1, <2>2, <2>3
  <1> HIDE DEF commitments, leafs, padding, value
  <1>9. DOMAIN GivenNodes(batch) = commitments \cup leafs \cup padding
    BY <1>1
  <1>10. \A m \in DOMAIN GivenNodes(batch) : GivenNodes(batch)[m] = value(m)
    BY <1>1, <1>9
  <1> QED
    BY <1>8, <1>9, <1>10 DEF e

\* They have every leaf of the batch.
LEMMA GivenNodesCover ==
  ASSUME NEW batch, NEW start, NEW n, IsBatch(batch, start, n),
         NEW j \in Nat, start <= j, j < start + n * GroupSize
  PROVE  Given(GivenNodes(batch), <<0, j>>)
  <1> DEFINE i == calc_first_index(j)
             g == Above(<<0, i>>, OUTPLUSONELOG)
             last == LastLeaf(batch, i)
  <1>1. i \in DOMAIN batch
    BY BatchIs
  <1>2. i \in Nat /\ Whole(i) /\ i + GroupSize <= Capacity /\ i <= j /\ j < i + GroupSize
    <2>1. i <= j /\ j < i + GroupSize
      BY GroupOf
    <2> QED
      BY <1>1, <2>1, BatchIs
  <1>3. GroupSize \in Nat /\ GroupSize >= 1 /\ Capacity \in Nat /\ OUTPLUSONELOG \in 0..HEIGHT
    BY GroupSizeIs
  <1>4. j \in 0..(Capacity - 1)
    BY <1>2, <1>3
  <1>5. \/ batch[i].kind = "leafs" /\ Len(batch[i].leafs) \in 1..GroupSize
        \/ batch[i].kind = "commitment"
    <2>1. batch[i] \in GroupTxs
      BY <1>1 DEF IsBatch
    <2> QED
      BY <2>1, GroupTxIs
  <1>6. DOMAIN GivenNodes(batch) =
          {Above(<<0, k>>, OUTPLUSONELOG) : k \in OfKind(batch, "commitment")}
            \cup (UNION {{<<0, k>> : k \in f..LastLeaf(batch, f)} : f \in OfKind(batch, "leafs")})
            \cup (UNION {PaddingNodes(k, LastLeaf(batch, k)) : k \in OfKind(batch, "leafs")})
    BY DEF GivenNodes
  <1>7. ASSUME NEW m \in Node, m \in DOMAIN GivenNodes(batch), LeftEdge(m) <= j, j < RightEdge(m)
        PROVE  Given(GivenNodes(batch), <<0, j>>)
    BY <1>4, <1>7, HasLeaf DEF Given
  <1> HIDE DEF i
  <1>8. g \in Node /\ g[1] = OUTPLUSONELOG /\ LeftEdge(g) = i /\ RightEdge(g) = i + GroupSize
    BY <1>2, GroupNode
  <1>9. CASE batch[i].kind = "commitment"
    <2>1. g \in DOMAIN GivenNodes(batch)
      BY <1>1, <1>6, <1>9 DEF OfKind
    <2> QED
      BY <1>2, <1>7, <1>8, <2>1
  <1>10. CASE batch[i].kind = "leafs" /\ j <= last
    <2>1. i \in OfKind(batch, "leafs") /\ last \in Nat
      BY <1>1, <1>2, <1>3, <1>5, <1>10 DEF OfKind, LastLeaf
    <2>2. <<0, j>> \in {<<0, k>> : k \in i..LastLeaf(batch, i)}
      BY <1>2, <1>10, <2>1
    <2>3. <<0, j>> \in DOMAIN GivenNodes(batch)
      BY <1>6, <2>1, <2>2
    <2> QED
      BY <2>3 DEF Given
  <1>11. CASE batch[i].kind = "leafs" /\ last < j
    <2>1. i \in OfKind(batch, "leafs") /\ last \in Nat /\ i <= last /\ last \in 0..(Capacity - 1)
      <3>1. i \in OfKind(batch, "leafs")
        BY <1>1, <1>11 DEF OfKind
      <3>2. last = i + Len(batch[i].leafs) - 1
        BY DEF LastLeaf
      <3>3. Len(batch[i].leafs) \in 1..GroupSize
        BY <1>5, <1>11
      <3>4. last \in Nat /\ i <= last /\ last < i + GroupSize
        BY <1>2, <1>3, <3>2, <3>3
      <3> HIDE DEF last
      <3> QED
        BY <1>2, <1>3, <3>1, <3>4
    <2> HIDE DEF last
    <2>2. PICK h \in 0..(HEIGHT - 1) :
            LET A == Above(<<0, last>>, h)
                B == Above(<<0, j>>, h)
            IN  /\ A \in Node /\ A[1] = h /\ A[2] % 2 = 0 /\ LeftEdge(A) <= last /\ last < RightEdge(A)
                /\ B \in Node /\ B[1] = h /\ B[2] % 2 = 1 /\ LeftEdge(B) <= j /\ j < RightEdge(B)
                /\ B[2] = A[2] + 1 /\ A = Sibling(B) /\ RightEdge(A) = LeftEdge(B)
      BY <1>4, <1>11, <2>1, Fork
    <2> DEFINE A == Above(<<0, last>>, h)
               B == Above(<<0, j>>, h)
    <2>3. /\ A \in Node /\ A[1] = h /\ LeftEdge(A) <= last /\ last < RightEdge(A)
          /\ B \in Node /\ B[1] = h /\ B[2] % 2 = 1 /\ LeftEdge(B) <= j /\ j < RightEdge(B)
          /\ B[2] = A[2] + 1 /\ RightEdge(A) = LeftEdge(B)
      BY <2>2
    <2>4. h \in 0..HEIGHT /\ A[2] = last \div Width[h]
      <3>1. h \in 0..HEIGHT
        BY SizesAssumption
      <3> QED
        BY <2>1, <3>1, LeafAbove
    <2> HIDE DEF A, B
    <2>5. /\ LeftEdge(A) \in Nat /\ RightEdge(A) \in Nat /\ LeftEdge(B) \in Nat /\ RightEdge(B) \in Nat
          /\ B[2] \in Nat
      BY <2>3, NodeIs
    <2>6. h < OUTPLUSONELOG
      <3>1. ASSUME ~ h < OUTPLUSONELOG PROVE FALSE
        <4>1. g[1] <= A[1]
          BY <1>3, <1>8, <2>3, <2>4, <3>1
        <4>2. LeftEdge(A) < RightEdge(g) /\ LeftEdge(g) < RightEdge(A)
          BY <1>2, <1>3, <1>8, <1>11, <2>1, <2>3, <2>5
        <4>3. RightEdge(g) <= RightEdge(A)
          BY <1>8, <2>3, <4>1, <4>2, AboveUnique
        <4> QED
          BY <1>2, <1>3, <1>8, <2>3, <2>5, <4>3
      <3> QED
        BY <3>1
    <2>7. RightEdge(B) <= i + GroupSize
      <3>1. B[1] <= g[1]
        BY <1>3, <1>8, <2>3, <2>4, <2>6
      <3>2. LeftEdge(g) < RightEdge(B) /\ LeftEdge(B) < RightEdge(g)
        BY <1>2, <1>3, <1>8, <2>3, <2>5
      <3> QED
        BY <1>8, <2>3, <3>1, <3>2, AboveUnique
    <2>8. B[2] < (i + GroupSize) \div Width[h]
      <3>1. (B[2] + 1) * Width[h] <= i + GroupSize
        BY <2>3, <2>7 DEF RightEdge
      <3>2. Width[h] \in Nat /\ Width[h] >= 1 /\ i + GroupSize \in Nat /\ B[2] + 1 \in Nat
        BY <1>2, <1>3, <2>4, <2>5, WidthPositive
      <3>3. B[2] + 1 <= (i + GroupSize) \div Width[h]
        BY <3>1, <3>2, QuotientAtLeast
      <3>4. (i + GroupSize) \div Width[h] \in Nat
        BY <3>2, Division
      <3> QED
        BY <2>5, <3>3, <3>4
    <2>9. B[2] = PaddingAt(last, h) /\ h \in 0..(OUTPLUSONELOG - 1) /\ B = <<h, B[2]>>
      <3>1. B = <<B[1], B[2]>>
        BY <2>3, NodeIs
      <3> QED
        BY <1>3, <2>3, <2>4, <2>6, <3>1 DEF PaddingAt
    <2>10. B \in PaddingNodes(i, last)
      <3>1. PaddingAt(last, h) < (i + GroupSize) \div Width[h] /\ PaddingAt(last, h) % 2 = 1
        BY <2>3, <2>8, <2>9
      <3> QED
        BY <2>9, <3>1 DEF PaddingNodes
    <2>11. B \in DOMAIN GivenNodes(batch)
      BY <1>6, <2>1, <2>10 DEF last
    <2> QED
      BY <1>7, <2>3, <2>11
  <1>12. last \in Nat \/ batch[i].kind = "commitment"
    BY <1>2, <1>5 DEF LastLeaf
  <1> QED
    BY <1>5, <1>9, <1>10, <1>11, <1>12
-----------------------------------------------------------------------------
\* The indexes after an update up to e that starts at start.
Indexed(t, e, start) == update_first_index(update_next_index(t, e), start)

\* The fields of a tree once its indexes are updated.
LEMMA IndexedIs ==
  ASSUME NEW X, NEW t \in Trees(X), NEW e \in Nat, NEW start \in Nat
  PROVE  LET u == Indexed(t, e, start)
         IN  /\ u \in Trees(X) /\ u.leaves = t.leaves /\ u.stable = t.stable
             /\ u.next = IF e >= t.next THEN e ELSE t.next
             /\ u.db_next = IF e >= t.next THEN e ELSE t.db_next
             /\ u.first = IF t.first = None \/ start < t.first THEN start ELSE t.first
             /\ u.db_first = IF t.first = None \/ start < t.first THEN start ELSE t.db_first
  <1> DEFINE u == update_next_index(t, e)
             w == update_first_index(u, start)
  <1>1. /\ u \in Trees(X) /\ u.leaves = t.leaves /\ u.stable = t.stable
        /\ u.next = IF e >= t.next THEN e ELSE t.next
        /\ u.db_next = IF e >= t.next THEN e ELSE t.db_next
        /\ u.first = t.first /\ u.db_first = t.db_first
    BY DEF update_next_index, Trees
  <1> HIDE DEF u
  <1>2. /\ w \in Trees(X) /\ w.leaves = u.leaves /\ w.stable = u.stable
        /\ w.next = u.next /\ w.db_next = u.db_next
        /\ w.first = IF u.first = None \/ start < u.first THEN start ELSE u.first
        /\ w.db_first = IF u.first = None \/ start < u.first THEN start ELSE u.db_first
    BY <1>1 DEF update_first_index, Trees
  <1> HIDE DEF w
  <1>3. Indexed(t, e, start) = w
    BY DEF Indexed, w, u
  <1> QED
    BY <1>1, <1>2, <1>3

\* The tree of leaves L grows to e with the leaves M, from start on.
Extends(t, L, M, start, e) ==
  /\ M \in Vectors(Values)
  /\ FilledTo(M, IF e >= t.next THEN e ELSE t.next)
  /\ \A i \in 0..(Capacity - 1) : i < t.next => L[i] = M[i]
  /\ t.first = None \/ t.first <= start

\* A tree with updated indexes, ready for the leaves that extend the ledger.
LEMMA IndexedGrows ==
  ASSUME NEW t \in Trees(Values), NEW L, Holds(t, L), NEW M, NEW start, Whole(start),
         NEW e, Whole(e), start < e, e <= Capacity, Extends(t, L, M, start, e)
  PROVE  /\ Grows(t, L, Indexed(t, e, start), M)
         /\ Indexed(t, e, start).first = IF t.first = None THEN start ELSE t.first
         /\ Indexed(t, e, start).db_first = IF t.first = None THEN start ELSE t.db_first
         /\ Whole(Indexed(t, e, start).first)
         /\ Indexed(t, e, start).next <= Capacity
  <1> DEFINE u == Indexed(t, e, start)
  <1>1. start \in Nat /\ e \in Nat /\ t.next \in Nat /\ t.next <= Capacity /\ Whole(t.next)
    BY DEF Whole, Holds
  <1>2. /\ u.leaves = t.leaves
        /\ u.next = IF e >= t.next THEN e ELSE t.next
        /\ u.first = IF t.first = None \/ start < t.first THEN start ELSE t.first
        /\ u.db_first = IF t.first = None \/ start < t.first THEN start ELSE t.db_first
    BY <1>1, IndexedIs
  <1> HIDE DEF u
  <1>3. /\ t.first = None => t.next = 0
        /\ t.first # None => t.first \in Nat /\ t.first < t.next /\ Whole(t.first) /\ t.first <= start
        /\ FilledTo(L, t.next)
    BY DEF Holds, Extends
  <1>4. u.first = IF t.first = None THEN start ELSE t.first
    BY <1>1, <1>2, <1>3
  <1>5. u.db_first = IF t.first = None THEN start ELSE t.db_first
    BY <1>1, <1>2, <1>3
  <1>6. Whole(u.next) /\ t.next <= u.next /\ u.next <= Capacity /\ e <= u.next
    BY <1>1, <1>2
  <1>7. u.first # None => u.first \in Nat /\ u.first < u.next
    BY <1>1, <1>2, <1>3, <1>4
  <1>8. FilledTo(M, u.next) /\ \A i \in 0..(Capacity - 1) : i < t.next => L[i] = M[i]
    BY <1>2 DEF Extends
  <1>9. t.first # None => t.first \in Nat /\ t.first < t.next /\ u.first = t.first
    BY <1>3, <1>4
  <1>10. Grows(t, L, u, M)
    BY <1>1, <1>2, <1>3, <1>6, <1>7, <1>8, <1>9 DEF Grows
  <1> QED
    BY <1>3, <1>4, <1>5, <1>6, <1>10 DEF u

\* After an update the tree holds the new leaves.
LEMMA UpdateHolds ==
  ASSUME NEW t \in Trees(Values), NEW L, Holds(t, L), NEW M, NEW start, Whole(start),
         NEW e, Whole(e), start < e, e <= Capacity, Extends(t, L, M, start, e),
         NEW nodes, NEW b, GivenTrue(t, Indexed(t, e, start), M, nodes, b)
  PROVE  LET u == Indexed(t, e, start)
             v == put_hashes(u, virtual_subtree(u, nodes, b))
         IN  /\ v \in Trees(Values) /\ Holds(v, M) /\ SameIndexes(u, v)
             /\ \A m \in DOMAIN v.leaves : m[1] = 0 => m \in DOMAIN t.leaves \/ m \in DOMAIN nodes
  <1> DEFINE u == Indexed(t, e, start)
             v == put_hashes(u, virtual_subtree(u, nodes, b))
  <1>1. u \in Trees(Values)
    BY IndexedIs DEF Whole
  <1>2. Grows(t, L, u, M) /\ Whole(u.first) /\ u.next <= Capacity
    BY IndexedGrows
  <1>3. StoredTrue(t, L) /\ SeenTrue(t, L) /\ M \in Vectors(Values) /\ DOMAIN t.leaves \subseteq Node
    <2>1. t.leaves \in PartialHashes(Values)
      BY DEF Trees
    <2>2. DOMAIN t.leaves \subseteq Node
      BY <2>1, PartialIs
    <2> QED
      BY <2>2 DEF Holds, Extends
  <1> HIDE DEF u
  <1>4. GivenTrue(t, u, M, nodes, b)
    BY DEF u
  <1>5. /\ v \in Trees(Values) /\ SameIndexes(u, v) /\ StoredTrue(v, M) /\ SeenTrue(v, M)
        /\ \A m \in DOMAIN v.leaves : m[1] = 0 => m \in DOMAIN t.leaves \/ m \in DOMAIN nodes
    BY <1>1, <1>2, <1>3, <1>4, NoneIsNoValue, UpdateTrue, Zenon
  <1> HIDE DEF v
  <1>6. v.next = u.next /\ v.first = u.first
    BY <1>5 DEF SameIndexes
  <1>7. u.first # None
    <2>1. /\ u.first = IF t.first = None THEN start ELSE t.first
      BY IndexedGrows DEF u
    <2>2. start # None
      BY SentinelsAssumption DEF Whole
    <2> QED
      BY <2>1, <2>2
  <1>8. Whole(u.next) /\ u.next <= Capacity /\ u.first \in Nat /\ u.first < u.next /\ FilledTo(M, u.next)
    BY <1>2, <1>7 DEF Grows
  <1>9. Holds(v, M)
    BY <1>2, <1>5, <1>6, <1>7, <1>8 DEF Holds
  <1> QED
    BY <1>5, <1>9 DEF v, u
-----------------------------------------------------------------------------
\* The siblings given with a batch: of all leaves from the end of the tree to the
\* batch.  With none the leaves between are empty.
SiblingsTrue(t, siblings, M, start) ==
  /\ \A m \in DOMAIN siblings :
       /\ m \in Node /\ OUTPLUSONELOG <= m[1] /\ RightEdge(m) <= start
       /\ siblings[m] = HashOf(M, m)
  /\ DOMAIN siblings # {} => t.next = 0
  /\ \A j \in Nat : t.next <= j /\ j < start =>
       IF DOMAIN siblings = {} THEN M[j] = ZeroNote ELSE Given(siblings, <<0, j>>)

\* The bounds of the update.
LEMMA FirstAndLast ==
  ASSUME NEW t \in Trees(Values), NEW batch, NEW start, NEW n, IsBatch(batch, start, n),
         NEW M, NEW siblings, SiblingsTrue(t, siblings, M, start)
  PROVE  /\ Max({LastBound(batch)} \cup {RightEdge(m) - 1 : m \in DOMAIN siblings}) = LastBound(batch)
         /\ Min(DOMAIN batch \cup {LeftEdge(m) : m \in DOMAIN siblings})
              = IF DOMAIN siblings = {} THEN start ELSE 0
  <1> DEFINE ends == {LastBound(batch)} \cup {RightEdge(m) - 1 : m \in DOMAIN siblings}
             starts == DOMAIN batch \cup {LeftEdge(m) : m \in DOMAIN siblings}
  <1>1. /\ start \in Nat /\ start \in DOMAIN batch
        /\ \A i \in DOMAIN batch : i \in Nat /\ start <= i
    BY BatchIs
  <1>2. LastBound(batch) \in Nat /\ start <= LastBound(batch) /\ Min(DOMAIN batch) = start
    <2> DEFINE l == (start + n * GroupSize) - GroupSize
    <2>1. LastBound(batch) \in Nat /\ l <= LastBound(batch) /\ Min(DOMAIN batch) = start
      BY LastBoundIs
    <2>2. l \in Nat /\ start <= l
      <3>1. l \in DOMAIN batch
        BY BatchIs
      <3> QED
        BY <1>1, <3>1
    <2> QED
      BY <1>1, <2>1, <2>2
  <1>3. \A m \in DOMAIN siblings :
          /\ m \in Node /\ LeftEdge(m) \in Nat /\ RightEdge(m) \in Nat /\ LeftEdge(m) < RightEdge(m)
          /\ RightEdge(m) <= start
    BY NodeIs DEF SiblingsTrue
  <1>4. Max(ends) = LastBound(batch)
    <2>1. ends \in SUBSET Nat /\ LastBound(batch) \in ends
      BY <1>2, <1>3
    <2>2. \A k \in ends : k <= LastBound(batch)
      BY <1>1, <1>2, <1>3
    <2> HIDE DEF ends
    <2> QED
      BY <2>1, <2>2, MaxIs
  <1>5. CASE DOMAIN siblings = {}
    <2>1. starts = DOMAIN batch
      BY <1>5
    <2> QED
      BY <1>2, <1>4, <1>5, <2>1
  <1>6. CASE DOMAIN siblings # {}
    <2>1. starts \in SUBSET Nat /\ starts # {}
      BY <1>1, <1>3
    <2>2. t.next = 0
      BY <1>6 DEF SiblingsTrue
    <2>3. 0 < start
      BY <1>1, <1>3, <1>6
    <2>4. Given(siblings, <<0, 0>>)
      BY <1>1, <1>6, <2>2, <2>3 DEF SiblingsTrue
    <2>5. PICK m \in DOMAIN siblings : m = <<0, 0>> \/ m \in Ancestors(<<0, 0>>)
      BY <2>4 DEF Given
    <2>6. 0 \in 0..(Capacity - 1)
      BY GroupSizeIs
    <2>7. <<0, 0>> \in Node /\ LeftEdge(<<0, 0>>) = 0
      BY <2>6, LeafNode
    <2>8. LeftEdge(m) <= 0
      <3>1. CASE m = <<0, 0>>
        BY <2>7, <3>1
      <3>2. CASE m \in Ancestors(<<0, 0>>)
        BY <2>7, <3>2, AboveHas
      <3> QED
        BY <2>5, <3>1, <3>2
    <2>9. 0 \in starts
      <3>1. LeftEdge(m) = 0
        BY <1>3, <2>8
      <3> QED
        BY <3>1
    <2>10. Min(starts) \in Nat /\ Min(starts) <= 0
      <3> HIDE DEF starts
      <3>1. Min(starts) \in starts /\ \A k \in starts : Min(starts) <= k
        BY <2>1, MinIsLeast
      <3> QED
        BY <2>1, <2>9, <3>1
    <2> QED
      BY <1>4, <1>6, <2>10
  <1> QED
    BY <1>5, <1>6

\* The end and the first index once they are updated.
LEMMA IndexesAre ==
  ASSUME NEW t \in Trees(Values), NEW e \in Nat, NEW start \in Nat
  PROVE  /\ Indexed(t, e, start).next = IF e >= t.next THEN e ELSE t.next
         /\ t.first = None => Indexed(t, e, start).first = start
  BY IndexedIs

\* The nodes given with a batch and its siblings are right, and all there are.
LEMMA BatchGiven ==
  ASSUME NEW t \in Trees(Values), NEW L, Holds(t, L), NEW M,
         NEW batch, NEW start, NEW n, IsBatch(batch, start, n), BatchIn(batch, M),
         NEW e, e = start + n * GroupSize, Extends(t, L, M, start, e),
         NEW siblings, SiblingsTrue(t, siblings, M, start),
         NEW nodes, NEW b, NEW first,
         first = IF DOMAIN siblings = {} THEN start ELSE 0,
         nodes = [m \in DOMAIN GivenNodes(batch) \cup DOMAIN siblings |->
                    IF m \in DOMAIN siblings THEN siblings[m] ELSE GivenNodes(batch)[m]],
         b = [updated_left |-> t.next, updated_right |-> Indexed(t, e, start).next,
              new_left |-> first, new_right |-> LastBound(batch) + 1]
  PROVE  GivenTrue(t, Indexed(t, e, start), M, nodes, b)
  <1> DEFINE u == Indexed(t, e, start)
             l == e - GroupSize
             last == LastBound(batch)
             given == GivenNodes(batch)
  <1>1. /\ start \in Nat /\ e \in Nat /\ Whole(e) /\ Whole(start) /\ start < e /\ e <= Capacity
        /\ l \in DOMAIN batch /\ Whole(l) /\ l + GroupSize <= Capacity
        /\ GroupSize \in Nat /\ GroupSize >= 1 /\ Capacity \in Nat /\ OUTPLUSONELOG \in 0..HEIGHT
    BY BatchIs, GroupSizeIs DEF IsBatch
  <1>2. /\ last \in Nat /\ l <= last /\ last < e
        /\ last = IF batch[l].kind = "leafs" THEN LastLeaf(batch, l) ELSE l
    BY LastBoundIs
  <1>3. /\ u.next = IF e >= t.next THEN e ELSE t.next
        /\ t.first = None => u.first = start
    BY <1>1, IndexesAre
  <1>4. t.next \in Nat /\ t.next <= Capacity
    BY DEF Holds, Whole
  <1>5. /\ b.updated_left = t.next /\ b.updated_right = u.next
        /\ b.new_left = first /\ b.new_right = last + 1
    OBVIOUS
  <1>6. DOMAIN nodes = DOMAIN given \cup DOMAIN siblings
    OBVIOUS
  <1>7. \A m \in DOMAIN nodes : nodes[m] = IF m \in DOMAIN siblings THEN siblings[m] ELSE given[m]
    OBVIOUS
  <1> HIDE DEF u, last, given
  <1>8. ASSUME NEW m \in DOMAIN nodes
        PROVE  /\ m \in Node /\ nodes[m] = HashOf(M, m) /\ LeftEdge(m) < u.next
               /\ \/ m[1] <= OUTPLUSONELOG
                  \/ t.next = 0 /\ u.first # None /\ RightEdge(m) <= u.first
    <2>1. CASE m \in DOMAIN siblings
      <3>1. m \in Node /\ RightEdge(m) <= start /\ nodes[m] = HashOf(M, m) /\ t.next = 0
        BY <1>7, <2>1 DEF SiblingsTrue
      <3>2. u.first = start
        <4>1. t.first = None
          BY <3>1 DEF Holds
        <4> QED
          BY <1>3, <4>1
      <3>3. start # None
        BY <1>1, SentinelsAssumption
      <3>4. LeftEdge(m) < u.next
        <4>1. LeftEdge(m) \in Nat /\ RightEdge(m) \in Nat /\ LeftEdge(m) < RightEdge(m)
          BY <3>1, NodeIs
        <4>2. u.next = IF e >= t.next THEN e ELSE t.next
          BY <1>3
        <4>3. start \in Nat /\ e \in Nat /\ start < e /\ t.next \in Nat
          BY <1>1, <1>4
        <4> QED
          BY <3>1, <4>1, <4>2, <4>3
      <3> QED
        BY <3>1, <3>2, <3>3, <3>4
    <2>2. CASE m \notin DOMAIN siblings
      <3>1. m \in DOMAIN given /\ nodes[m] = given[m]
        BY <1>6, <1>7, <2>2
      <3>2. m \in Node /\ m[1] <= OUTPLUSONELOG /\ RightEdge(m) <= e /\ given[m] = HashOf(M, m)
        BY <3>1, GivenNodesTrue DEF given
      <3>3. LeftEdge(m) < u.next
        <4>1. LeftEdge(m) \in Nat /\ RightEdge(m) \in Nat /\ LeftEdge(m) < RightEdge(m)
          BY <3>2, NodeIs
        <4>2. u.next = IF e >= t.next THEN e ELSE t.next
          BY <1>3
        <4>3. e \in Nat /\ t.next \in Nat
          BY <1>1, <1>4
        <4> QED
          BY <3>2, <4>1, <4>2, <4>3
      <3> QED
        BY <3>1, <3>2, <3>3
    <2> QED
      BY <2>1, <2>2
  <1>9. ASSUME NEW m \in Node, Padding(m, b), \A a \in Ancestors(m) : a \notin DOMAIN nodes
        PROVE  HashOf(M, m) = zero_note_hashes[m[1]]
    <2>1. /\ RightEdge(m) <= first \/ last + 1 <= LeftEdge(m)
          /\ t.next <= LeftEdge(m) /\ RightEdge(m) <= u.next
      BY <1>5, <1>9 DEF Padding
    <2>2. /\ LeftEdge(m) \in Nat /\ RightEdge(m) \in Nat /\ LeftEdge(m) < RightEdge(m)
          /\ m[1] \in 0..HEIGHT
      BY NodeIs
    <2>3. u.next = e
      BY <1>1, <1>3, <1>4, <2>1, <2>2
    <2>4. \A j \in Below(m) : M[j] = ZeroNote
      <3>1. CASE RightEdge(m) <= first
        <4>1. DOMAIN siblings = {} /\ first = start
          BY <2>2, <3>1
        <4>2. \A j \in Below(m) : j \in Nat /\ t.next <= j /\ j < start
          BY <1>1, <1>4, <2>1, <2>2, <3>1, <4>1 DEF Below
        <4> QED
          BY <4>1, <4>2 DEF SiblingsTrue
      <3>2. CASE last + 1 <= LeftEdge(m) /\ batch[l].kind = "leafs"
        <4>1. batch[l] \in GroupTxs /\ batch[l].kind # "commitment"
          BY <1>1, <3>2 DEF IsBatch
        <4>2. /\ Len(batch[l].leafs) \in 1..GroupSize
              /\ \A k \in 1..GroupSize :
                   TxLeaves(batch[l])[k] = IF k <= Len(batch[l].leafs) THEN batch[l].leafs[k] ELSE ZeroNote
          BY <4>1, GroupTxIs
        <4>3. last = l + Len(batch[l].leafs) - 1
          BY <1>2, <3>2 DEF LastLeaf
        <4> SUFFICES ASSUME NEW j \in Below(m) PROVE M[j] = ZeroNote
          OBVIOUS
        <4>4. j \in Nat /\ last < j /\ j < e
          BY <1>1, <1>2, <2>1, <2>2, <2>3, <3>2 DEF Below
        <4>5. l \in Nat /\ l <= j /\ j < l + GroupSize
          <5>1. l \in Nat /\ l \in DOMAIN batch
            BY <1>1 DEF Whole
          <5>2. e = l + GroupSize /\ GroupSize \in Nat
            BY <1>1
          <5>3. l <= last /\ last \in Nat
            BY <1>2
          <5> HIDE DEF l
          <5> QED
            BY <4>4, <5>1, <5>2, <5>3
        <4>6. (j - l) + 1 \in 1..GroupSize /\ M[j] = TxLeaves(batch[l])[(j - l) + 1]
          <5>1. l \in DOMAIN batch /\ j \in Nat
            BY <1>1, <4>4
          <5> HIDE DEF l
          <5> QED
            BY <4>5, <5>1, GroupLeaf
        <4>7. ~ (j - l) + 1 <= Len(batch[l].leafs)
          BY <4>2, <4>3, <4>4, <4>5
        <4> QED
          BY <4>2, <4>6, <4>7
      <3>3. CASE last + 1 <= LeftEdge(m) /\ batch[l].kind # "leafs"
        <4> DEFINE g == Above(<<0, l>>, OUTPLUSONELOG)
        <4>1. batch[l] \in GroupTxs
          BY <1>1 DEF IsBatch
        <4>2. batch[l].kind = "commitment"
          BY <3>3, <4>1, GroupTxIs
        <4>3. g \in DOMAIN given
          <5>1. l \in OfKind(batch, "commitment")
            BY <1>1, <4>2 DEF OfKind
          <5> QED
            BY <5>1 DEF GivenNodes, given
        <4>4. g \in Node /\ g[1] = OUTPLUSONELOG /\ LeftEdge(g) = l /\ RightEdge(g) = l + GroupSize
          BY <1>1, GroupNode
        <4> HIDE DEF g
        <4>5. last = l
          BY <1>2, <3>3
        <4>6. /\ l \in Nat /\ l + GroupSize = e /\ l < LeftEdge(m)
          <5>1. l \in Nat
            BY <1>1 DEF Whole
          <5>2. l + GroupSize = e
            BY <1>1
          <5>3. l + 1 <= LeftEdge(m)
            BY <3>3, <4>5
          <5> HIDE DEF l
          <5> QED
            BY <2>2, <5>1, <5>2, <5>3
        <4>7. LeftEdge(g) <= LeftEdge(m) /\ RightEdge(m) <= RightEdge(g)
          BY <2>1, <2>2, <2>3, <4>4, <4>6
        <4>8. m[1] < g[1]
          <5>1. ASSUME ~ m[1] < g[1] PROVE FALSE
            <6>1. g[1] <= m[1]
              BY <1>1, <2>2, <4>4, <5>1
            <6>2. LeftEdge(m) < RightEdge(g) /\ LeftEdge(g) < RightEdge(m)
              BY <2>2, <4>4, <4>6, <4>7
            <6>3. LeftEdge(m) <= LeftEdge(g)
              BY <4>4, <6>1, <6>2, AboveUnique
            <6> QED
              BY <2>2, <4>4, <4>6, <6>3
          <5> QED
            BY <5>1
        <4>9. g \in Ancestors(m)
          BY <4>4, <4>7, <4>8, AncestorsAre
        <4> QED
          BY <1>6, <1>9, <4>3, <4>9
      <3> QED
        BY <2>1, <3>1, <3>2, <3>3
    <2>5. HashOf(M, m) = [k \in 1..Width[m[1]] |-> ZeroNote]
      BY <2>4, BelowHas DEF HashOf
    <2> QED
      BY <2>5, EmptyHashes
  <1>10. ASSUME NEW m \in Node, m[1] = 0, t.next <= LeftEdge(m), LeftEdge(m) < u.next
         PROVE  Padding(m, b) \/ Given(nodes, m)
    <2> DEFINE j == LeftEdge(m)
    <2>1. m = <<0, j>> /\ j \in Nat /\ RightEdge(m) = j + 1
      <3>1. m = <<m[1], m[2]>> /\ LeftEdge(m) = m[2] /\ RightEdge(m) = LeftEdge(m) + 1 /\ LeftEdge(m) \in Nat
        BY <1>10, NodeIs, WidthIs DEF LeftEdge
      <3> QED
        BY <1>10, <3>1
    <2> HIDE DEF j
    <2>2. t.next <= j /\ j < u.next
      BY <1>10 DEF j
    <2>3. u.next = e
      BY <1>1, <1>3, <1>4, <2>1, <2>2
    <2>4. CASE start <= j
      <3>1. Given(given, <<0, j>>)
        BY <2>1, <2>2, <2>3, <2>4, GivenNodesCover DEF given
      <3> QED
        BY <1>6, <2>1, <3>1 DEF Given
    <2>5. CASE j < start /\ DOMAIN siblings = {}
      <3>1. RightEdge(m) <= first /\ RightEdge(m) <= u.next
        BY <1>1, <2>1, <2>3, <2>5
      <3> QED
        BY <1>5, <1>10, <3>1 DEF Padding
    <2>6. CASE j < start /\ DOMAIN siblings # {}
      <3>1. Given(siblings, <<0, j>>)
        BY <2>1, <2>2, <2>6 DEF SiblingsTrue
      <3> QED
        BY <1>6, <2>1, <3>1 DEF Given
    <2>7. start <= j \/ j < start
      BY <1>1, <2>1
    <2> QED
      BY <2>4, <2>5, <2>6, <2>7, Zenon
  <1>11. GivenTrue(t, u, M, nodes, b)
    <2> HIDE DEF l
    <2> QED
      BY <1>5, <1>8, <1>9, <1>10 DEF GivenTrue
  <1> QED
    BY <1>11 DEF u

\* The nodes given with a batch and its siblings.
BatchNodes(batch, siblings) ==
  [m \in DOMAIN GivenNodes(batch) \cup DOMAIN siblings |->
     IF m \in DOMAIN siblings THEN siblings[m] ELSE GivenNodes(batch)[m]]

\* The range that a batch updates.
BatchRange(t, u, batch, siblings, start) ==
  [updated_left |-> t.next, updated_right |-> u.next,
   new_left |-> IF DOMAIN siblings = {} THEN start ELSE 0, new_right |-> LastBound(batch) + 1]

\* The tree once u has taken the nodes into a range.
Updated(u, nodes, b) == put_hashes(u, virtual_subtree(u, nodes, b))

\* What add_leafs_commitments_and_siblings writes.
AddWrites(t, batch, siblings, start, e) ==
  LET u == Indexed(t, e, start)
  IN  <<update_next_index(t, e), u,
        Updated(u, BatchNodes(batch, siblings), BatchRange(t, u, batch, siblings, start))>>

\* It is an update with these nodes.
LEMMA AddIs ==
  ASSUME NEW t \in Trees(Values), NEW L, Holds(t, L), NEW M,
         NEW batch, NEW start, NEW n, IsBatch(batch, start, n), BatchIn(batch, M),
         NEW e, e = start + n * GroupSize, Extends(t, L, M, start, e),
         NEW siblings, SiblingsTrue(t, siblings, M, start)
  PROVE  LET u == Indexed(t, e, start)
         IN  /\ add_leafs_commitments_and_siblings(t, batch, siblings)
                  = AddWrites(t, batch, siblings, start, e)
             /\ Last(add_leafs_commitments_and_siblings(t, batch, siblings))
                  = Updated(u, BatchNodes(batch, siblings), BatchRange(t, u, batch, siblings, start))
             /\ GivenTrue(t, u, M, BatchNodes(batch, siblings), BatchRange(t, u, batch, siblings, start))
  <1> DEFINE first == IF DOMAIN siblings = {} THEN start ELSE 0
             last == LastBound(batch)
             u == Indexed(t, e, start)
             given == GivenNodes(batch)
             nodes == [m \in DOMAIN given \cup DOMAIN siblings |->
                         IF m \in DOMAIN siblings THEN siblings[m] ELSE given[m]]
             b == [updated_left |-> t.next, updated_right |-> u.next,
                   new_left |-> first, new_right |-> last + 1]
             t1 == update_next_index(t, e)
             v == put_hashes(u, virtual_subtree(u, nodes, b))
  <1>1. /\ start \in Nat /\ e \in Nat /\ Whole(e) /\ Whole(start) /\ start < e /\ e <= Capacity
    BY BatchIs DEF IsBatch
  <1>2. calc_next_index(last) = e /\ Min(DOMAIN batch) = start
    BY LastBoundIs
  <1>3. /\ Max({last} \cup {RightEdge(m) - 1 : m \in DOMAIN siblings}) = last
        /\ Min(DOMAIN batch \cup {LeftEdge(m) : m \in DOMAIN siblings}) = first
    BY FirstAndLast
  <1>4. t1.next = u.next
    BY DEF Indexed, update_first_index
  <1>5. add_leafs_commitments_and_siblings(t, batch, siblings) = <<t1, u, v>>
    <2> HIDE DEF last, first, given
    <2>1. /\ calc_next_index(last) = e /\ Min(DOMAIN batch) = start
          /\ Max({LastBound(batch)} \cup {RightEdge(m) - 1 : m \in DOMAIN siblings}) = last
          /\ Min(DOMAIN batch \cup {LeftEdge(m) : m \in DOMAIN siblings}) = first
          /\ GivenNodes(batch) = given /\ update_first_index(t1, start) = u
      BY <1>2, <1>3 DEF last, given, Indexed
    <2> HIDE DEF t1, u
    <2>2. /\ update_next_index(t, e) = t1 /\ t1.next = u.next
      BY <1>4 DEF t1
    <2> QED
      BY <2>1, <2>2 DEF add_leafs_commitments_and_siblings
  <1>6. Last(add_leafs_commitments_and_siblings(t, batch, siblings)) = v
    <2> HIDE DEF t1, u, v
    <2> QED
      BY <1>5 DEF Last
  <1>7. GivenTrue(t, u, M, nodes, b)
    BY BatchGiven
  <1>8. <<t1, u, v>> = AddWrites(t, batch, siblings, start, e)
    <2> HIDE DEF last, first, given, u
    <2>1. nodes = BatchNodes(batch, siblings) /\ b = BatchRange(t, u, batch, siblings, start)
      BY DEF BatchNodes, BatchRange, given, first, last
    <2> HIDE DEF nodes, b
    <2> QED
      BY <2>1 DEF AddWrites, Updated, u
  <1> HIDE DEF u
  <1> QED
    BY <1>5, <1>6, <1>7, <1>8 DEF Updated, BatchNodes, BatchRange, u, nodes, b, v, first, given, last

\* After add_leafs_commitments_and_siblings the tree holds the new leaves.
LEMMA AddTrue ==
  ASSUME NEW t \in Trees(Values), NEW L, Holds(t, L), NEW M,
         NEW batch, NEW start, NEW n, IsBatch(batch, start, n), BatchIn(batch, M),
         NEW e, e = start + n * GroupSize, Extends(t, L, M, start, e),
         NEW siblings, SiblingsTrue(t, siblings, M, start)
  PROVE  LET v == Last(add_leafs_commitments_and_siblings(t, batch, siblings))
         IN  /\ v \in Trees(Values) /\ Holds(v, M) /\ SameIndexes(Indexed(t, e, start), v)
             /\ \A m \in DOMAIN v.leaves : m[1] = 0 =>
                  m \in DOMAIN t.leaves \/ ToldLeaf(batch, m[2]) \/ OUTPLUSONELOG = 0
  <1> DEFINE u == Indexed(t, e, start)
             nodes == BatchNodes(batch, siblings)
             b == BatchRange(t, u, batch, siblings, start)
             v == put_hashes(u, virtual_subtree(u, nodes, b))
  <1>1. /\ start \in Nat /\ e \in Nat /\ Whole(e) /\ Whole(start) /\ start < e /\ e <= Capacity
    BY BatchIs DEF IsBatch
  <1>2. /\ Last(add_leafs_commitments_and_siblings(t, batch, siblings)) = Updated(u, nodes, b)
        /\ GivenTrue(t, u, M, nodes, b)
    BY AddIs
  <1>3. DOMAIN nodes = DOMAIN GivenNodes(batch) \cup DOMAIN siblings
    BY DEF BatchNodes
  <1> HIDE DEF nodes, b
  <1>4. /\ v \in Trees(Values) /\ Holds(v, M) /\ SameIndexes(u, v)
        /\ \A m \in DOMAIN v.leaves : m[1] = 0 => m \in DOMAIN t.leaves \/ m \in DOMAIN nodes
    BY <1>1, <1>2, UpdateHolds
  <1>5. \A m \in DOMAIN nodes : m[1] = 0 => ToldLeaf(batch, m[2]) \/ OUTPLUSONELOG = 0
    <2>1. \A m \in DOMAIN GivenNodes(batch) : m[1] = 0 => ToldLeaf(batch, m[2]) \/ OUTPLUSONELOG = 0
      BY GivenNodesTrue
    <2>2. \A m \in DOMAIN siblings : m[1] = 0 => OUTPLUSONELOG = 0
      BY GroupSizeIs DEF SiblingsTrue
    <2> QED
      BY <1>3, <2>1, <2>2
  <1>6. Last(add_leafs_commitments_and_siblings(t, batch, siblings)) = v
    BY <1>2 DEF Updated
  <1> HIDE DEF v, u
  <1> QED
    BY <1>4, <1>5, <1>6 DEF u
-----------------------------------------------------------------------------
\* The first n hashes, those beyond last left out.
Part(hashes, last, n) == [k \in 1..(IF n <= last THEN n ELSE last) |-> hashes[k]]

\* Without the zero notes at its end a group is what is before them.
LEMMA NonZeroIs ==
  ASSUME NEW X, NEW hashes \in Seq(X), NEW last \in 0..Len(hashes),
         \A k \in 1..Len(hashes) : hashes[k] = ZeroNote <=> last < k
  PROVE  NonZero(hashes) = Part(hashes, last, Len(hashes))
  <1> DEFINE N == Len(hashes)
             Body(f) == [n \in 0..N |->
                           IF n = 0 THEN <<>>
                           ELSE IF hashes[n] = ZeroNote THEN f[n - 1]
                           ELSE Append(f[n - 1], hashes[n])]
             part == [n \in 0..N |-> Part(hashes, last, n)]
             kept == CHOOSE f : f = Body(f)
  <1>1. N \in Nat /\ last \in Nat /\ last <= N
    OBVIOUS
  <1>2. \A n \in 0..N : Part(hashes, last, n) \in Seq(X)
    <2> SUFFICES ASSUME NEW n \in 0..N PROVE Part(hashes, last, n) \in Seq(X)
      OBVIOUS
    <2> DEFINE m == IF n <= last THEN n ELSE last
    <2>1. m \in 0..N
      BY <1>1
    <2>2. Part(hashes, last, n) = [k \in 1..m |-> hashes[k]]
      BY DEF Part
    <2> HIDE DEF m
    <2>3. \A k \in 1..m : hashes[k] \in X
      BY <1>1, <2>1
    <2> QED
      BY <2>1, <2>2, <2>3
  <1>3. ASSUME NEW n \in 1..N
        PROVE  Part(hashes, last, n) = IF hashes[n] = ZeroNote THEN Part(hashes, last, n - 1)
                                       ELSE Append(Part(hashes, last, n - 1), hashes[n])
    <2>1. CASE last < n
      <3>1. hashes[n] = ZeroNote
        BY <2>1
      <3>2. (IF n <= last THEN n ELSE last) = last /\ (IF n - 1 <= last THEN n - 1 ELSE last) = last
        BY <1>1, <2>1
      <3>3. Part(hashes, last, n) = Part(hashes, last, n - 1)
        BY <3>2 DEF Part
      <3> QED
        BY <3>1, <3>3
    <2>2. CASE ~ last < n
      <3>1. hashes[n] # ZeroNote
        BY <2>2
      <3>2. n <= last /\ n - 1 <= last /\ n - 1 \in Nat
        BY <1>1, <2>2
      <3> DEFINE p == [k \in 1..(n - 1) |-> hashes[k]]
      <3>3. Part(hashes, last, n - 1) = p /\ Part(hashes, last, n) = [k \in 1..n |-> hashes[k]]
        BY <3>2 DEF Part
      <3>4. p \in Seq(X) /\ Len(p) = n - 1
        BY <3>2
      <3>5. Append(p, hashes[n]) = [k \in 1..n |-> hashes[k]]
        BY <3>2, <3>4
      <3> QED
        BY <3>1, <3>3, <3>5
    <2> QED
      BY <2>1, <2>2
  <1>4. part = Body(part)
    <2>1. \A n \in 0..N : part[n] = Body(part)[n]
      <3> SUFFICES ASSUME NEW n \in 0..N PROVE part[n] = Body(part)[n]
        OBVIOUS
      <3>1. CASE n = 0
        <4>1. Part(hashes, last, 0) = <<>>
          <5>1. (IF 0 <= last THEN 0 ELSE last) = 0
            BY <1>1
          <5> QED
            BY <5>1 DEF Part
        <4> QED
          BY <3>1, <4>1
      <3>2. CASE n # 0
        <4>1. n \in 1..N /\ n - 1 \in 0..N /\ part[n - 1] = Part(hashes, last, n - 1)
          BY <3>2
        <4> QED
          BY <1>3, <3>2, <4>1
      <3> QED
        BY <3>1, <3>2
    <2> QED
      BY <2>1
  <1>5. kept = Body(kept)
    <2> HIDE DEF Body, part
    <2> QED
      BY <1>4
  <1>6. \A n \in 0..N : kept[n] = Part(hashes, last, n)
    <2> DEFINE S == {n \in 0..N : kept[n] = Part(hashes, last, n)}
    <2> HIDE DEF kept
    <2>1. kept[0] = <<>>
      BY <1>1, <1>5
    <2>2. \A n \in 1..N : kept[n] = IF hashes[n] = ZeroNote THEN kept[n - 1]
                                    ELSE Append(kept[n - 1], hashes[n])
      <3> SUFFICES ASSUME NEW n \in 1..N
                   PROVE  kept[n] = IF hashes[n] = ZeroNote THEN kept[n - 1]
                                    ELSE Append(kept[n - 1], hashes[n])
        OBVIOUS
      <3>1. n \in 0..N /\ n # 0
        OBVIOUS
      <3> QED
        BY <1>5, <3>1
    <2>3. 0 \in S
      <3>1. (IF 0 <= last THEN 0 ELSE last) = 0
        BY <1>1
      <3>2. Part(hashes, last, 0) = <<>>
        BY <3>1 DEF Part
      <3> QED
        BY <1>1, <2>1, <3>2
    <2>4. ASSUME NEW n \in 1..N, n - 1 \in S PROVE n \in S
      <3>1. n \in 0..N /\ kept[n - 1] = Part(hashes, last, n - 1)
        BY <2>4
      <3>2. kept[n] = Part(hashes, last, n)
        BY <1>3, <2>2, <3>1, Zenon
      <3> QED
        BY <3>1, <3>2
    <2> HIDE DEF S, N
    <2>5. 0..N \subseteq S
      BY <1>1, <2>3, <2>4, IntervalInduction
    <2> QED
      BY <2>5 DEF S
  <1>7. NonZero(hashes) = kept[N]
    BY DEF NonZero
  <1> QED
    BY <1>1, <1>6, <1>7

\* Exactly the padding of a transaction told by its leaves is filtered out.
LEMMA LeavesKept ==
  ASSUME NEW tx \in GroupTxs, tx.kind = "leafs"
  PROVE  NonZero(TxLeaves(tx)) = tx.leafs
  <1> DEFINE leafs == tx.leafs
             last == Len(leafs)
             hashes == TxLeaves(tx)
  <1>1. /\ hashes \in [1..GroupSize -> Full] /\ leafs \in Seq(Leaf) /\ last \in 1..GroupSize
        /\ \A k \in 1..GroupSize : hashes[k] = IF k <= last THEN leafs[k] ELSE ZeroNote
    <2>1. tx.kind # "commitment"
      OBVIOUS
    <2> QED
      BY <2>1, GroupTxIs
  <1>2. GroupSize \in Nat
    BY GroupSizeIs
  <1> HIDE DEF hashes, leafs
  <1>3. hashes \in Seq(Full) /\ Len(hashes) = GroupSize /\ last \in 0..Len(hashes)
    BY <1>1, <1>2
  <1>4. \A k \in 1..Len(hashes) : hashes[k] = ZeroNote <=> last < k
    <2> SUFFICES ASSUME NEW k \in 1..Len(hashes) PROVE hashes[k] = ZeroNote <=> last < k
      OBVIOUS
    <2>1. k \in 1..GroupSize /\ k \in Nat /\ last \in Nat
      BY <1>1, <1>2, <1>3
    <2>2. k <= last => leafs[k] \in Leaf
      BY <1>1, <2>1
    <2> QED
      BY <1>1, <2>1, <2>2, LeafAssumption
  <1>5. NonZero(hashes) = Part(hashes, last, Len(hashes))
    BY <1>3, <1>4, NonZeroIs
  <1>6. Part(hashes, last, Len(hashes)) = [k \in 1..last |-> hashes[k]]
    <2>1. (IF Len(hashes) <= last THEN Len(hashes) ELSE last) = last
      BY <1>1, <1>2, <1>3
    <2> QED
      BY <2>1 DEF Part
  <1>7. [k \in 1..last |-> hashes[k]] = leafs
    <2>1. \A k \in 1..last : hashes[k] = leafs[k]
      BY <1>1, <1>2
    <2>2. leafs = [k \in 1..last |-> leafs[k]]
      BY <1>1
    <2> QED
      BY <2>1, <2>2
  <1> QED
    BY <1>5, <1>6, <1>7 DEF hashes, leafs
\* The leaves given by add_hashes.
HashNodes(leafs, start) ==
  [m \in {<<0, start + k - 1>> : k \in 1..Len(leafs)} |-> <<leafs[m[2] - start + 1]>>]

\* The range that they update.
HashRange(t, u, leafs, start) ==
  [updated_left |-> t.next, updated_right |-> u.next,
   new_left |-> start, new_right |-> start + Len(leafs)]

\* add_hashes is an update with these leaves.
LEMMA AddHashesIs ==
  ASSUME NEW t \in Trees(Values), NEW L, Holds(t, L), NEW M,
         NEW tx \in GroupTxs, tx.kind = "leafs", NEW start, Whole(start),
         NEW e, e = start + GroupSize, e <= Capacity, Extends(t, L, M, start, e),
         \A k \in 1..GroupSize : M[start + k - 1] = TxLeaves(tx)[k],
         \A j \in Nat : t.next <= j /\ j < start => M[j] = ZeroNote
  PROVE  LET u == Indexed(t, e, start)
         IN  /\ \E w : add_hashes(t, start, TxLeaves(tx)) = <<update_next_index(t, e), u, w>>
             /\ Last(add_hashes(t, start, TxLeaves(tx)))
                  = Updated(u, HashNodes(tx.leafs, start), HashRange(t, u, tx.leafs, start))
             /\ GivenTrue(t, u, M, HashNodes(tx.leafs, start), HashRange(t, u, tx.leafs, start))
             /\ \A m \in DOMAIN HashNodes(tx.leafs, start) :
                  m[1] = 0 /\ m[2] \in Nat /\ start <= m[2] /\ m[2] < e
  <1> DEFINE kept == tx.leafs
             last == start + Len(kept)
             t1 == update_next_index(t, e)
             u == Indexed(t, e, start)
             nodes == [m \in {<<0, start + k - 1>> : k \in 1..Len(kept)} |->
                         <<kept[m[2] - start + 1]>>]
             b == [updated_left |-> t.next, updated_right |-> u.next,
                   new_left |-> start, new_right |-> last]
             v == put_hashes(u, virtual_subtree(u, nodes, b))
  <1>1. /\ kept \in Seq(Leaf) /\ Len(kept) \in 1..GroupSize
        /\ \A k \in 1..GroupSize : TxLeaves(tx)[k] = IF k <= Len(kept) THEN kept[k] ELSE ZeroNote
    <2>1. tx.kind # "commitment"
      OBVIOUS
    <2> QED
      BY <2>1, GroupTxIs
  <1>2. /\ start \in Nat /\ GroupSize \in Nat /\ GroupSize >= 1 /\ Capacity \in Nat
        /\ e \in Nat /\ start < e /\ Whole(e) /\ calc_next_index(start) = e
    <2>1. start \in Nat /\ GroupSize \in Nat /\ GroupSize >= 1 /\ Capacity \in Nat
      BY GroupSizeIs DEF Whole
    <2>2. start <= start /\ start < start + GroupSize
      BY <2>1
    <2>3. calc_next_index(start) = e
      BY <2>1, <2>2, GroupUnique
    <2>4. Whole(e)
      BY <2>1, <2>3, GroupOf
    <2> QED
      BY <2>1, <2>2, <2>3, <2>4
  <1>3. NonZero(TxLeaves(tx)) = kept /\ kept # <<>>
    <2>1. NonZero(TxLeaves(tx)) = kept
      BY LeavesKept
    <2> QED
      BY <1>1, <2>1
  <1>4. t1.next = u.next
    BY DEF Indexed, update_first_index
  <1>5. add_hashes(t, start, TxLeaves(tx)) = <<t1, u, v>>
    <2>1. update_first_index(t1, start) = u
      BY DEF Indexed
    <2> HIDE DEF t1, u, kept
    <2>2. update_next_index(t, e) = t1 /\ t1.next = u.next
      BY <1>4 DEF t1
    <2> QED
      BY <1>2, <1>3, <2>1, <2>2 DEF add_hashes
  <1>6. Last(add_hashes(t, start, TxLeaves(tx))) = v
    <2> HIDE DEF t1, u, v
    <2> QED
      BY <1>5 DEF Last
  <1>7. u.next = IF e >= t.next THEN e ELSE t.next
    BY <1>2, IndexesAre
  <1>8. /\ DOMAIN nodes = {<<0, start + k - 1>> : k \in 1..Len(kept)}
        /\ \A m \in DOMAIN nodes : nodes[m] = <<kept[m[2] - start + 1]>>
    OBVIOUS
  <1>9. /\ b.updated_left = t.next /\ b.updated_right = u.next
        /\ b.new_left = start /\ b.new_right = last
    OBVIOUS
  <1>10. t.next \in Nat /\ t.next <= Capacity
    BY DEF Holds, Whole
  <1>11. last \in Nat /\ start < last /\ last <= e
    BY <1>1, <1>2
  <1> HIDE DEF u, nodes, b
  <1>12. ASSUME NEW m \in DOMAIN nodes
         PROVE  /\ m \in Node /\ nodes[m] = HashOf(M, m) /\ LeftEdge(m) < u.next
                /\ m[1] <= OUTPLUSONELOG /\ m[1] = 0 /\ m[2] \in Nat /\ start <= m[2] /\ m[2] < e
    <2>1. PICK k \in 1..Len(kept) : m = <<0, start + k - 1>>
      BY <1>8
    <2> DEFINE j == start + k - 1
    <2>2. j \in 0..(Capacity - 1) /\ start <= j /\ j < e /\ j - start + 1 = k /\ k \in 1..GroupSize
      BY <1>1, <1>2
    <2>3. m = <<0, j>> /\ M[j] = TxLeaves(tx)[k] /\ TxLeaves(tx)[k] = kept[k]
      BY <1>1, <2>1, <2>2
    <2> HIDE DEF j
    <2>4. /\ m \in Node /\ m[1] = 0 /\ m[2] = j /\ LeftEdge(m) = j /\ Width[m[1]] = 1
      BY <2>2, <2>3, LeafNode, WidthIs
    <2>5. HashOf(M, m) = <<M[j]>>
      <3>1. HashOf(M, m) = [i \in 1..1 |-> M[j + i - 1]]
        BY <2>4 DEF HashOf
      <3>2. \A i \in 1..1 : j + i - 1 = j
        BY <2>2
      <3>3. HashOf(M, m) = [i \in 1..1 |-> M[j]]
        BY <3>1, <3>2
      <3> QED
        BY <3>3
    <2>6. nodes[m] = <<kept[k]>>
      BY <1>8, <2>2, <2>4
    <2>7. LeftEdge(m) < u.next
      BY <1>2, <1>7, <1>10, <2>2, <2>4
    <2>8. m[1] <= OUTPLUSONELOG
      BY <2>4, SizesAssumption
    <2> QED
      BY <2>2, <2>3, <2>4, <2>5, <2>6, <2>7, <2>8
  <1>13. ASSUME NEW m \in Node, Padding(m, b) PROVE HashOf(M, m) = zero_note_hashes[m[1]]
    <2>1. /\ RightEdge(m) <= start \/ last <= LeftEdge(m)
          /\ t.next <= LeftEdge(m) /\ RightEdge(m) <= u.next
      BY <1>9, <1>13 DEF Padding
    <2>2. /\ LeftEdge(m) \in Nat /\ RightEdge(m) \in Nat /\ LeftEdge(m) < RightEdge(m)
      BY NodeIs
    <2>3. u.next = e
      BY <1>2, <1>7, <1>10, <2>1, <2>2
    <2>4. ASSUME NEW j \in Below(m) PROVE M[j] = ZeroNote
      <3>0. j \in Nat /\ LeftEdge(m) <= j /\ j < RightEdge(m)
        BY DEF Below
      <3>1. j \in Nat /\ t.next <= j /\ j < e /\ (j < start \/ last <= j)
        <4> HIDE DEF last
        <4> QED
          BY <1>2, <1>10, <1>11, <2>1, <2>2, <2>3, <3>0
      <3>2. CASE j < start
        BY <3>1, <3>2
      <3>3. CASE last <= j
        <4> DEFINE k == j - start + 1
        <4>1. k \in 1..GroupSize /\ start + k - 1 = j /\ ~ k <= Len(kept)
          BY <1>1, <1>2, <3>1, <3>3
        <4> HIDE DEF k
        <4>2. M[start + k - 1] = TxLeaves(tx)[k] /\ TxLeaves(tx)[k] = ZeroNote
          BY <1>1, <4>1
        <4> QED
          BY <4>1, <4>2
      <3> QED
        BY <3>1, <3>2, <3>3
    <2>5. HashOf(M, m) = [k \in 1..Width[m[1]] |-> ZeroNote]
      BY <2>4, BelowHas DEF HashOf
    <2> QED
      BY <2>5, EmptyHashes
  <1>14. ASSUME NEW m \in Node, m[1] = 0, t.next <= LeftEdge(m), LeftEdge(m) < u.next
         PROVE  Padding(m, b) \/ Given(nodes, m)
    <2> DEFINE j == LeftEdge(m)
    <2>1. m = <<0, j>> /\ j \in Nat /\ RightEdge(m) = j + 1
      <3>1. m = <<m[1], m[2]>> /\ LeftEdge(m) = m[2] /\ RightEdge(m) = LeftEdge(m) + 1 /\ LeftEdge(m) \in Nat
        BY <1>14, NodeIs, WidthIs DEF LeftEdge
      <3> QED
        BY <1>14, <3>1
    <2> HIDE DEF j
    <2>2. t.next <= j /\ j < u.next
      BY <1>14 DEF j
    <2>3. j < e
      BY <1>2, <1>7, <1>10, <2>1, <2>2
    <2>4. CASE RightEdge(m) <= start \/ last <= j
      <3>1. (RightEdge(m) <= start \/ last <= LeftEdge(m)) /\ RightEdge(m) <= u.next
        BY <1>2, <1>7, <1>10, <2>1, <2>2, <2>4 DEF j
      <3> QED
        BY <1>9, <1>14, <3>1 DEF Padding
    <2>5. CASE start <= j /\ j < last
      <3> DEFINE k == j - start + 1
      <3>1. k \in 1..Len(kept) /\ start + k - 1 = j
        BY <1>1, <1>2, <2>1, <2>5
      <3> HIDE DEF k
      <3>2. m \in DOMAIN nodes
        BY <1>8, <2>1, <3>1
      <3> QED
        BY <3>2 DEF Given
    <2> QED
      BY <1>2, <1>11, <2>1, <2>4, <2>5
  <1>15. GivenTrue(t, u, M, nodes, b)
    BY <1>9, <1>12, <1>13, <1>14 DEF GivenTrue
  <1>16. \E w : add_hashes(t, start, TxLeaves(tx)) = <<update_next_index(t, e), u, w>>
    BY <1>5
  <1> QED
    BY <1>6, <1>12, <1>15, <1>16 DEF Updated, HashNodes, HashRange, u, nodes, b, v, last, kept

\* After add_hashes the tree holds the new group.
LEMMA AddHashesTrue ==
  ASSUME NEW t \in Trees(Values), NEW L, Holds(t, L), NEW M,
         NEW tx \in GroupTxs, tx.kind = "leafs", NEW start, Whole(start),
         NEW e, e = start + GroupSize, e <= Capacity, Extends(t, L, M, start, e),
         \A k \in 1..GroupSize : M[start + k - 1] = TxLeaves(tx)[k],
         \A j \in Nat : t.next <= j /\ j < start => M[j] = ZeroNote
  PROVE  LET v == Last(add_hashes(t, start, TxLeaves(tx)))
         IN  /\ v \in Trees(Values) /\ Holds(v, M) /\ SameIndexes(Indexed(t, e, start), v)
             /\ \A m \in DOMAIN v.leaves : m[1] = 0 =>
                  m \in DOMAIN t.leaves \/ (start <= m[2] /\ m[2] < e)
  <1> DEFINE u == Indexed(t, e, start)
             nodes == HashNodes(tx.leafs, start)
             b == HashRange(t, u, tx.leafs, start)
             v == put_hashes(u, virtual_subtree(u, nodes, b))
  <1>1. start \in Nat /\ start < e /\ Whole(e)
    <2>1. start \in Nat /\ GroupSize \in Nat /\ GroupSize >= 1
      BY GroupSizeIs DEF Whole
    <2>2. start <= start /\ start < start + GroupSize
      BY <2>1
    <2>3. calc_next_index(start) = e
      BY <2>1, <2>2, GroupUnique
    <2> QED
      BY <2>1, <2>2, <2>3, GroupOf
  <1>2. /\ Last(add_hashes(t, start, TxLeaves(tx))) = Updated(u, nodes, b)
        /\ GivenTrue(t, u, M, nodes, b)
        /\ \A m \in DOMAIN nodes : m[1] = 0 /\ m[2] \in Nat /\ start <= m[2] /\ m[2] < e
    BY AddHashesIs
  <1> HIDE DEF nodes, b
  <1>3. /\ v \in Trees(Values) /\ Holds(v, M) /\ SameIndexes(u, v)
        /\ \A m \in DOMAIN v.leaves : m[1] = 0 => m \in DOMAIN t.leaves \/ m \in DOMAIN nodes
    BY <1>1, <1>2, UpdateHolds
  <1>4. Last(add_hashes(t, start, TxLeaves(tx))) = v
    BY <1>2 DEF Updated
  <1> HIDE DEF v, u
  <1> QED
    BY <1>2, <1>3, <1>4 DEF u
-----------------------------------------------------------------------------
\* The temporary leaves below the nodes of the path, from those beside it.
ClimbCount(u, n, temporary, count) ==
  [h \in n[1]..HEIGHT |->
     IF h = n[1] THEN IF temporary THEN 1 ELSE 0
     ELSE count[h - 1] + temporary_count(u, Sibling(Above(n, h - 1)))]

\* The counts that go with them.
Counted(u, n) == CHOOSE count : count = ClimbCount(u, n, FALSE, count)

\* Without temporary leaves there are none to count.
LEMMA CountZero ==
  ASSUME NEW n \in Node, NEW u, u.temp = NoNodes
  PROVE  \A h \in n[1]..HEIGHT : Counted(u, n)[h] = 0
  <1> DEFINE none == [h \in n[1]..HEIGHT |-> 0]
             count == Counted(u, n)
  <1>1. n[1] \in 0..HEIGHT /\ n[1] \in Nat /\ HEIGHT \in Nat
    BY NodeIs, SizesAssumption
  <1>2. \A f : ClimbCount(u, n, FALSE, f) = [h \in n[1]..HEIGHT |-> IF h = n[1] THEN 0 ELSE f[h - 1] + 0]
    BY DEF ClimbCount, temporary_count, NoNodes
  <1>3. none = ClimbCount(u, n, FALSE, none)
    <2>1. \A h \in n[1]..HEIGHT : h # n[1] => h - 1 \in n[1]..HEIGHT
      BY <1>1
    <2>2. \A h \in n[1]..HEIGHT : h # n[1] => none[h - 1] + 0 = 0
      BY <2>1
    <2>3. none = [h \in n[1]..HEIGHT |-> IF h = n[1] THEN 0 ELSE none[h - 1] + 0]
      BY <2>2
    <2> QED
      BY <1>2, <2>3
  <1>4. count = ClimbCount(u, n, FALSE, count)
    <2> HIDE DEF none
    <2> QED
      BY <1>3 DEF Counted
  <1>5. \A h \in n[1]..HEIGHT : count[h] = 0
    <2> DEFINE S == {h \in 0..HEIGHT : n[1] <= h => count[h] = 0}
    <2> HIDE DEF count
    <2>1. \A h \in n[1]..HEIGHT : count[h] = IF h = n[1] THEN 0 ELSE count[h - 1] + 0
      <3>1. count = [h \in n[1]..HEIGHT |-> IF h = n[1] THEN 0 ELSE count[h - 1] + 0]
        BY <1>2, <1>4
      <3> QED
        BY <3>1
    <2>2. 0 \in S
      BY <1>1, <2>1
    <2>3. ASSUME NEW h \in 1..HEIGHT, h - 1 \in S PROVE h \in S
      <3> SUFFICES ASSUME n[1] <= h PROVE count[h] = 0
        BY <1>1
      <3>1. CASE h = n[1]
        BY <1>1, <2>1, <3>1
      <3>2. CASE h # n[1]
        <4>1. h \in n[1]..HEIGHT /\ n[1] <= h - 1
          BY <1>1, <3>2
        <4>2. count[h - 1] = 0
          BY <2>3, <4>1
        <4> QED
          BY <2>1, <3>2, <4>1, <4>2
      <3> QED
        BY <3>1, <3>2
    <2> HIDE DEF S
    <2>4. 0..HEIGHT \subseteq S
      BY <1>1, <2>2, <2>3, IntervalInduction
    <2> QED
      BY <1>1, <2>4 DEF S
  <1> QED
    BY <1>5
\* What is written for the nodes on the path.
PathHashes(u, n, hash) == [m \in {n} \cup Ancestors(n) |-> Climbed(u, n, hash)[m[1]]]
\* The counts written along the path.
PathCounts(u, n) == [m \in {n} \cup Ancestors(n) |-> Counted(u, n)[m[1]]]

\* The last write, unless the hash is that of zero notes within the tree.
PathWritten(t, u, n, hash, next) ==
  IF hash = zero_note_hashes[n[1]] /\ next < t.next THEN u
  ELSE set_batched(u, PathHashes(u, n, hash), PathCounts(u, n))

\* add_hash_at_height for a hash that stays.
AddedHash(t, n, hash) == add_hash_at_height(t, n, hash, FALSE)

\* add_hash_at_height for a leaf or the node of a group.
LEMMA AddHashIs ==
  ASSUME NEW t, NEW n, n[1] \in {0, OUTPLUSONELOG}, NEW hash
  PROVE  LET next == calc_next_index(RightEdge(n) - 1)
             t1 == update_next_index(t, next)
             u == Indexed(t, next, calc_first_index(LeftEdge(n)))
         IN  /\ AddedHash(t, n, hash) = <<t1, u>> \/ \E w : AddedHash(t, n, hash) = <<t1, u, w>>
             /\ Last(AddedHash(t, n, hash)) = PathWritten(t, u, n, hash, next)
  <1> DEFINE next == calc_next_index(RightEdge(n) - 1)
             first == calc_first_index(LeftEdge(n))
             t1 == update_next_index(t, next)
             u == update_first_index(t1, first)
             skipped == hash = zero_note_hashes[n[1]] /\ next < t.next
             w == set_batched(u, PathHashes(u, n, hash), PathCounts(u, n))
  <1>1. AddedHash(t, n, hash) = IF skipped THEN <<t1, u>> ELSE <<t1, u, w>>
    BY DEF AddedHash, add_hash_at_height, ClimbHash, ClimbCount, Climbed, Counted, PathHashes, PathCounts
  <1> HIDE DEF skipped, w, u, t1
  <1>2. ASSUME skipped PROVE Last(AddedHash(t, n, hash)) = u
    <2>1. AddedHash(t, n, hash) = <<t1, u>>
      BY <1>1, <1>2, Zenon
    <2> QED
      BY <2>1, LastOfTwo
  <1>3. ASSUME ~ skipped PROVE Last(AddedHash(t, n, hash)) = w
    <2>1. AddedHash(t, n, hash) = <<t1, u, w>>
      BY <1>1, <1>3, Zenon
    <2> QED
      BY <2>1, LastOfThree
  <1>4. Last(AddedHash(t, n, hash)) = IF skipped THEN u ELSE w
    BY <1>2, <1>3
  <1>5. AddedHash(t, n, hash) = <<t1, u>> \/ \E x : AddedHash(t, n, hash) = <<t1, u, x>>
    BY <1>1, Zenon
  <1>6. u = Indexed(t, next, first)
    BY DEF u, t1, Indexed
  <1>7. Last(AddedHash(t, n, hash)) = PathWritten(t, u, n, hash, next)
    BY <1>4 DEF skipped, w, PathWritten
  <1> HIDE DEF u
  <1> QED
    BY <1>5, <1>6, <1>7 DEF t1

\* The indexes of the node of a group.
LEMMA GroupEnds ==
  ASSUME NEW start, Whole(start), NEW e, e = start + GroupSize
  PROVE  calc_next_index(e - 1) = e /\ calc_first_index(start) = start
  <1>1. start \in Nat /\ GroupSize \in Nat /\ GroupSize >= 1 /\ e \in Nat
    BY GroupSizeIs DEF Whole
  <1>2. start <= e - 1 /\ e - 1 < start + GroupSize /\ e - 1 \in Nat
    BY <1>1
  <1>3. calc_next_index(e - 1) = e
    BY <1>1, <1>2, GroupUnique
  <1>4. calc_first_index(start) = start
    BY <1>1, GroupUnique
  <1> QED
    BY <1>3, <1>4

\* What add_hash_at_height writes for a commitment that is not skipped: the path of
\* the group.
LEMMA CommitmentWrites ==
  ASSUME NEW t \in Trees(Values), NEW M \in Vectors(Values),
         NEW start, Whole(start), NEW e, e = start + GroupSize, e <= Capacity,
         NEW g \in Node, g[1] = OUTPLUSONELOG, LeftEdge(g) = start, RightEdge(g) = e,
         \A h \in g[1]..(HEIGHT - 1) :
            get(Indexed(t, e, start), Sibling(Above(g, h))) = HashOf(M, Sibling(Above(g, h)))
  PROVE  LET u == Indexed(t, e, start)
             path == {g} \cup Ancestors(g)
             hash == HashOf(M, g)
             writes == AddedHash(t, g, hash)
         IN  Last(writes) = IF hash = zero_note_hashes[g[1]] /\ e < t.next THEN u
                            ELSE put_hashes(u, [m \in path |-> HashOf(M, m)])
  <1> DEFINE u == Indexed(t, e, start)
             hash == HashOf(M, g)
             t1 == update_next_index(t, e)
             path == {g} \cup Ancestors(g)
             up == Climbed(u, g, hash)
             count == Counted(u, g)
             hashes == [m \in path |-> up[m[1]]]
             counts == [m \in path |-> count[m[1]]]
  <1>1. /\ start \in Nat /\ GroupSize \in Nat /\ GroupSize >= 1 /\ e \in Nat /\ start < e
        /\ OUTPLUSONELOG \in 0..HEIGHT
    BY GroupSizeIs DEF Whole
  <1>2. g \in Node /\ g[1] = OUTPLUSONELOG /\ LeftEdge(g) = start /\ RightEdge(g) = e
    BY GroupNode
  <1>3. calc_next_index(RightEdge(g) - 1) = e /\ calc_first_index(LeftEdge(g)) = start
    BY <1>2, GroupEnds
  <1>4. u.temp = NoNodes
    <2>1. t.temp = NoNodes
      BY DEF Trees
    <2> QED
      BY <2>1 DEF Indexed, update_next_index, update_first_index
  <1>5. Last(AddedHash(t, g, hash)) =
          IF hash = zero_note_hashes[g[1]] /\ e < t.next THEN u
          ELSE set_batched(u, hashes, counts)
    <2>1. g[1] \in {0, OUTPLUSONELOG}
      BY <1>2
    <2> HIDE DEF hash
    <2>2. Last(AddedHash(t, g, hash)) = PathWritten(t, u, g, hash, e)
      BY <1>3, <2>1, AddHashIs
    <2> QED
      BY <2>2 DEF PathWritten, PathHashes, PathCounts
  <1>6. \A m \in path : m \in Node /\ m[1] \in g[1]..HEIGHT /\ m = Above(g, m[1])
    <2> SUFFICES ASSUME NEW m \in path
                 PROVE  m \in Node /\ m[1] \in g[1]..HEIGHT /\ m = Above(g, m[1])
      OBVIOUS
    <2>1. m \in Node /\ g[1] <= m[1] /\ LeftEdge(m) <= LeftEdge(g) /\ RightEdge(g) <= RightEdge(m)
      BY <1>2, AncestorsAre, NodeIs
    <2>2. LeftEdge(m) < RightEdge(g) /\ LeftEdge(g) < RightEdge(m)
      BY <1>2, <2>1, NodeIs
    <2>3. m = Above(g, m[1])
      BY <1>2, <2>1, <2>2, AboveUnique
    <2>4. m[1] \in g[1]..HEIGHT
      BY <1>2, <2>1, NodeIs
    <2> QED
      BY <2>1, <2>3, <2>4
  <1>7. \A h \in g[1]..HEIGHT : up[h] = HashOf(M, Above(g, h))
    BY <1>2, ClimbTrue
  <1>8. \A h \in g[1]..HEIGHT : count[h] = 0
    BY <1>2, <1>4, CountZero
  <1> HIDE DEF up, count, path
  <1>9. hashes = [m \in path |-> HashOf(M, m)]
    BY <1>6, <1>7
  <1>10. counts = [m \in DOMAIN hashes |-> 0]
    BY <1>6, <1>8
  <1> HIDE DEF hashes, counts
  <1>11. set_batched(u, hashes, counts) = put_hashes(u, hashes)
    BY <1>10 DEF put_hashes
  <1> HIDE DEF u, t1, hash
  <1> QED
    BY <1>5, <1>9, <1>11 DEF u, path, hash
\* The hashes beside the path of a group that starts within the tree.
LEMMA BesideTrue ==
  ASSUME NEW t \in Trees(Values), NEW L, Holds(t, L), NEW M,
         NEW start, Whole(start), start <= t.next,
         NEW e, e = start + GroupSize, e <= Capacity, Extends(t, L, M, start, e),
         NEW g \in Node, g[1] = OUTPLUSONELOG, LeftEdge(g) = start, RightEdge(g) = e,
         NEW h \in g[1]..(HEIGHT - 1)
  PROVE  get(Indexed(t, e, start), Sibling(Above(g, h))) = HashOf(M, Sibling(Above(g, h)))
  <1> DEFINE u == Indexed(t, e, start)
             a == Above(g, h)
             s == Sibling(a)
             p == Above(a, a[1] + 1)
  <1>1. /\ start \in Nat /\ GroupSize \in Nat /\ GroupSize >= 1 /\ e \in Nat /\ start < e
        /\ Capacity \in Nat /\ OUTPLUSONELOG \in 0..HEIGHT /\ HEIGHT \in Nat
        /\ t.next \in Nat /\ t.next <= Capacity /\ Whole(t.next)
    BY GroupSizeIs, SizesAssumption DEF Whole, Holds
  <1>2. Whole(e)
    <2>1. start <= start /\ start < start + GroupSize
      BY <1>1
    <2>2. calc_next_index(start) = e
      BY <1>1, <2>1, GroupUnique
    <2> QED
      BY <1>1, <2>2, GroupOf
  <1>3. Grows(t, L, u, M)
    BY <1>1, <1>2, IndexedGrows
  <1>4. u.leaves = t.leaves /\ u.next = IF e >= t.next THEN e ELSE t.next
    <2>1. u.leaves = t.leaves
      BY <1>3 DEF Grows
    <2> QED
      BY <1>1, <2>1, IndexesAre
  <1>5. StoredTrue(t, L) /\ SeenTrue(t, L) /\ (t.first # None => t.first \in Nat /\ t.first < t.next)
    BY DEF Holds
  <1>6. t.first # None => t.first <= start
    BY DEF Extends
  <1> HIDE DEF u
  <1>7. /\ a \in Node /\ a[1] = h /\ h < HEIGHT /\ OUTPLUSONELOG <= h
        /\ LeftEdge(a) <= start /\ e <= RightEdge(a)
    <2>1. h \in g[1]..HEIGHT /\ h < HEIGHT /\ OUTPLUSONELOG <= h
      BY <1>1
    <2> QED
      BY <2>1, AboveIs
  <1> HIDE DEF a
  <1>8. /\ p \in Node /\ p[1] = h + 1
        /\ \/ a[2] % 2 = 0 /\ a = LeftChild(p) /\ s = RightChild(p)
           \/ a[2] % 2 = 1 /\ a = RightChild(p) /\ s = LeftChild(p)
    BY <1>7, ParentIs
  <1> HIDE DEF p, s
  <1>9. p[1] > 0 /\ p[2] \in Nat
    BY <1>1, <1>7, <1>8, NodeIs
  <1>10. /\ LeftChild(p) \in Node /\ RightChild(p) \in Node
         /\ LeftChild(p)[1] = h /\ RightChild(p)[1] = h
         /\ RightEdge(LeftChild(p)) = LeftEdge(RightChild(p))
         /\ LeftEdge(RightChild(p)) \in Nat /\ RightEdge(RightChild(p)) \in Nat
         /\ LeftEdge(RightChild(p)) < RightEdge(RightChild(p))
         /\ RightEdge(RightChild(p)) = LeftEdge(RightChild(p)) + Width[h]
         /\ LeftEdge(LeftChild(p)) \in Nat /\ LeftEdge(LeftChild(p)) < LeftEdge(RightChild(p))
         /\ Width[h] \in Nat
    <2>1. /\ LeftChild(p) \in Node /\ RightChild(p) \in Node
          /\ LeftChild(p)[1] = p[1] - 1 /\ RightChild(p)[1] = p[1] - 1
          /\ RightEdge(LeftChild(p)) = LeftEdge(p) + Width[p[1] - 1]
          /\ LeftEdge(RightChild(p)) = LeftEdge(p) + Width[p[1] - 1]
      BY <1>8, <1>9, ChildrenAre
    <2>2. p[1] - 1 = h
      BY <1>1, <1>8
    <2> QED
      BY <2>1, <2>2, NodeIs
  <1>11. CASE a = RightChild(p) /\ s = LeftChild(p)
    <2>1. s \in Node /\ RightEdge(s) = LeftEdge(a) /\ RightEdge(s) <= t.next /\ RightEdge(s) \in Nat
          /\ RightEdge(s) > 0
      BY <1>1, <1>7, <1>10, <1>11
    <2>2. s[2] % 2 = 0
      <3>1. s[2] = 2 * p[2]
        BY <1>11 DEF LeftChild
      <3> QED
        BY <1>9, <3>1
    <2>3. start < RightEdge(s) + Width[h]
      BY <1>1, <1>7, <1>10, <1>11
    <2>4. Seen(t.first, s)
      <3>1. s[1] = h
        BY <1>10, <1>11
      <3>2. t.first = None \/ t.first < RightEdge(s) \/ (RightEdge(s) <= t.first /\ t.first < RightEdge(s) + Width[s[1]])
        BY <1>1, <1>5, <1>6, <1>10, <2>1, <2>3, <3>1
      <3> QED
        BY <1>7, <2>2, <3>1, <3>2 DEF Seen
    <2> QED
      BY <1>3, <1>5, <2>1, <2>4, GetLeftOfEnd DEF s, u, a
  <1>12. CASE a = LeftChild(p) /\ s = RightChild(p)
    <2>1. /\ s \in Node /\ s[1] = h /\ LeftEdge(s) = RightEdge(a) /\ e <= LeftEdge(s)
          /\ LeftEdge(s) \in Nat /\ RightEdge(s) \in Nat /\ LeftEdge(s) < RightEdge(s)
      BY <1>1, <1>7, <1>10, <1>12
    <2>2. CASE u.next <= LeftEdge(s)
      BY <1>3, <1>5, <2>1, <2>2, GetRightOfEnd DEF s, u, a
    <2>3. CASE LeftEdge(s) < u.next
      <3>1. u.next = t.next /\ e < t.next
        BY <1>1, <1>4, <2>1, <2>3
      <3>2. get(u, s) = get(t, s)
        BY <1>4, <3>1 DEF get
      <3>3. Seen(t.first, s)
        <4>1. t.first = None \/ t.first < RightEdge(s)
          BY <1>1, <1>5, <1>6, <2>1
        <4> QED
          BY <1>7, <2>1, <4>1 DEF Seen
      <3>4. get(t, s) = HashOf(L, s)
        BY <1>5, <2>1, <3>3 DEF SeenTrue
      <3>5. \A i \in 0..(Capacity - 1) : L[i] = M[i]
        <4>1. FilledTo(L, t.next) /\ FilledTo(M, t.next) /\ \A i \in 0..(Capacity - 1) : i < t.next => L[i] = M[i]
          BY <1>3, <3>1 DEF Grows
        <4> QED
          BY <1>1, <4>1, SameFilled
      <3>6. HashOf(L, s) = HashOf(M, s)
        BY <2>1, <3>5, BelowIs, SameLeaves
      <3> QED
        BY <3>2, <3>4, <3>6 DEF s, u, a
    <2>4. u.next \in Nat
      BY <1>1, <1>4
    <2> QED
      BY <2>1, <2>2, <2>3, <2>4
  <1> QED
    BY <1>8, <1>11, <1>12
\* After add_hash_at_height of the hash of a group within the tree or at its end the
\* tree holds the new leaves.
LEMMA CommitmentTrue ==
  ASSUME NEW t \in Trees(Values), NEW L, Holds(t, L), NEW M,
         NEW start, Whole(start), start <= t.next,
         NEW e, e = start + GroupSize, e <= Capacity, Extends(t, L, M, start, e),
         NEW g \in Node, g[1] = OUTPLUSONELOG, LeftEdge(g) = start, RightEdge(g) = e
  PROVE  /\ Last(AddedHash(t, g, HashOf(M, g))) \in Trees(Values)
         /\ Holds(Last(AddedHash(t, g, HashOf(M, g))), M)
         /\ SameIndexes(Indexed(t, e, start), Last(AddedHash(t, g, HashOf(M, g))))
         /\ \A m \in DOMAIN Last(AddedHash(t, g, HashOf(M, g))).leaves :
              m[1] = 0 => m \in DOMAIN t.leaves \/ OUTPLUSONELOG = 0
  <1> DEFINE u == Indexed(t, e, start)
             path == {g} \cup Ancestors(g)
             hashes == [m \in path |-> HashOf(M, m)]
             w == put_hashes(u, hashes)
             v == Last(AddedHash(t, g, HashOf(M, g)))
  <1>1. /\ start \in Nat /\ GroupSize \in Nat /\ GroupSize >= 1 /\ e \in Nat /\ start < e
        /\ Capacity \in Nat /\ OUTPLUSONELOG \in 0..HEIGHT /\ HEIGHT \in Nat
        /\ t.next \in Nat /\ t.next <= Capacity /\ Whole(t.next) /\ M \in Vectors(Values)
    BY GroupSizeIs, SizesAssumption DEF Whole, Holds, Extends
  <1>2. Whole(e)
    <2>1. start <= start /\ start < start + GroupSize
      BY <1>1
    <2>2. calc_next_index(start) = e
      BY <1>1, <2>1, GroupUnique
    <2> QED
      BY <1>1, <2>2, GroupOf
  <1>3. u \in Trees(Values)
    BY <1>1, IndexedIs
  <1>4. Grows(t, L, u, M) /\ Whole(u.first) /\ u.next <= Capacity
    BY <1>1, <1>2, IndexedGrows
  <1>5. u.first = IF t.first = None THEN start ELSE t.first
    BY <1>1, <1>2, IndexedGrows
  <1>6. u.leaves = t.leaves /\ u.next = IF e >= t.next THEN e ELSE t.next
    <2>1. u.leaves = t.leaves
      BY <1>4 DEF Grows
    <2> QED
      BY <1>1, <2>1, IndexesAre
  <1>7. \A h \in g[1]..(HEIGHT - 1) : get(u, Sibling(Above(g, h))) = HashOf(M, Sibling(Above(g, h)))
    BY BesideTrue
  <1>8. v = IF HashOf(M, g) = zero_note_hashes[g[1]] /\ e < t.next THEN u ELSE w
    BY <1>1, <1>7, CommitmentWrites
  <1>9. /\ StoredTrue(t, L) /\ SeenTrue(t, L) /\ DOMAIN t.leaves \subseteq Node
        /\ t.first = None => t.next = 0
    <2>1. t.leaves \in PartialHashes(Values)
      BY DEF Trees
    <2>2. DOMAIN t.leaves \subseteq Node
      BY <2>1, PartialIs
    <2> QED
      BY <2>2 DEF Holds
  <1>10. u.first # None /\ u.first \in Nat /\ u.first < u.next
    <2>1. start # None
      BY <1>1, SentinelsAssumption
    <2>2. u.first # None
      BY <1>5, <2>1
    <2> QED
      BY <1>4, <2>2 DEF Grows
  <1>11. /\ FilledTo(L, t.next) /\ FilledTo(M, u.next)
         /\ \A i \in 0..(Capacity - 1) : i < t.next => L[i] = M[i]
    BY <1>4 DEF Grows
  <1> HIDE DEF u, w, v
  \* An old leaf is still the one of the tree.
  <1>12. ASSUME e <= t.next
         PROVE  \A i \in 0..(Capacity - 1) : L[i] = M[i]
    <2>1. u.next = t.next
      BY <1>1, <1>6, <1>12
    <2> QED
      BY <1>1, <1>11, <2>1, SameFilled
  <1>13. ASSUME t.next < e PROVE start = t.next /\ u.next = e
    <2>1. ASSUME start < t.next PROVE FALSE
      <3>1. start + GroupSize <= t.next
        BY <1>1, <2>1, NextWhole
      <3> QED
        BY <1>1, <1>13, <3>1
    <2> QED
      BY <1>1, <1>6, <1>13, <2>1
  \* A node off the path that the new group does not leave alone is beside it.
  <1>14. ASSUME NEW m \in Node, m \notin path, t.next < e, LeftEdge(m) < e, start < RightEdge(m)
         PROVE  m[1] < OUTPLUSONELOG /\ start <= LeftEdge(m)
    <2>1. ASSUME OUTPLUSONELOG <= m[1] PROVE FALSE
      <3>1. LeftEdge(m) <= LeftEdge(g) /\ RightEdge(g) <= RightEdge(m)
        BY <1>14, <2>1, AboveUnique
      <3>2. CASE m[1] = OUTPLUSONELOG
        <4>1. m = g
          BY <1>14, <3>2, SameLevel
        <4> QED
          BY <1>14, <4>1
      <3>3. CASE m[1] # OUTPLUSONELOG
        <4>1. g[1] < m[1]
          BY <1>1, <2>1, <3>3, NodeIs
        <4>2. m \in Ancestors(g)
          BY <3>1, <4>1, AncestorsAre
        <4> QED
          BY <1>14, <4>2
      <3> QED
        BY <3>2, <3>3
    <2>2. m[1] < OUTPLUSONELOG
      BY <1>1, <2>1, NodeIs
    <2>3. start <= LeftEdge(m) \/ RightEdge(m) <= start
      BY <1>1, <2>2, NodeIs, BoundaryOutside
    <2> QED
      BY <1>1, <1>14, <2>2, <2>3, NodeIs
  <1>15. CASE HashOf(M, g) = zero_note_hashes[g[1]] /\ e < t.next
    <2>1. v = u /\ u.next = t.next /\ u.first = t.first
      BY <1>1, <1>5, <1>6, <1>8, <1>9, <1>15
    <2>2. \A i \in 0..(Capacity - 1) : L[i] = M[i]
      BY <1>1, <1>12, <1>15
    <2>3. \A n \in Node : HashOf(L, n) = HashOf(M, n)
      BY <2>2, BelowIs, SameLeaves
    <2>4. StoredTrue(u, M)
      BY <1>6, <1>9, <2>1, <2>3 DEF StoredTrue
    <2>5. \A n \in Node : get(u, n) = get(t, n)
      BY <1>6, <2>1 DEF get
    <2>6. SeenTrue(u, M)
      BY <1>9, <2>1, <2>3, <2>5 DEF SeenTrue
    <2>7. Whole(u.next)
      BY <1>1, <2>1
    <2>8. Holds(u, M)
      BY <1>4, <1>10, <1>11, <2>4, <2>6, <2>7 DEF Holds
    <2> QED
      BY <1>3, <1>6, <2>1, <2>8 DEF SameIndexes, u, v
  <1>16. CASE ~ (HashOf(M, g) = zero_note_hashes[g[1]] /\ e < t.next)
    <2>1. v = w
      BY <1>8, <1>16
    <2>2. \A m \in path : m \in Node /\ OUTPLUSONELOG <= m[1] /\ LeftEdge(m) <= start /\ e <= RightEdge(m)
      <3> SUFFICES ASSUME NEW m \in path
                   PROVE  m \in Node /\ OUTPLUSONELOG <= m[1] /\ LeftEdge(m) <= start /\ e <= RightEdge(m)
        OBVIOUS
      <3>1. CASE m = g
        BY <1>1, <3>1
      <3>2. CASE m \in Ancestors(g)
        <4>1. /\ m \in Node /\ g[1] < m[1] /\ LeftEdge(m) <= LeftEdge(g) /\ RightEdge(g) <= RightEdge(m)
          BY <3>2, AboveHas
        <4>2. m[1] \in Nat
          BY <4>1, NodeIs
        <4> QED
          BY <1>1, <4>1, <4>2
      <3> QED
        BY <3>1, <3>2
    <2>3. hashes \in PartialHashes(Values)
      <3>1. \A m \in path : HashOf(M, m) \in Seq(Values)
        <4> SUFFICES ASSUME NEW m \in path PROVE HashOf(M, m) \in Seq(Values)
          OBVIOUS
        <4>1. HashOf(M, m) \in [1..Width[m[1]] -> Values] /\ Width[m[1]] \in Nat
          BY <1>1, <2>2, HashType, NodeIs
        <4> QED
          BY <4>1
      <3> HIDE DEF path
      <3>2. hashes \in [path -> Seq(Values)]
        BY <3>1
      <3>3. path \in SUBSET Node
        BY <2>2
      <3> QED
        BY <3>2, <3>3, PartialMake
    <2>4. /\ w \in Trees(Values) /\ w.leaves = PutLeaves(u.leaves, hashes) /\ SameIndexes(u, w)
      BY <1>3, <2>3, PutHashesIs DEF w
    <2>5. w.next = u.next /\ w.first = u.first
      BY <2>4 DEF SameIndexes
    <2>6. /\ DOMAIN w.leaves = (DOMAIN t.leaves \ path) \cup Stored(hashes)
          /\ Stored(hashes) = {m \in path : HashOf(M, m) # zero_note_hashes[m[1]]}
          /\ \A m \in DOMAIN w.leaves :
                w.leaves[m] = IF m \in Stored(hashes) THEN HashOf(M, m) ELSE t.leaves[m]
      <3>1. DOMAIN hashes = path /\ \A m \in path : hashes[m] = HashOf(M, m)
        OBVIOUS
      <3> HIDE DEF hashes, path
      <3>2. Stored(hashes) = {m \in path : HashOf(M, m) # zero_note_hashes[m[1]]}
        BY <3>1 DEF Stored
      <3>3. \A m \in Stored(hashes) : hashes[m] = HashOf(M, m)
        BY <3>1, <3>2
      <3> QED
        BY <1>6, <2>4, <3>1, <3>2, <3>3 DEF PutLeaves
    <2> HIDE DEF hashes
    <2>7. ASSUME NEW m \in DOMAIN t.leaves, m \notin path
          PROVE  t.leaves[m] = HashOf(M, m) /\ LeftEdge(m) < u.next
      <3>1. m \in Node /\ t.leaves[m] = HashOf(L, m) /\ LeftEdge(m) < t.next /\ LeftEdge(m) \in Nat
            /\ RightEdge(m) \in Nat /\ LeftEdge(m) < RightEdge(m)
        BY <1>9, NodeIs DEF StoredTrue
      <3>2. LeftEdge(m) < u.next
        BY <1>1, <1>6, <3>1
      <3>3. CASE e <= t.next
        <4>1. HashOf(L, m) = HashOf(M, m)
          BY <1>12, <3>1, <3>3, BelowIs, SameLeaves
        <4> QED
          BY <3>1, <3>2, <4>1
      <3>4. CASE t.next < e
        <4>1. start = t.next /\ LeftEdge(m) < e
          BY <1>1, <1>13, <3>1, <3>4
        <4>2. RightEdge(m) <= t.next
          <5>1. ASSUME start < RightEdge(m) PROVE FALSE
            <6>1. start <= LeftEdge(m)
              BY <1>14, <2>7, <3>1, <3>4, <4>1, <5>1
            <6> QED
              BY <1>1, <3>1, <4>1, <6>1
          <5> QED
            BY <1>1, <3>1, <4>1, <5>1
        <4>3. \A i \in Below(m) : L[i] = M[i]
          <5>1. \A i \in Below(m) : i \in 0..(Capacity - 1) /\ i < t.next
            BY <1>1, <3>1, <4>2, BelowIs DEF Below
          <5> QED
            BY <1>11, <5>1
        <4>4. HashOf(L, m) = HashOf(M, m)
          BY <3>1, <4>3, SameLeaves
        <4> QED
          BY <3>1, <3>2, <4>4
      <3> QED
        BY <1>1, <3>3, <3>4
    <2>8. StoredTrue(w, M)
      <3> SUFFICES ASSUME NEW m \in DOMAIN w.leaves
                   PROVE  /\ w.leaves[m] = HashOf(M, m) /\ LeftEdge(m) < w.next
                          /\ w.leaves[m] # zero_note_hashes[m[1]]
        BY DEF StoredTrue
      <3>1. CASE m \in Stored(hashes)
        <4>1. m \in path /\ w.leaves[m] = HashOf(M, m) /\ HashOf(M, m) # zero_note_hashes[m[1]]
          BY <2>6, <3>1
        <4>2. LeftEdge(m) < u.next
          <5>1. m \in Node /\ LeftEdge(m) <= start /\ LeftEdge(m) \in Nat
            BY <2>2, <4>1, NodeIs
          <5> QED
            BY <1>1, <1>6, <5>1
        <4> QED
          BY <2>5, <4>1, <4>2
      <3>2. CASE m \notin Stored(hashes)
        <4>1. m \in DOMAIN t.leaves /\ m \notin path /\ w.leaves[m] = t.leaves[m]
          BY <2>6, <3>2
        <4>2. t.leaves[m] # zero_note_hashes[m[1]]
          BY <1>9, <4>1 DEF StoredTrue
        <4> QED
          BY <2>5, <2>7, <4>1, <4>2
      <3> QED
        BY <3>1, <3>2
    <2>9. SeenTrue(w, M)
      <3> SUFFICES ASSUME NEW m \in Node, Seen(u.first, m) PROVE get(w, m) = HashOf(M, m)
        BY <2>5 DEF SeenTrue
      <3>0. /\ LeftEdge(m) \in Nat /\ RightEdge(m) \in Nat /\ LeftEdge(m) < RightEdge(m)
            /\ OUTPLUSONELOG <= m[1] /\ u.next \in Nat
        BY <1>1, <1>6, NodeIs DEF Seen
      <3>1. CASE m \in path
        <4>1. CASE HashOf(M, m) # zero_note_hashes[m[1]]
          <5>1. m \in DOMAIN w.leaves /\ w.leaves[m] = HashOf(M, m)
            BY <2>6, <3>1, <4>1
          <5> QED
            BY <5>1 DEF get
        <4>2. CASE HashOf(M, m) = zero_note_hashes[m[1]]
          <5>1. m \notin DOMAIN w.leaves
            BY <2>6, <3>1, <4>2
          <5>2. RightEdge(m) <= w.next
            BY <1>11, <2>5, <3>0, <4>2, ZeroIsFilled
          <5> QED
            BY <4>2, <5>1, <5>2 DEF get
        <4> QED
          BY <4>1, <4>2
      <3>2. CASE m \notin path
        <4>1. get(w, m) = get(u, m)
          <5>1. m \in DOMAIN w.leaves <=> m \in DOMAIN t.leaves
            BY <2>6, <3>2
          <5>2. m \in DOMAIN w.leaves => w.leaves[m] = t.leaves[m]
            BY <2>6, <3>2
          <5> QED
            BY <1>6, <2>5, <5>1, <5>2 DEF get
        <4>2. CASE e <= t.next
          <5>1. u.next = t.next /\ u.first = t.first
            BY <1>1, <1>5, <1>6, <1>9, <4>2
          <5>2. get(u, m) = get(t, m)
            BY <1>6, <5>1 DEF get
          <5>3. HashOf(L, m) = HashOf(M, m)
            BY <1>12, <4>2, BelowIs, SameLeaves
          <5>4. get(t, m) = HashOf(L, m)
            BY <1>9, <5>1 DEF SeenTrue
          <5> QED
            BY <4>1, <5>2, <5>3, <5>4
        <4>3. CASE t.next < e
          <5>1. start = t.next /\ u.next = e
            BY <1>13, <4>3
          <5>2. ASSUME LeftEdge(m) < e, start < RightEdge(m) PROVE FALSE
            <6>1. m[1] < OUTPLUSONELOG
              BY <1>14, <3>2, <4>3, <5>2
            <6> QED
              BY <1>1, <3>0, <6>1, NodeIs
          <5>3. CASE e <= LeftEdge(m)
            BY <1>4, <1>9, <4>1, <5>1, <5>3, GetRightOfEnd
          <5>4. CASE RightEdge(m) <= start
            <6>1. t.first # None
              BY <1>1, <1>9, <3>0, <5>1, <5>4
            <6>2. Seen(t.first, m)
              BY <1>5, <6>1
            <6> QED
              BY <1>4, <1>9, <4>1, <5>1, <5>4, <6>2, GetLeftOfEnd
          <5> QED
            BY <1>1, <3>0, <5>2, <5>3, <5>4
        <4> QED
          BY <1>1, <4>2, <4>3
      <3> QED
        BY <3>1, <3>2
    <2>10. Whole(u.next)
      BY <1>4 DEF Grows
    <2>11. Holds(w, M)
      BY <1>4, <1>10, <1>11, <2>5, <2>8, <2>9, <2>10 DEF Holds
    <2>12. \A m \in DOMAIN w.leaves : m[1] = 0 => m \in DOMAIN t.leaves \/ OUTPLUSONELOG = 0
      <3> SUFFICES ASSUME NEW m \in DOMAIN w.leaves, m[1] = 0, m \notin DOMAIN t.leaves
                   PROVE  OUTPLUSONELOG = 0
        OBVIOUS
      <3>1. m \in path
        BY <2>6
      <3> QED
        BY <1>1, <2>2, <3>1
    <2> QED
      BY <2>1, <2>4, <2>11, <2>12 DEF u, v
  <1> QED
    BY <1>15, <1>16 DEF u, v
-----------------------------------------------------------------------------
(***************************************************************************)
(* The invariant.                                                          *)
(***************************************************************************)
\* In a group of which a leaf is stored the zero notes come last.
ZerosLast(L, i) ==
  \A j \in Index, k \in Index :
    calc_first_index(j) = i /\ calc_first_index(k) = i /\ j < k /\ L[j] = ZeroNote => L[k] = ZeroNote

\* The groups that were told by their leaves, the padding behind them.
LeavesFirst(t, L) ==
  \A n \in DOMAIN t.leaves : n[1] = 0 => ZerosLast(L, calc_first_index(n[2]))

\* Those of them before s.
LeavesFirstBelow(t, L, s) ==
  \A n \in DOMAIN t.leaves :
    n[1] = 0 /\ RightEdge(n) <= s => ZerosLast(L, calc_first_index(n[2]))

\* The tree holds the ledger; the keys of its database follow it.
Good(t, L) ==
  /\ t \in Trees(Values) /\ L \in Vectors(Values)
  /\ Holds(t, L)
  /\ t.db_next = t.next \/ (t.next = 0 /\ t.db_next = None)
  /\ t.db_first = t.first
  /\ t.stable <= Capacity
  /\ LeavesFirst(t, L)

\* A tree that an interrupted call has left holds the ledger up to s: the nodes that
\* reach further can be anything, the end and, in a tree of which nothing has to be
\* saved, the first index too.
Salvageable(t, L, s) ==
  /\ t \in Trees(Values) /\ L \in Vectors(Values)
  /\ HoldsBelow(t, L, s)
  /\ t.db_next = None => s = 0 /\ DOMAIN t.leaves = {}
  /\ s # 0 => t.db_first = t.first
  /\ LeavesFirstBelow(t, L, s)

\* The inductive invariant.
IInv == Good(tree, ledger)

\* The one of the tree whose calls may be interrupted.
CrashInv == IF safe = None THEN Good(tree, ledger) ELSE Salvageable(tree, ledger, safe)

\* Groups follow each other.
LEMMA StartOfGroups ==
  ASSUME NEW start, Whole(start), NEW g \in Nat
  PROVE  Whole(start + g * GroupSize)
  <1> DEFINE q == start \div GroupSize
  <1>1. GroupSize \in Nat /\ GroupSize >= 1 /\ q \in Nat /\ start = q * GroupSize
    BY GroupSizeIs, WholeProduct
  <1> HIDE DEF q
  <1>2. \A a \in Nat, b \in Nat, w \in Nat : b * w \in Nat /\ a * w + b * w = (a + b) * w + 0
    OBVIOUS
  <1>3. start + g * GroupSize = (q + g) * GroupSize + 0 /\ g * GroupSize \in Nat /\ start \in Nat
    BY <1>1, <1>2 DEF Whole
  <1>4. q + g \in Nat /\ 0 \in 0..(GroupSize - 1) /\ GroupSize > 0
    BY <1>1
  <1>5. ((q + g) * GroupSize + 0) % GroupSize = 0
    BY <1>1, <1>4, DivisionUnique
  <1> QED
    BY <1>3, <1>5 DEF Whole

\* A group within the tree: its values and its leaves.
LEMMA GroupWithin ==
  ASSUME NEW t, NEW L, Good(t, L), NEW i, Whole(i), i < t.next
  PROVE  /\ i \in Nat /\ i + GroupSize <= t.next /\ i + GroupSize <= Capacity /\ i \in 0..(Capacity - 1)
         /\ HashOf(L, Above(<<0, i>>, OUTPLUSONELOG)) = [k \in 1..GroupSize |-> L[i + k - 1]]
         /\ [k \in 1..GroupSize |-> L[i + k - 1]] \in [1..GroupSize -> Full]
  <1>1. /\ i \in Nat /\ Whole(t.next) /\ t.next \in Nat /\ t.next <= Capacity
        /\ GroupSize \in Nat /\ GroupSize >= 1 /\ Capacity \in Nat
    BY GroupSizeIs DEF Good, Holds, Whole
  <1>2. i + GroupSize <= t.next
    BY <1>1, NextWhole
  <1>3. i + GroupSize <= Capacity /\ i \in 0..(Capacity - 1)
    BY <1>1, <1>2
  <1> DEFINE g == Above(<<0, i>>, OUTPLUSONELOG)
  <1>4. LeftEdge(g) = i /\ Width[g[1]] = GroupSize
    BY <1>3, GroupNode
  <1>5. HashOf(L, g) = [k \in 1..GroupSize |-> L[i + k - 1]]
    <2> HIDE DEF g
    <2> QED
      BY <1>4 DEF HashOf
  <1>6. ASSUME NEW k \in 1..GroupSize PROVE L[i + k - 1] \in Full
    <2>1. i + k - 1 \in 0..(Capacity - 1) /\ ~ t.next <= i + k - 1
      BY <1>1, <1>2
    <2>2. L[i + k - 1] \in Values /\ L[i + k - 1] # Default
      BY <2>1 DEF Good, Vectors, Holds, FilledTo
    <2> QED
      BY <2>2 DEF Values, Full
  <1> QED
    BY <1>1, <1>2, <1>3, <1>5, <1>6

\* The ways to tell a group again tell what it is.
LEMMA KnownIs ==
  ASSUME IInv, NEW i, Whole(i), i < tree.next, NEW tx \in Known(i)
  PROVE  tx \in GroupTxs /\ \A k \in 1..GroupSize : TxLeaves(tx)[k] = ledger[i + k - 1]
  <1> DEFINE group == HashOf(ledger, Above(<<0, i>>, OUTPLUSONELOG))
             S == {0} \cup {k \in 1..GroupSize : group[k] # ZeroNote}
             last == Max(S)
  <1>0. Good(tree, ledger)
    BY DEF IInv
  <1>1. /\ i \in Nat /\ i + GroupSize <= Capacity /\ i \in 0..(Capacity - 1)
        /\ group = [k \in 1..GroupSize |-> ledger[i + k - 1]]
        /\ group \in [1..GroupSize -> Full]
    BY <1>0, GroupWithin
  <1>2. GroupSize \in Nat /\ GroupSize >= 1
    BY GroupSizeIs
  <1>3. tx = CommitmentTx(group) \/ (<<0, i>> \in DOMAIN tree.leaves /\ tx = LeafTx(SubSeq(group, 1, last)))
    BY DEF Known
  <1>4. \A k \in 1..GroupSize : group[k] = ledger[i + k - 1]
    BY <1>1
  <1> HIDE DEF group
  <1>5. CASE tx = CommitmentTx(group)
    <2>1. tx \in GroupTxs
      BY <1>1, <1>5 DEF GroupTxs, Full
    <2>2. tx.kind = "commitment" /\ tx.hash = group
      BY <1>5 DEF CommitmentTx
    <2>3. \A k \in 1..GroupSize : TxLeaves(tx)[k] = group[k]
      BY <2>2 DEF TxLeaves
    <2> QED
      BY <1>4, <2>1, <2>3
  <1>6. CASE <<0, i>> \in DOMAIN tree.leaves /\ tx = LeafTx(SubSeq(group, 1, last))
    <2>1. group[1] # ZeroNote
      <3>1. <<0, i>> \in Node /\ LeftEdge(<<0, i>>) = i /\ <<0, i>>[1] = 0 /\ Width[<<0, i>>[1]] = 1
        BY <1>1, LeafNode, WidthIs
      <3>2. tree.leaves[<<0, i>>] = HashOf(ledger, <<0, i>>) /\ tree.leaves[<<0, i>>] # zero_note_hashes[0]
        BY <1>0, <1>6, <3>1 DEF Good, Holds, StoredTrue
      <3>3. zero_note_hashes[0] = [k \in 1..1 |-> ZeroNote]
        BY <3>1, EmptyHashes
      <3>4. HashOf(ledger, <<0, i>>) = [k \in 1..1 |-> ledger[i + k - 1]]
        BY <3>1 DEF HashOf
      <3>5. \A k \in 1..1 : ledger[i + k - 1] = group[1]
        BY <1>2, <1>4
      <3> QED
        BY <3>2, <3>3, <3>4, <3>5
    <2>2. S \in SUBSET Nat /\ 1 \in S /\ \A k \in S : k <= GroupSize
      BY <1>2, <2>1
    <2>3. last \in S /\ \A k \in S : k <= last
      <3> HIDE DEF S
      <3> QED
        BY <1>2, <2>2, MaxIsGreatest
    <2> HIDE DEF last
    <2>4. last \in 1..GroupSize /\ group[last] # ZeroNote
      BY <1>2, <2>2, <2>3
    <2>5. ASSUME NEW k \in 1..GroupSize, last < k PROVE group[k] = ZeroNote
      BY <2>3, <2>4, <2>5
    <2>6. ASSUME NEW k \in 1..last PROVE group[k] # ZeroNote
      <3> SUFFICES ASSUME group[k] = ZeroNote PROVE FALSE
        OBVIOUS
      <3>1. k < last /\ k \in 1..GroupSize /\ last \in Nat
        BY <1>2, <2>4
      <3> DEFINE a == i + k - 1
                 b == i + last - 1
      <3>2. /\ a \in Nat /\ b \in Nat /\ i <= a /\ a < b /\ b < i + GroupSize
        BY <1>1, <1>2, <2>4, <3>1
      <3>4. ledger[a] = group[k] /\ ledger[b] = group[last]
        BY <1>4, <2>4, <3>1
      <3> HIDE DEF a, b
      <3>9. a \in Index /\ b \in Index
        BY <1>1, <1>2, <3>2, GroupSizeIs DEF Index
      <3>3. calc_first_index(a) = i /\ calc_first_index(b) = i
        <4>1. a < i + GroupSize /\ i <= b
          BY <1>1, <1>2, <3>2
        <4> QED
          BY <3>2, <4>1, GroupUnique
      <3>5. calc_first_index(i) = i
        <4>1. i <= i /\ i < i + GroupSize
          BY <1>1, <1>2
        <4> QED
          BY <1>1, <4>1, GroupUnique
      <3>6. ZerosLast(ledger, i)
        <4>1. <<0, i>>[1] = 0 /\ <<0, i>>[2] = i
          OBVIOUS
        <4> QED
          BY <1>0, <1>6, <3>5, <4>1 DEF Good, LeavesFirst
      <3>7. ledger[b] = ZeroNote
        BY <3>2, <3>9, <3>3, <3>4, <3>6 DEF ZerosLast
      <3> QED
        BY <2>4, <3>4, <3>7
    <2> DEFINE leafs == [k \in 1..last |-> group[k]]
    <2>7. \A k \in 1..last : k \in 1..GroupSize
      BY <1>2, <2>4
    <2>8. SubSeq(group, 1, last) = leafs
      <3>0. group \in [1..GroupSize -> Full]
        BY <1>1
      <3>1. group \in Seq(Full) /\ Len(group) = GroupSize
        BY <1>2, <3>0
      <3> QED
        BY <2>4, <3>1
    <2>9. leafs \in [1..last -> Leaf]
      <3>1. \A k \in 1..last : group[k] \in Leaf
        BY <1>1, <2>6, <2>7 DEF Full
      <3> QED
        BY <3>1
    <2>10. tx = LeafTx(leafs)
      BY <1>6, <2>8
    <2>11. tx \in GroupTxs
      BY <2>4, <2>9, <2>10 DEF GroupTxs
    <2>12. tx.kind = "leafs" /\ tx.leafs = leafs /\ tx.kind # "commitment"
      BY <2>10 DEF LeafTx
    <2>13. Len(leafs) = last
      BY <1>2, <2>4
    <2>14. \A k \in 1..GroupSize : TxLeaves(tx)[k] = IF k <= last THEN leafs[k] ELSE ZeroNote
      <3> HIDE DEF leafs
      <3> QED
        BY <2>12, <2>13 DEF TxLeaves
    <2>15. ASSUME NEW k \in 1..GroupSize PROVE TxLeaves(tx)[k] = group[k]
      <3>1. CASE k <= last
        <4>1. k \in 1..last
          BY <2>4, <3>1
        <4> QED
          BY <2>14, <3>1, <4>1
      <3>2. CASE ~ k <= last
        <4>1. last < k
          BY <1>2, <2>4, <3>2
        <4> QED
          BY <2>5, <2>14, <3>2, <4>1
      <3> QED
        BY <3>1, <3>2
    <2> QED
      BY <1>4, <2>11, <2>15
  <1> QED
    BY <1>3, <1>5, <1>6
\* A batch told again tells what the ledger has.
Retold(batch) ==
  \A i \in DOMAIN batch : i < tree.next =>
    \A k \in 1..GroupSize : TxLeaves(batch[i])[k] = ledger[i + k - 1]

\* The batches that are delivered are batches of groups, those of the ledger told again.
LEMMA BatchesAre ==
  ASSUME IInv, NEW start, Whole(start), NEW n \in Nat \ {0}, start + n * GroupSize <= Capacity,
         NEW batch \in Batches(start, n)
  PROVE  IsBatch(batch, start, n) /\ Retold(batch)
  <1>1. /\ DOMAIN batch = {start + g * GroupSize : g \in 0..(n - 1)}
        /\ \A i \in DOMAIN batch : batch[i] \in IF i < tree.next THEN Known(i) ELSE Txs
    BY DEF Batches
  <1>2. \A i \in DOMAIN batch : Whole(i)
    <2> SUFFICES ASSUME NEW g \in 0..(n - 1) PROVE Whole(start + g * GroupSize)
      BY <1>1
    <2>1. g \in Nat
      OBVIOUS
    <2> QED
      BY <2>1, StartOfGroups
  <1>3. ASSUME NEW i \in DOMAIN batch
        PROVE  /\ batch[i] \in GroupTxs
               /\ i < tree.next => \A k \in 1..GroupSize : TxLeaves(batch[i])[k] = ledger[i + k - 1]
    <2>1. CASE i < tree.next
      <3>1. batch[i] \in Known(i)
        BY <1>1, <2>1
      <3> QED
        BY <1>2, <2>1, <3>1, KnownIs
    <2>2. CASE ~ i < tree.next
      <3>1. batch[i] \in Txs
        BY <1>1, <2>2
      <3> QED
        BY <2>2, <3>1, TxsAssumption
    <2> QED
      BY <2>1, <2>2
  <1>4. Retold(batch)
    BY <1>3 DEF Retold
  <1>5. IsBatch(batch, start, n)
    BY <1>1, <1>3 DEF IsBatch
  <1> QED
    BY <1>4, <1>5

\* One group as a batch.
LEMMA BatchOfOne ==
  ASSUME NEW start, Whole(start), start + GroupSize <= Capacity, NEW tx \in GroupTxs
  PROVE  /\ IsBatch([i \in {start} |-> tx], start, 1)
         /\ DOMAIN [i \in {start} |-> tx] = {start} /\ [i \in {start} |-> tx][start] = tx
  <1> DEFINE batch == [i \in {start} |-> tx]
  <1>1. start \in Nat /\ GroupSize \in Nat
    BY GroupSizeIs DEF Whole
  <1>2. DOMAIN batch = {start} /\ batch[start] = tx
    OBVIOUS
  <1>3. {start + g * GroupSize : g \in 0..(1 - 1)} = {start}
    <2>1. \A g \in 0..(1 - 1) : g = 0
      OBVIOUS
    <2>2. 0 \in 0..(1 - 1) /\ start + 0 * GroupSize = start
      BY <1>1
    <2> QED
      BY <2>1, <2>2
  <1>4. start + 1 * GroupSize = start + GroupSize
    BY <1>1
  <1> HIDE DEF batch
  <1>5. IsBatch(batch, start, 1)
    BY <1>2, <1>3, <1>4 DEF IsBatch
  <1> QED
    BY <1>2, <1>5 DEF batch

\* The ledger with a batch.
LEMMA ExtendedIs ==
  ASSUME IInv, NEW start, NEW batch, NEW n, IsBatch(batch, start, n), Retold(batch),
         NEW e, e = start + n * GroupSize,
         NEW next, next = tree.next \/ (next = start /\ tree.next = 0)
  PROVE  /\ BatchIn(batch, Extended(next, batch))
         /\ Extended(next, batch) \in Vectors(Values)
         /\ \A i \in Index : next <= i /\ i < start => Extended(next, batch)[i] = ZeroNote
         /\ \A i \in Index : i < tree.next => Extended(next, batch)[i] = ledger[i]
         /\ \A i \in Index : e <= i => Extended(next, batch)[i] = ledger[i]
         /\ \A i \in Index : start <= i /\ i < e => Extended(next, batch)[i] # Default
  <1> DEFINE M == Extended(next, batch)
  <1>1. /\ start \in Nat /\ e \in Nat /\ Whole(e) /\ Whole(start) /\ start < e /\ e <= Capacity
        /\ \A i \in DOMAIN batch : i \in Nat /\ Whole(i) /\ start <= i /\ i + GroupSize <= e
        /\ \A j \in Nat : start <= j /\ j < e =>
             /\ calc_first_index(j) \in DOMAIN batch
             /\ j = calc_first_index(j) + (j % GroupSize)
             /\ (j % GroupSize) + 1 \in 1..GroupSize
    BY BatchIs DEF IsBatch
  <1>2. GroupSize \in Nat /\ GroupSize >= 1 /\ Capacity \in Nat
    BY GroupSizeIs
  <1>3. /\ tree.next \in Nat /\ tree.next <= Capacity /\ FilledTo(ledger, tree.next)
        /\ ledger \in Vectors(Values)
    BY DEF IInv, Good, Holds, Whole
  <1>4. Min(DOMAIN batch) = start
    BY LastBoundIs
  <1>5. \A i \in DOMAIN batch : TxLeaves(batch[i]) \in [1..GroupSize -> Full]
    BY GroupTxIs DEF IsBatch
  <1>6. \A i \in Index :
          M[i] = IF calc_first_index(i) \in DOMAIN batch
                 THEN TxLeaves(batch[calc_first_index(i)])[(i % GroupSize) + 1]
                 ELSE IF i >= next /\ i < start THEN ZeroNote
                 ELSE ledger[i]
    BY <1>4 DEF Extended
  <1>7. M = [i \in 0..(Capacity - 1) |-> M[i]]
    BY DEF Extended, Index
  <1> HIDE DEF M
  <1>8. ASSUME NEW i \in Index, calc_first_index(i) \in DOMAIN batch
        PROVE  /\ start <= i /\ i < e /\ i = calc_first_index(i) + (i % GroupSize)
               /\ (i % GroupSize) + 1 \in 1..GroupSize
               /\ M[i] = TxLeaves(batch[calc_first_index(i)])[(i % GroupSize) + 1]
               /\ M[i] \in Full
    <2>1. i \in Nat
      BY <1>2 DEF Index
    <2>2. /\ calc_first_index(i) <= i /\ i < calc_first_index(i) + GroupSize
      BY <2>1, GroupOf
    <2>3. start <= i /\ i < e
      BY <1>1, <1>2, <1>8, <2>1, <2>2
    <2>4. i = calc_first_index(i) + (i % GroupSize) /\ (i % GroupSize) + 1 \in 1..GroupSize
      BY <1>1, <2>1, <2>3
    <2>5. M[i] = TxLeaves(batch[calc_first_index(i)])[(i % GroupSize) + 1]
      BY <1>6, <1>8
    <2> QED
      BY <1>5, <1>8, <2>3, <2>4, <2>5
  <1>9. BatchIn(batch, M)
    <2> SUFFICES ASSUME NEW i \in DOMAIN batch, NEW k \in 1..GroupSize
                 PROVE  M[i + k - 1] = TxLeaves(batch[i])[k]
      BY DEF BatchIn
    <2> DEFINE j == i + k - 1
    <2>1. /\ i \in Nat /\ Whole(i) /\ j \in Nat /\ i <= j /\ j < i + GroupSize /\ j \in Index
          /\ (j - i) + 1 = k
      BY <1>1, <1>2 DEF Index
    <2> HIDE DEF j
    <2>2. calc_first_index(j) = i /\ j % GroupSize = j - i
      BY <2>1, GroupUnique
    <2>3. M[j] = TxLeaves(batch[i])[(j % GroupSize) + 1]
      BY <1>6, <2>1, <2>2
    <2> QED
      BY <2>1, <2>2, <2>3 DEF j
  <1>10. \A i \in Index : M[i] \in Values
    <2> SUFFICES ASSUME NEW i \in Index PROVE M[i] \in Values
      OBVIOUS
    <2>1. CASE calc_first_index(i) \in DOMAIN batch
      BY <1>8, <2>1 DEF Full, Values
    <2>2. CASE calc_first_index(i) \notin DOMAIN batch
      <3>1. ledger[i] \in Values
        BY <1>3 DEF Vectors, Index
      <3> QED
        BY <1>6, <2>2, <3>1 DEF Values
    <2> QED
      BY <2>1, <2>2
  <1>11. M \in Vectors(Values)
    BY <1>7, <1>10 DEF Vectors, Index
  <1>12. \A i \in Index : next <= i /\ i < start => M[i] = ZeroNote
    <2> SUFFICES ASSUME NEW i \in Index, next <= i, i < start PROVE M[i] = ZeroNote
      OBVIOUS
    <2>1. i \in Nat /\ next \in Nat
      BY <1>1, <1>2, <1>3 DEF Index
    <2>2. calc_first_index(i) \notin DOMAIN batch
      BY <1>1, <1>8, <1>12, <2>1
    <2> QED
      BY <1>6, <1>12, <2>1, <2>2
  <1>13. \A i \in Index : i < tree.next => M[i] = ledger[i]
    <2> SUFFICES ASSUME NEW i \in Index, i < tree.next PROVE M[i] = ledger[i]
      OBVIOUS
    <2>1. i \in Nat /\ next \in Nat
      BY <1>1, <1>2, <1>3 DEF Index
    <2>2. CASE calc_first_index(i) \in DOMAIN batch
      <3> DEFINE f == calc_first_index(i)
                 k == (i % GroupSize) + 1
      <3>1. f \in Nat /\ f <= i /\ f + k - 1 = i /\ k \in 1..GroupSize /\ M[i] = TxLeaves(batch[f])[k]
        <4>1. f \in Nat /\ f <= i /\ k \in 1..GroupSize /\ i % GroupSize \in Nat
          BY <2>1, GroupOf, <1>8, <2>2 DEF Whole
        <4> QED
          BY <1>8, <2>2, <4>1
      <3> HIDE DEF f, k
      <3>2. f < tree.next /\ f \in DOMAIN batch
        BY <1>3, <1>13, <2>1, <2>2, <3>1 DEF f
      <3>3. TxLeaves(batch[f])[k] = ledger[f + k - 1]
        BY <3>1, <3>2 DEF Retold
      <3> QED
        BY <3>1, <3>3
    <2>3. CASE calc_first_index(i) \notin DOMAIN batch
      <3>1. ~ (i >= next /\ i < start)
        BY <1>1, <1>3, <1>13, <2>1
      <3> QED
        BY <1>6, <2>3, <3>1
    <2> QED
      BY <2>2, <2>3
  <1>14. \A i \in Index : e <= i => M[i] = ledger[i]
    <2> SUFFICES ASSUME NEW i \in Index, e <= i PROVE M[i] = ledger[i]
      OBVIOUS
    <2>1. i \in Nat
      BY <1>2 DEF Index
    <2>2. calc_first_index(i) \notin DOMAIN batch
      BY <1>1, <1>8, <1>14, <2>1
    <2>3. ~ i < start
      BY <1>1, <1>14, <2>1
    <2> QED
      BY <1>6, <2>2, <2>3
  <1>15. \A i \in Index : start <= i /\ i < e => M[i] # Default
    <2> SUFFICES ASSUME NEW i \in Index, start <= i, i < e PROVE M[i] # Default
      OBVIOUS
    <2>1. i \in Nat
      BY <1>2 DEF Index
    <2>2. calc_first_index(i) \in DOMAIN batch
      BY <1>1, <1>15, <2>1
    <2>3. M[i] \in Full
      BY <1>8, <2>2
    <2> QED
      BY <2>3, LeafAssumption, SentinelsAssumption DEF Full
  <1> QED
    BY <1>9, <1>11, <1>12, <1>13, <1>14, <1>15 DEF M

\* The ledger with a batch extends the ledger.
LEMMA ExtendedFits ==
  ASSUME IInv, NEW start, Held(start), NEW batch, NEW n, IsBatch(batch, start, n), Retold(batch),
         NEW e, e = start + n * GroupSize
  PROVE  Extends(tree, ledger, Extended(tree.next, batch), start, e)
  <1> DEFINE M == Extended(tree.next, batch)
  <1>1. /\ start \in Nat /\ e \in Nat /\ start < e /\ e <= Capacity
    BY BatchIs
  <1>2. /\ M \in Vectors(Values)
        /\ \A i \in Index : tree.next <= i /\ i < start => M[i] = ZeroNote
        /\ \A i \in Index : i < tree.next => M[i] = ledger[i]
        /\ \A i \in Index : e <= i => M[i] = ledger[i]
        /\ \A i \in Index : start <= i /\ i < e => M[i] # Default
    BY ExtendedIs
  <1> HIDE DEF M
  <1>3. tree.next \in Nat /\ FilledTo(ledger, tree.next) /\ Capacity \in Nat
    BY GroupSizeIs DEF IInv, Good, Holds, Whole
  <1>4. ZeroNote # Default
    BY SentinelsAssumption
  <1>5. ASSUME NEW i \in 0..(Capacity - 1)
        PROVE  M[i] = Default <=> (IF e >= tree.next THEN e ELSE tree.next) <= i
    <2>1. i \in Index /\ i \in Nat /\ (ledger[i] = Default <=> tree.next <= i)
      BY <1>3 DEF Index, FilledTo
    <2>2. CASE i < tree.next
      BY <1>1, <1>2, <1>3, <2>1, <2>2
    <2>3. CASE tree.next <= i /\ i < start
      BY <1>1, <1>2, <1>3, <1>4, <2>1, <2>3
    <2>4. CASE tree.next <= i /\ start <= i /\ i < e
      BY <1>1, <1>2, <1>3, <2>1, <2>4
    <2>5. CASE tree.next <= i /\ e <= i
      BY <1>1, <1>2, <1>3, <2>1, <2>5
    <2> QED
      BY <1>1, <1>3, <2>1, <2>2, <2>3, <2>4, <2>5
  <1>6. FilledTo(M, IF e >= tree.next THEN e ELSE tree.next)
    BY <1>5 DEF FilledTo
  <1>7. \A i \in 0..(Capacity - 1) : i < tree.next => ledger[i] = M[i]
    BY <1>2 DEF Index
  <1>8. tree.first = None \/ tree.first <= start
    BY DEF Held
  <1> QED
    BY <1>2, <1>6, <1>7, <1>8 DEF Extends, M

\* A group of one leaf has no padding before a leaf.
LEMMA SingleLeaf ==
  ASSUME OUTPLUSONELOG = 0, NEW L, NEW i
  PROVE  ZerosLast(L, i)
  <1>1. GroupSize = 1 /\ Capacity \in Nat
    BY WidthIs, GroupSizeIs DEF GroupSize
  <1>2. ASSUME NEW j \in Index, NEW k \in Index, calc_first_index(j) = i, calc_first_index(k) = i
        PROVE  j = k
    <2>1. j \in Nat /\ k \in Nat
      BY <1>1 DEF Index
    <2>2. /\ j = i + (j % GroupSize) /\ j % GroupSize \in 0..(GroupSize - 1)
          /\ k = i + (k % GroupSize) /\ k % GroupSize \in 0..(GroupSize - 1)
      BY <1>2, <2>1, GroupOf
    <2>3. j % GroupSize = 0 /\ k % GroupSize = 0
      BY <1>1, <2>2
    <2> QED
      BY <2>2, <2>3
  <1>3. ASSUME NEW j \in Index, NEW k \in Index, calc_first_index(j) = i, calc_first_index(k) = i, j < k
        PROVE  FALSE
    <2>1. j = k /\ j \in Nat
      BY <1>1, <1>2, <1>3 DEF Index
    <2> QED
      BY <1>3, <2>1
  <1> QED
    BY <1>3 DEF ZerosLast

\* The leaves of a group that was told by its leaves come before its padding.
LEMMA ToldZerosLast ==
  ASSUME NEW batch, NEW start, NEW n, IsBatch(batch, start, n), NEW M, BatchIn(batch, M),
         NEW i \in DOMAIN batch, batch[i].kind = "leafs"
  PROVE  ZerosLast(M, i)
  <1> DEFINE tx == batch[i]
  <1>1. tx \in GroupTxs
    BY DEF IsBatch
  <1>2. /\ tx.leafs \in Seq(Leaf) /\ Len(tx.leafs) \in 1..GroupSize
        /\ \A k \in 1..GroupSize :
             TxLeaves(tx)[k] = IF k <= Len(tx.leafs) THEN tx.leafs[k] ELSE ZeroNote
    BY <1>1, GroupTxIs
  <1>3. i \in Nat /\ GroupSize \in Nat /\ Capacity \in Nat
    BY BatchIs, GroupSizeIs
  <1>4. ASSUME NEW j \in Index, calc_first_index(j) = i
        PROVE  /\ j \in Nat /\ (j - i) + 1 \in 1..GroupSize
               /\ M[j] = TxLeaves(tx)[(j - i) + 1]
    <2>1. j \in Nat
      BY <1>3 DEF Index
    <2>2. i <= j /\ j < i + GroupSize
      BY <1>3, <1>4, <2>1, GroupOf
    <2> QED
      BY <2>1, <2>2, GroupLeaf
  <1> HIDE DEF tx
  <1>5. ASSUME NEW j \in Index, NEW k \in Index, calc_first_index(j) = i, calc_first_index(k) = i,
               j < k, M[j] = ZeroNote
        PROVE  M[k] = ZeroNote
    <2> DEFINE a == (j - i) + 1
               b == (k - i) + 1
    <2>1. a \in 1..GroupSize /\ b \in 1..GroupSize /\ M[j] = TxLeaves(tx)[a] /\ M[k] = TxLeaves(tx)[b]
          /\ j \in Nat /\ k \in Nat
      BY <1>4, <1>5
    <2>2. a < b
      BY <1>3, <1>5, <2>1
    <2> HIDE DEF a, b
    <2>3. a > Len(tx.leafs)
      <3> SUFFICES ASSUME a <= Len(tx.leafs) PROVE FALSE
        BY <1>2, <1>3, <2>1
      <3>1. a \in 1..Len(tx.leafs)
        BY <1>2, <1>3, <2>1
      <3>2. tx.leafs[a] \in Leaf
        BY <1>2, <3>1
      <3>3. TxLeaves(tx)[a] = tx.leafs[a]
        BY <1>2, <2>1
      <3> QED
        BY <1>5, <2>1, <3>2, <3>3, LeafAssumption
    <2>4. ~ b <= Len(tx.leafs)
      BY <1>2, <1>3, <2>1, <2>2, <2>3
    <2> QED
      BY <1>2, <2>1, <2>4
  <1> QED
    BY <1>5 DEF ZerosLast

\* The leaves an update stores come before the padding of their groups, those
\* stored before it do so still.
LEMMA LeavesFirstKept ==
  ASSUME NEW t, NEW L, Good(t, L), NEW M, \A i \in 0..(Capacity - 1) : i < t.next => L[i] = M[i],
         NEW v, \A m \in DOMAIN v.leaves : m[1] = 0 =>
                  m \in DOMAIN t.leaves \/ ZerosLast(M, calc_first_index(m[2]))
  PROVE  LeavesFirst(v, M)
  <1>1. /\ Whole(t.next) /\ t.next \in Nat /\ t.next <= Capacity /\ Capacity \in Nat
        /\ t \in Trees(Values) /\ StoredTrue(t, L) /\ LeavesFirst(t, L) /\ GroupSize \in Nat
    BY GroupSizeIs DEF Good, Holds, Whole
  <1>2. DOMAIN t.leaves \subseteq Node
    BY <1>1, PartialIs DEF Trees
  <1>3. ASSUME NEW m \in DOMAIN t.leaves, m[1] = 0
        PROVE  ZerosLast(M, calc_first_index(m[2]))
    <2> DEFINE g == calc_first_index(m[2])
    <2>1. ZerosLast(L, g)
      BY <1>1, <1>3 DEF LeavesFirst
    <2>2. m[2] \in Nat /\ LeftEdge(m) = m[2]
      BY <1>2, <1>3, NodeIs, WidthIs DEF LeftEdge
    <2>3. m[2] < t.next
      BY <1>1, <1>3, <2>2 DEF StoredTrue
    <2>4. Whole(g) /\ g <= m[2]
      BY <2>2, GroupOf
    <2> HIDE DEF g
    <2>5. g \in Nat /\ g + GroupSize <= t.next
      <3>1. g \in Nat /\ g < t.next
        BY <1>1, <2>2, <2>3, <2>4 DEF Whole
      <3> QED
        BY <1>1, <2>4, <3>1, NextWhole
    <2>6. ASSUME NEW j \in Index, calc_first_index(j) = g PROVE L[j] = M[j]
      <3>1. j \in Nat /\ j \in 0..(Capacity - 1)
        BY <1>1 DEF Index
      <3>2. j = g + (j % GroupSize) /\ j % GroupSize \in 0..(GroupSize - 1)
        BY <2>6, <3>1, GroupOf
      <3>3. j < t.next
        BY <1>1, <2>5, <3>1, <3>2
      <3> QED
        BY <3>1, <3>3
    <2>7. ZerosLast(M, g)
      BY <2>1, <2>6 DEF ZerosLast
    <2> QED
      BY <2>7 DEF g
  <1> QED
    BY <1>3 DEF LeavesFirst

\* What an update leaves behind is a good tree for the ledger it was told.
LEMMA AddedGood ==
  ASSUME NEW t, NEW L, Good(t, L), NEW M, NEW start \in Nat, NEW e \in Nat, start < e,
         Extends(t, L, M, start, e),
         NEW v, v \in Trees(Values), Holds(v, M), SameIndexes(Indexed(t, e, start), v),
         LeavesFirst(v, M)
  PROVE  Good(v, M) /\ v.next = (IF e >= t.next THEN e ELSE t.next)
  <1>0. t \in Trees(Values)
    BY DEF Good
  <1>1. /\ t.next \in Nat /\ t.stable \in Nat /\ t.stable <= Capacity
        /\ t.db_next = t.next \/ (t.next = 0 /\ t.db_next = None)
        /\ t.db_first = t.first
    BY DEF Good, Trees
  <1> DEFINE u == Indexed(t, e, start)
  <1>2. /\ u.stable = t.stable
        /\ u.next = IF e >= t.next THEN e ELSE t.next
        /\ u.db_next = IF e >= t.next THEN e ELSE t.db_next
        /\ u.first = IF t.first = None \/ start < t.first THEN start ELSE t.first
        /\ u.db_first = IF t.first = None \/ start < t.first THEN start ELSE t.db_first
    BY <1>0, IndexedIs
  <1>3. /\ v.next = u.next /\ v.db_next = u.db_next /\ v.first = u.first /\ v.db_first = u.db_first
        /\ v.stable = u.stable
    BY DEF SameIndexes
  <1> HIDE DEF u
  <1>4. v.db_next = v.next /\ v.db_first = v.first /\ v.stable <= Capacity
    BY <1>1, <1>2, <1>3
  <1>5. M \in Vectors(Values)
    BY DEF Extends
  <1> QED
    BY <1>2, <1>3, <1>4, <1>5 DEF Good
\* add_leafs_commitments_and_siblings keeps a tree good.
LEMMA BatchKeeps ==
  ASSUME NEW t, NEW L, Good(t, L), NEW M,
         NEW batch, NEW start, NEW n, IsBatch(batch, start, n), BatchIn(batch, M),
         NEW e, e = start + n * GroupSize, Extends(t, L, M, start, e),
         NEW siblings, SiblingsTrue(t, siblings, M, start)
  PROVE  /\ Good(Last(add_leafs_commitments_and_siblings(t, batch, siblings)), M)
         /\ Last(add_leafs_commitments_and_siblings(t, batch, siblings)).next
              = (IF e >= t.next THEN e ELSE t.next)
  <1> DEFINE v == Last(add_leafs_commitments_and_siblings(t, batch, siblings))
  <1>1. start \in Nat /\ e \in Nat /\ start < e
    BY BatchIs
  <1>2. t \in Trees(Values) /\ Holds(t, L)
    BY DEF Good
  <1>3. /\ v \in Trees(Values) /\ Holds(v, M) /\ SameIndexes(Indexed(t, e, start), v)
        /\ \A m \in DOMAIN v.leaves : m[1] = 0 =>
             m \in DOMAIN t.leaves \/ ToldLeaf(batch, m[2]) \/ OUTPLUSONELOG = 0
    BY <1>2, AddTrue
  <1> HIDE DEF v
  <1>4. \A m \in DOMAIN v.leaves : m[1] = 0 =>
          m \in DOMAIN t.leaves \/ ZerosLast(M, calc_first_index(m[2]))
    <2> SUFFICES ASSUME NEW m \in DOMAIN v.leaves, m[1] = 0, m \notin DOMAIN t.leaves
                 PROVE  ZerosLast(M, calc_first_index(m[2]))
      OBVIOUS
    <2>1. CASE ToldLeaf(batch, m[2])
      BY <2>1, ToldZerosLast DEF ToldLeaf
    <2>2. CASE OUTPLUSONELOG = 0
      BY <2>2, SingleLeaf
    <2> QED
      BY <1>3, <2>1, <2>2
  <1>5. \A i \in 0..(Capacity - 1) : i < t.next => L[i] = M[i]
    BY DEF Extends
  <1>6. LeavesFirst(v, M)
    BY <1>4, <1>5, LeavesFirstKept
  <1>7. Good(v, M) /\ v.next = (IF e >= t.next THEN e ELSE t.next)
    BY <1>1, <1>3, <1>6, AddedGood
  <1> QED
    BY <1>7 DEF v

\* The stable index that a cut at e leaves.
StableBelow(t, e) == IF t.stable <= e THEN t.stable ELSE 0

\* What a step may do to the leaves: keep those there are, or cut, and then the stable
\* index follows.
Moves ==
  \/ tree.next <= tree'.next /\ \A i \in Index : i < tree.next => ledger'[i] = ledger[i]
  \/ /\ tree'.next <= tree.next /\ ledger' = Cut(ledger, tree'.next)
     /\ tree'.stable = StableBelow(tree, tree'.next)

\* An aligned index is a group boundary.
LEMMA AlignedWhole ==
  ASSUME NEW i \in Index, Aligned(i)
  PROVE  Whole(i)
  BY GroupSizeIs DEF Index, Aligned, Whole

\* A step that adds a group or more.
LEMMA AddMoves ==
  ASSUME NEW start, NEW e, tree.next \in Nat, e \in Nat, Extends(tree, ledger, ledger', start, e),
         tree'.next = (IF e >= tree.next THEN e ELSE tree.next)
  PROVE  Moves
  <1>1. tree.next <= tree'.next
    OBVIOUS
  <1>2. \A i \in Index : i < tree.next => ledger'[i] = ledger[i]
    BY DEF Extends, Index
  <1> QED
    BY <1>1, <1>2 DEF Moves

\* The groups that a batch tells by their leaves were not told otherwise before.
RetoldLeaves(t, batch) ==
  \A i \in DOMAIN batch : i < t.next /\ batch[i].kind = "leafs" => <<0, i>> \in DOMAIN t.leaves

\* What a caller of add_leafs_commitments_and_siblings does: the batch extends the
\* ledger, the siblings are true, a group is told by its leaves if it was so before.
Delivers(batch, start, n, siblings) ==
  /\ tree' = Last(add_leafs_commitments_and_siblings(tree, batch, siblings))
  /\ IsBatch(batch, start, n) /\ BatchIn(batch, ledger') /\ RetoldLeaves(tree, batch)
  /\ Extends(tree, ledger, ledger', start, start + n * GroupSize)
  /\ SiblingsTrue(tree, siblings, ledger', start)
  /\ \A m \in DOMAIN siblings : Seen(start, m)

\* A group told by its leaves was told so before.
LEMMA KnownLeaves ==
  ASSUME NEW i, NEW tx \in Known(i), tx.kind = "leafs"
  PROVE  <<0, i>> \in DOMAIN tree.leaves
  <1>1. \A hash : CommitmentTx(hash).kind = "commitment"
    BY DEF CommitmentTx
  <1>2. "commitment" # "leafs"
    OBVIOUS
  <1> QED
    BY <1>1, <1>2 DEF Known

\* Nor does a batch tell it otherwise.
LEMMA BatchRetold ==
  ASSUME NEW start, NEW n, NEW batch \in Batches(start, n)
  PROVE  RetoldLeaves(tree, batch)
  <1> SUFFICES ASSUME NEW i \in DOMAIN batch, i < tree.next, batch[i].kind = "leafs"
               PROVE  <<0, i>> \in DOMAIN tree.leaves
    BY DEF RetoldLeaves
  <1>1. batch[i] \in Known(i)
    BY DEF Batches
  <1> QED
    BY <1>1, KnownLeaves

\* A batch that starts within the tree, at its end or behind it extends the ledger.
LEMMA BatchTold ==
  ASSUME IInv, NEW start \in Index, Aligned(start), Held(start), NEW n \in 1..MaxBatch,
         NEW e, e = start + n * GroupSize, e <= Capacity, NEW batch \in Batches(start, n),
         NEW M, M = Extended(tree.next, batch)
  PROVE  /\ IsBatch(batch, start, n) /\ BatchIn(batch, M) /\ RetoldLeaves(tree, batch)
         /\ Extends(tree, ledger, M, start, e) /\ SiblingsTrue(tree, NoSiblings, M, start)
  <1>1. Whole(start) /\ n \in Nat \ {0}
    BY AlignedWhole, BoundsAssumption
  <1>2. IsBatch(batch, start, n) /\ Retold(batch)
    BY <1>1, BatchesAre
  <1>3. start \in Nat /\ e \in Nat /\ start < e /\ Capacity \in Nat
    BY <1>2, BatchIs, GroupSizeIs
  <1>4. /\ BatchIn(batch, M)
        /\ \A i \in Index : tree.next <= i /\ i < start => M[i] = ZeroNote
    BY <1>2, ExtendedIs
  <1>5. Extends(tree, ledger, M, start, e)
    BY <1>2, ExtendedFits
  <1>6. SiblingsTrue(tree, NoSiblings, M, start)
    <2>1. DOMAIN NoSiblings = {}
      BY DEF NoSiblings, NoNodes
    <2>2. ASSUME NEW j \in Nat, tree.next <= j, j < start PROVE M[j] = ZeroNote
      <3>1. j \in Index
        BY <1>3, <2>2 DEF Index
      <3> QED
        BY <1>4, <2>2, <3>1
    <2> QED
      BY <2>1, <2>2 DEF SiblingsTrue
  <1>7. RetoldLeaves(tree, batch)
    BY BatchRetold
  <1> QED
    BY <1>2, <1>4, <1>5, <1>6, <1>7

\* AddBatch delivers such a batch.
LEMMA NextBatch ==
  ASSUME IInv, NEW start \in Index, Aligned(start), NEW n \in 1..MaxBatch, AddBatch(start, n)
  PROVE  \E batch : Delivers(batch, start, n, NoSiblings)
  <1>1. PICK batch \in Batches(start, n) :
          /\ tree' = Last(add_leafs_and_commitments(tree, batch))
          /\ ledger' = Extended(tree.next, batch)
    BY DEF AddBatch
  <1>2. Held(start) /\ start + n * GroupSize <= Capacity
    BY DEF AddBatch
  <1>3. /\ IsBatch(batch, start, n) /\ BatchIn(batch, ledger') /\ RetoldLeaves(tree, batch)
        /\ Extends(tree, ledger, ledger', start, start + n * GroupSize)
        /\ SiblingsTrue(tree, NoSiblings, ledger', start)
    BY <1>1, <1>2, BatchTold
  <1>4. tree' = Last(add_leafs_commitments_and_siblings(tree, batch, NoSiblings))
    BY <1>1 DEF add_leafs_and_commitments
  <1>5. \A m \in DOMAIN NoSiblings : Seen(start, m)
    BY DEF NoSiblings, NoNodes
  <1>6. Delivers(batch, start, n, NoSiblings)
    BY <1>3, <1>4, <1>5 DEF Delivers
  <1> QED
    BY <1>6

\* A batch leaves a good tree.
LEMMA DeliveredGood ==
  ASSUME IInv, NEW batch, NEW start, NEW n, NEW siblings, Delivers(batch, start, n, siblings)
  PROVE  Good(tree', ledger') /\ Moves
  <1> DEFINE e == start + n * GroupSize
  <1>1. /\ tree' = Last(add_leafs_commitments_and_siblings(tree, batch, siblings))
        /\ IsBatch(batch, start, n) /\ BatchIn(batch, ledger')
        /\ Extends(tree, ledger, ledger', start, e) /\ SiblingsTrue(tree, siblings, ledger', start)
    BY DEF Delivers
  <1>2. e \in Nat
    BY <1>1, BatchIs
  <1>3. Good(tree, ledger) /\ tree.next \in Nat
    BY DEF IInv, Good, Holds, Whole
  <1>4. Good(tree', ledger') /\ tree'.next = (IF e >= tree.next THEN e ELSE tree.next)
    BY <1>1, <1>3, BatchKeeps
  <1> HIDE DEF e
  <1>5. Moves
    BY <1>1, <1>2, <1>3, <1>4, AddMoves
  <1> QED
    BY <1>4, <1>5

\* One group told to the tree: as a batch it extends the ledger.
LEMMA OneGroup ==
  ASSUME IInv, NEW start \in Index, Aligned(start), Held(start),
         NEW tx \in IF start < tree.next THEN Known(start) ELSE Txs,
         NEW M, M = Extended(tree.next, [i \in {start} |-> tx])
  PROVE  /\ tx \in GroupTxs /\ Whole(start)
         /\ start \in Nat /\ start + GroupSize \in Nat /\ start < start + GroupSize
         /\ Whole(start + GroupSize) /\ start + GroupSize <= Capacity
         /\ Extends(tree, ledger, M, start, start + GroupSize)
         /\ \A k \in 1..GroupSize : M[start + k - 1] = TxLeaves(tx)[k]
         /\ \A j \in Nat : tree.next <= j /\ j < start => M[j] = ZeroNote
         /\ tx.kind = "leafs" => ZerosLast(M, start)
  <1> DEFINE batch == [i \in {start} |-> tx]
  <1>1. Whole(start) /\ GroupSize \in Nat /\ GroupSize >= 1 /\ Capacity \in Nat /\ Whole(Capacity)
    BY AlignedWhole, GroupSizeIs DEF Whole
  <1>2. start \in Nat /\ start < Capacity /\ start + 1 * GroupSize = start + GroupSize
    BY <1>1 DEF Index
  <1>3. start + GroupSize <= Capacity
    BY <1>1, <1>2, NextWhole
  <1>4. tx \in GroupTxs /\ (start < tree.next =>
          \A k \in 1..GroupSize : TxLeaves(tx)[k] = ledger[start + k - 1])
    <2>1. CASE start < tree.next
      BY <1>1, <2>1, KnownIs
    <2>2. CASE ~ start < tree.next
      BY <2>2, TxsAssumption
    <2> QED
      BY <2>1, <2>2
  <1>5. IsBatch(batch, start, 1) /\ DOMAIN batch = {start} /\ batch[start] = tx
    BY <1>1, <1>3, <1>4, BatchOfOne
  <1>6. M = Extended(tree.next, batch)
    OBVIOUS
  <1> HIDE DEF batch
  <1>7. Retold(batch)
    BY <1>4, <1>5 DEF Retold
  <1>8. start + GroupSize \in Nat /\ start < start + GroupSize /\ Whole(start + GroupSize)
    <2> DEFINE e == start + GroupSize
    <2>1. e = start + 1 * GroupSize
      BY <1>2
    <2> HIDE DEF e
    <2>2. e \in Nat /\ start < e /\ Whole(e)
      BY <1>5, <2>1, BatchIs
    <2> QED
      BY <2>2 DEF e
  <1>9. /\ BatchIn(batch, M)
        /\ \A i \in Index : tree.next <= i /\ i < start => M[i] = ZeroNote
    BY <1>5, <1>6, <1>7, ExtendedIs
  <1>10. Extends(tree, ledger, M, start, start + GroupSize)
    BY <1>2, <1>5, <1>6, <1>7, ExtendedFits
  <1>11. \A k \in 1..GroupSize : M[start + k - 1] = TxLeaves(tx)[k]
    BY <1>5, <1>9 DEF BatchIn
  <1>12. ASSUME NEW j \in Nat, tree.next <= j, j < start PROVE M[j] = ZeroNote
    <2>1. j \in Index
      BY <1>1, <1>2, <1>12 DEF Index
    <2> QED
      BY <1>9, <1>12, <2>1
  <1>13. tx.kind = "leafs" => ZerosLast(M, start)
    BY <1>5, <1>9, ToldZerosLast
  <1> QED
    BY <1>1, <1>2, <1>3, <1>4, <1>8, <1>10, <1>11, <1>12, <1>13

\* State.add_hashes.
LEMMA AddHashesGood ==
  ASSUME IInv, NEW start \in Index, Aligned(start), NEW tx, AddHashes(start, tx)
  PROVE  Good(tree', ledger') /\ Moves
  <1> DEFINE M == Extended(tree.next, [i \in {start} |-> tx])
             e == start + GroupSize
             v == Last(add_hashes(tree, start, TxLeaves(tx)))
  <1>1. /\ Held(start) /\ tx.kind = "leafs"
        /\ tx \in IF start < tree.next THEN Known(start) ELSE Txs
        /\ tree' = v /\ ledger' = M
    BY DEF AddHashes
  <1> HIDE DEF M, e, v
  <1>2. /\ tx \in GroupTxs /\ Whole(start)
        /\ start \in Nat /\ e \in Nat /\ start < e
        /\ Whole(e) /\ e <= Capacity
        /\ Extends(tree, ledger, M, start, e)
        /\ \A k \in 1..GroupSize : M[start + k - 1] = TxLeaves(tx)[k]
        /\ \A j \in Nat : tree.next <= j /\ j < start => M[j] = ZeroNote
        /\ tx.kind = "leafs" => ZerosLast(M, start)
    BY <1>1, OneGroup DEF M, e
  <1>3. Good(tree, ledger) /\ tree \in Trees(Values) /\ Holds(tree, ledger) /\ tree.next \in Nat
    BY DEF IInv, Good, Holds, Whole
  <1>4. e = start + GroupSize
    BY DEF e
  <1>5. /\ v \in Trees(Values) /\ Holds(v, M) /\ SameIndexes(Indexed(tree, e, start), v)
        /\ \A m \in DOMAIN v.leaves : m[1] = 0 =>
             m \in DOMAIN tree.leaves \/ (start <= m[2] /\ m[2] < e)
    BY <1>1, <1>2, <1>3, <1>4, AddHashesTrue DEF v
  <1>6. \A m \in DOMAIN v.leaves : m[1] = 0 =>
          m \in DOMAIN tree.leaves \/ ZerosLast(M, calc_first_index(m[2]))
    <2> SUFFICES ASSUME NEW m \in DOMAIN v.leaves, m[1] = 0, m \notin DOMAIN tree.leaves
                 PROVE  ZerosLast(M, calc_first_index(m[2]))
      OBVIOUS
    <2>1. start <= m[2] /\ m[2] < start + GroupSize
      BY <1>4, <1>5
    <2>2. m[2] \in Nat
      <3>1. DOMAIN v.leaves \subseteq Node
        BY <1>5, PartialIs DEF Trees
      <3> QED
        BY <3>1, NodeIs
    <2>3. calc_first_index(m[2]) = start
      BY <1>2, <2>1, <2>2, GroupUnique
    <2> QED
      BY <1>1, <1>2, <2>3
  <1>7. \A i \in 0..(Capacity - 1) : i < tree.next => ledger[i] = M[i]
    BY <1>2 DEF Extends
  <1>8. LeavesFirst(v, M)
    BY <1>3, <1>6, <1>7, LeavesFirstKept
  <1>9. Good(v, M) /\ v.next = (IF e >= tree.next THEN e ELSE tree.next)
    BY <1>2, <1>3, <1>5, <1>8, AddedGood
  <1>10. Moves
    BY <1>1, <1>2, <1>3, <1>9, AddMoves
  <1> QED
    BY <1>1, <1>9, <1>10

\* add_commitment.
LEMMA AddCommitmentGood ==
  ASSUME IInv, NEW start \in Index, Aligned(start), NEW tx, AddCommitment(start, tx)
  PROVE  Good(tree', ledger') /\ Moves
  <1> DEFINE M == Extended(tree.next, [i \in {start} |-> tx])
             e == start + GroupSize
             g == Above(<<0, start>>, OUTPLUSONELOG)
             v == Last(AddedHash(tree, g, HashOf(M, g)))
  <1>1. /\ Held(start) /\ tx.kind = "commitment" /\ start <= tree.next
        /\ tx \in IF start < tree.next THEN Known(start) ELSE Txs
        /\ tree' = Last(AddedHash(tree, g, tx.hash)) /\ ledger' = M
    BY DEF AddCommitment, AddedHash
  <1> HIDE DEF M, e, g, v
  <1>0. Held(start) /\ tx \in IF start < tree.next THEN Known(start) ELSE Txs
    BY <1>1
  <1>2. /\ tx \in GroupTxs /\ Whole(start)
        /\ start \in Nat /\ e \in Nat /\ start < e
        /\ Whole(e) /\ e <= Capacity
        /\ Extends(tree, ledger, M, start, e)
        /\ \A k \in 1..GroupSize : M[start + k - 1] = TxLeaves(tx)[k]
        /\ \A j \in Nat : tree.next <= j /\ j < start => M[j] = ZeroNote
        /\ tx.kind = "leafs" => ZerosLast(M, start)
    BY <1>0, OneGroup DEF M, e
  <1>3. Good(tree, ledger) /\ tree \in Trees(Values) /\ Holds(tree, ledger) /\ tree.next \in Nat
    BY DEF IInv, Good, Holds, Whole
  <1>4. e = start + GroupSize
    BY DEF e
  <1>5. /\ g \in Node /\ g[1] = OUTPLUSONELOG /\ Width[g[1]] = GroupSize
        /\ LeftEdge(g) = start /\ RightEdge(g) = e
    BY <1>2, <1>4, GroupNode DEF g
  <1>6. HashOf(M, g) = tx.hash
    <2>1. HashOf(M, g) = [k \in 1..GroupSize |-> M[start + k - 1]]
      BY <1>5 DEF HashOf
    <2>2. tx.hash \in [1..GroupSize -> Full] /\ TxLeaves(tx) = tx.hash
      BY <1>1, <1>2, GroupTxIs
    <2>3. \A k \in 1..GroupSize : M[start + k - 1] = tx.hash[k]
      BY <1>2, <2>2
    <2> QED
      BY <2>1, <2>2, <2>3
  <1>7. /\ v \in Trees(Values) /\ Holds(v, M) /\ SameIndexes(Indexed(tree, e, start), v)
        /\ \A m \in DOMAIN v.leaves : m[1] = 0 => m \in DOMAIN tree.leaves \/ OUTPLUSONELOG = 0
    BY <1>1, <1>2, <1>3, <1>4, <1>5, CommitmentTrue DEF v
  <1>8. \A m \in DOMAIN v.leaves : m[1] = 0 =>
          m \in DOMAIN tree.leaves \/ ZerosLast(M, calc_first_index(m[2]))
    BY <1>7, SingleLeaf
  <1>9. \A i \in 0..(Capacity - 1) : i < tree.next => ledger[i] = M[i]
    BY <1>2 DEF Extends
  <1>10. LeavesFirst(v, M)
    BY <1>3, <1>8, <1>9, LeavesFirstKept
  <1>11. Good(v, M) /\ v.next = (IF e >= tree.next THEN e ELSE tree.next)
    BY <1>2, <1>3, <1>7, <1>10, AddedGood
  <1>12. tree' = v
    BY <1>1, <1>6 DEF v
  <1>13. Moves
    BY <1>1, <1>2, <1>3, <1>11, <1>12, AddMoves
  <1> QED
    BY <1>1, <1>11, <1>12, <1>13
-----------------------------------------------------------------------------
\* An empty tree holds no leaves.
LEMMA EmptyHolds ==
  ASSUME NEW t, t.leaves = NoNodes, t.next = 0, t.first = None
  PROVE  Holds(t, NoLeaves) /\ NoLeaves \in Vectors(Values) /\ LeavesFirst(t, NoLeaves)
  <1>1. GroupSize \in Nat /\ GroupSize >= 1 /\ Capacity \in Nat
    BY GroupSizeIs
  <1>2. Whole(0)
    BY <1>1 DEF Whole
  <1>3. FilledTo(NoLeaves, 0)
    BY <1>1 DEF FilledTo, NoLeaves, Index
  <1>4. DOMAIN t.leaves = {}
    BY DEF NoNodes
  <1>5. SeenTrue(t, NoLeaves)
    <2> SUFFICES ASSUME NEW n \in Node PROVE get(t, n) = HashOf(NoLeaves, n)
      BY DEF SeenTrue
    <2>1. LeftEdge(n) \in Nat /\ LeftEdge(n) < RightEdge(n) /\ RightEdge(n) = LeftEdge(n) + Width[n[1]]
          /\ Width[n[1]] \in Nat
      BY NodeIs
    <2>2. get(t, n) = default_hashes[n[1]]
      <3>1. ~ RightEdge(n) <= t.next
        BY <2>1
      <3> QED
        BY <1>4, <3>1 DEF get
    <2>3. HashOf(NoLeaves, n) = default_hashes[n[1]]
      BY <1>3, <2>1, BeyondEnd
    <2> QED
      BY <2>2, <2>3
  <1>6. NoLeaves \in Vectors(Values)
    BY DEF NoLeaves, Vectors, Values, Index
  <1>7. StoredTrue(t, NoLeaves) /\ LeavesFirst(t, NoLeaves)
    BY <1>4 DEF StoredTrue, LeavesFirst
  <1> QED
    BY <1>1, <1>2, <1>3, <1>5, <1>6, <1>7 DEF Holds

\* wipe leaves an empty tree.
LEMMA WipeIs ==
  ASSUME NEW t \in Trees(Values)
  PROVE  /\ Last(wipe(t)) \in Trees(Values) /\ Good(Last(wipe(t)), NoLeaves)
         /\ Last(wipe(t)).next = 0 /\ Last(wipe(t)).stable = 0
  <1> DEFINE v == Last(wipe(t))
  <1>0. NoNodes \in PartialHashes(Values)
    BY NoNodesPartial
  <1>1. v = [t EXCEPT !.leaves = NoNodes, !.temp = NoNodes, !.next = 0, !.first = None,
                      !.db_first = None, !.db_next = 0, !.stable = 0]
    BY DEF wipe, Last, Trees
  <1>2. v \in Trees(Values)
    <2>1. v = [leaves |-> NoNodes, temp |-> NoNodes, db_next |-> 0, db_first |-> None,
               stable |-> 0, clean |-> 0, next |-> 0, first |-> None]
      BY <1>1 DEF Trees
    <2> QED
      BY <1>0, <2>1 DEF Trees
  <1>3. /\ v.leaves = NoNodes /\ v.next = 0 /\ v.first = None /\ v.db_first = None
        /\ v.db_next = 0 /\ v.stable = 0
    BY <1>1 DEF Trees
  <1> HIDE DEF v
  <1>4. Holds(v, NoLeaves) /\ NoLeaves \in Vectors(Values) /\ LeavesFirst(v, NoLeaves)
    BY <1>3, EmptyHolds
  <1>5. Good(v, NoLeaves)
    <2>1. 0 <= Capacity
      BY GroupSizeIs
    <2> QED
      BY <1>2, <1>3, <1>4, <2>1 DEF Good
  <1> QED
    BY <1>2, <1>3, <1>5 DEF v

\* A ledger cut at its start is empty.
LEMMA CutAll == NoLeaves = Cut(ledger, 0)
  BY GroupSizeIs DEF NoLeaves, Cut, Index

\* Wipe.
LEMMA WipeGood ==
  ASSUME IInv, Wipe
  PROVE  Good(tree', ledger') /\ Moves
  <1>1. tree' = Last(wipe(tree)) /\ ledger' = NoLeaves
    BY DEF Wipe
  <1>2. tree \in Trees(Values) /\ tree.next \in Nat /\ tree.stable \in Nat
    BY DEF IInv, Good, Trees
  <1>3. Good(tree', ledger') /\ tree'.next = 0 /\ tree'.stable = 0
    BY <1>1, <1>2, WipeIs
  <1>4. Moves
    BY <1>1, <1>2, <1>3, CutAll DEF Moves, StableBelow
  <1> QED
    BY <1>3, <1>4

\* A cut at a group boundary keeps the groups before it.
LEMMA LeavesFirstCut ==
  ASSUME NEW t \in Trees(Values), NEW L, NEW e, LeavesFirstBelow(t, L, e), Whole(e), e <= Capacity,
         NEW v, \A m \in DOMAIN v.leaves : m[1] = 0 => m \in DOMAIN t.leaves /\ RightEdge(m) <= e
  PROVE  LeavesFirst(v, Cut(L, e))
  <1>1. GroupSize \in Nat /\ Capacity \in Nat /\ e \in Nat
    BY GroupSizeIs DEF Whole
  <1>2. DOMAIN t.leaves \subseteq Node
    BY <1>1, PartialIs DEF Trees
  <1>3. ASSUME NEW m \in DOMAIN v.leaves, m[1] = 0
        PROVE  ZerosLast(Cut(L, e), calc_first_index(m[2]))
    <2> DEFINE g == calc_first_index(m[2])
               M == Cut(L, e)
    <2>1. ZerosLast(L, g)
      BY <1>3 DEF LeavesFirstBelow
    <2>2. m[2] \in Nat /\ m[2] < e
      <3>1. m[2] \in Nat /\ LeftEdge(m) = m[2] /\ LeftEdge(m) < RightEdge(m) /\ RightEdge(m) \in Nat
        BY <1>2, <1>3, NodeIs, WidthIs DEF LeftEdge
      <3> QED
        BY <1>1, <1>3, <3>1
    <2>3. Whole(g) /\ g <= m[2]
      BY <2>2, GroupOf
    <2>4. \A j \in 0..(Capacity - 1) : j < e => M[j] = L[j]
      BY DEF Cut
    <2> HIDE DEF g, M
    <2>5. g \in Nat /\ g + GroupSize <= e
      <3>1. g \in Nat /\ g < e
        BY <1>1, <2>2, <2>3 DEF Whole
      <3> QED
        BY <1>1, <2>3, <3>1, NextWhole
    <2>6. ASSUME NEW j \in Index, calc_first_index(j) = g PROVE L[j] = M[j]
      <3>1. j \in Nat /\ j \in 0..(Capacity - 1)
        BY <1>1 DEF Index
      <3>2. j = g + (j % GroupSize) /\ j % GroupSize \in 0..(GroupSize - 1)
        BY <2>6, <3>1, GroupOf
      <3>3. j < e
        BY <1>1, <2>5, <3>1, <3>2
      <3> QED
        BY <2>4, <3>1, <3>3
    <2>7. ZerosLast(M, g)
      BY <2>1, <2>6 DEF ZerosLast
    <2> QED
      BY <2>7 DEF g, M
  <1> QED
    BY <1>3 DEF LeavesFirst

\* A good tree is all there.
LEMMA GoodSalvageable ==
  ASSUME NEW t, NEW L, Good(t, L)
  PROVE  Salvageable(t, L, t.next)
  <1>1. /\ t \in Trees(Values) /\ L \in Vectors(Values) /\ Holds(t, L) /\ LeavesFirst(t, L)
        /\ t.db_next = t.next \/ (t.next = 0 /\ t.db_next = None)
        /\ t.db_first = t.first /\ t.next \in Nat
    BY DEF Good, Trees
  <1>2. HoldsBelow(t, L, t.next)
    BY <1>1, HoldsIsBelow
  <1>3. ASSUME t.db_next = None PROVE t.next = 0 /\ DOMAIN t.leaves = {}
    <2>1. t.next = 0
      BY <1>1, <1>3, SentinelsAssumption
    <2>2. ASSUME NEW n \in DOMAIN t.leaves PROVE FALSE
      <3>1. LeftEdge(n) < 0
        BY <1>1, <2>1 DEF Holds, StoredTrue
      <3>2. n \in Node
        BY <1>1, PartialIs DEF Trees
      <3> QED
        BY <3>1, <3>2, NodeIs
    <2> QED
      BY <2>1, <2>2
  <1>4. LeavesFirstBelow(t, L, t.next)
    BY <1>1 DEF LeavesFirst, LeavesFirstBelow
  <1> QED
    BY <1>1, <1>2, <1>3, <1>4 DEF Salvageable

\* rollback to a group boundary up to which the tree holds the ledger: when it gives
\* back a root, the tree is good.
LEMMA RollbackRestores ==
  ASSUME NEW t, NEW L, NEW s, Salvageable(t, L, s), NEW r, Whole(r), r <= s
  PROVE  LET undo == rollback(t, r)
             e == CutPoint(t, r)
             v == Last(undo.writes)
         IN  /\ e \in Nat /\ Whole(e) /\ e <= s
             /\ undo.root \in {None, HashOf(Cut(L, e), Root)}
             /\ v \in Trees(Values)
             /\ undo.root # None =>
                  Good(v, Cut(L, e)) /\ v.next = e /\ v.stable = StableBelow(t, e)
  <1> DEFINE undo == rollback(t, r)
             e == CutPoint(t, r)
             v == Last(undo.writes)
  <1>1. /\ t \in Trees(Values) /\ L \in Vectors(Values) /\ HoldsBelow(t, L, s)
        /\ s # 0 => t.db_first = t.first
        /\ LeavesFirstBelow(t, L, s)
    BY DEF Salvageable
  <1>2. /\ s \in Nat /\ t.stable \in Nat /\ r \in Nat /\ Capacity \in Nat
    BY <1>1, GroupSizeIs DEF HoldsBelow, Whole, Trees
  <1>3. PICK next \in s..Capacity : FilledTo(L, next)
    BY <1>1 DEF HoldsBelow
  <1>4. Default \in Values
    BY DEF Values
  <1>5. /\ undo.root \in {None, HashOf(Cut(L, e), Root)}
        /\ v \in Trees(Values)
        /\ undo.root # None =>
             /\ v.next = e /\ v.db_next = e /\ Holds(v, Cut(L, e))
             /\ v.first = IF e = 0 THEN None ELSE t.first
             /\ v.db_first = IF e = 0 THEN None ELSE t.db_first
             /\ v.stable = IF e < t.stable THEN 0 ELSE t.stable
             /\ \A n \in DOMAIN v.leaves :
                   n[1] = 0 => n \in DOMAIN t.leaves /\ RightEdge(n) <= e
    BY <1>1, <1>4, RollbackBelow, NoneIsNoValue
  <1>6. e \in Nat /\ Whole(e) /\ e <= s /\ e <= next /\ e <= Capacity /\ next \in Nat
    <2>1. Whole(0)
      BY GroupSizeIs DEF Whole
    <2> QED
      BY <1>2, <1>3, <2>1 DEF CutPoint
  <1> HIDE DEF e, undo, v
  <1>7. ASSUME undo.root # None PROVE Good(v, Cut(L, e))
    <2>1. /\ v.next = e /\ v.db_next = e /\ Holds(v, Cut(L, e))
          /\ v.db_first = v.first /\ v.stable <= Capacity
      BY <1>1, <1>2, <1>5, <1>6, <1>7
    <2>2. Cut(L, e) \in Vectors(Values)
      BY <1>1, <1>3, <1>4, <1>6, CutIs
    <2>3. LeavesFirst(v, Cut(L, e))
      <3>1. DOMAIN t.leaves \subseteq Node
        BY <1>1, PartialIs DEF Trees
      <3>2. LeavesFirstBelow(t, L, e)
        BY <1>1, <1>2, <1>6, <3>1, NodeIs DEF LeavesFirstBelow
      <3> QED
        BY <1>1, <1>5, <1>6, <1>7, <3>2, LeavesFirstCut
    <2> QED
      BY <1>5, <2>1, <2>2, <2>3 DEF Good
  <1>8. ASSUME undo.root # None PROVE v.stable = StableBelow(t, e)
    BY <1>2, <1>5, <1>6, <1>8 DEF StableBelow
  <1> QED
    BY <1>5, <1>6, <1>7, <1>8 DEF e, undo, v

\* State.rollback, also as the recovery of what an interrupted call has left.
LEMMA RollbackLeaves ==
  ASSUME NEW s, Salvageable(tree, ledger, s), NEW index \in 0..Capacity, index <= s, Rollback(index)
  PROVE  /\ Good(tree', ledger') /\ tree'.next \in Nat /\ tree'.next <= s
         /\ ledger' = Cut(ledger, tree'.next)
         /\ tree'.stable = StableBelow(tree, tree'.next)
  <1> DEFINE target == calc_first_index(index)
             undo == rollback(tree, target)
             e == CutPoint(tree, target)
             v == Last(undo.writes)
  <1>1. /\ undo.root = None => tree' = Last(wipe(v)) /\ ledger' = NoLeaves
        /\ undo.root # None => tree' = v /\ ledger' = Prefix(RollbackPoint(target))
    BY DEF Rollback
  <1>2. Prefix(RollbackPoint(target)) = Cut(ledger, e)
    BY DEF Prefix, Index, Cut, RollbackPoint, CutPoint
  <1>3. index \in Nat /\ s \in Nat /\ tree.stable \in Nat
    BY GroupSizeIs DEF Salvageable, HoldsBelow, Whole, Trees
  <1>4. Whole(target) /\ target <= s
    <2>1. Whole(target) /\ target <= index
      BY <1>3, GroupOf
    <2> HIDE DEF target
    <2> QED
      BY <1>3, <2>1 DEF Whole
  <1> HIDE DEF target
  <1>5. /\ e \in Nat /\ Whole(e) /\ e <= s /\ v \in Trees(Values)
        /\ undo.root # None =>
             Good(v, Cut(ledger, e)) /\ v.next = e /\ v.stable = StableBelow(tree, e)
    BY <1>4, RollbackRestores
  <1> HIDE DEF e, undo, v
  <1>6. CASE undo.root = None
    <2>1. Good(tree', ledger') /\ tree'.next = 0 /\ tree'.stable = 0
      BY <1>1, <1>5, <1>6, WipeIs
    <2> QED
      BY <1>1, <1>3, <1>6, <2>1, CutAll DEF StableBelow
  <1>7. CASE undo.root # None
    BY <1>1, <1>2, <1>5, <1>7
  <1> QED
    BY <1>6, <1>7

\* It keeps a tree good.
LEMMA RollbackGood ==
  ASSUME IInv, NEW index \in 0..Capacity, Rollback(index)
  PROVE  Good(tree', ledger') /\ Moves
  <1>1. index <= tree.next
    BY DEF Rollback
  <1>2. Salvageable(tree, ledger, tree.next)
    BY GoodSalvageable DEF IInv
  <1>3. /\ Good(tree', ledger') /\ tree'.next \in Nat /\ tree'.next <= tree.next
        /\ ledger' = Cut(ledger, tree'.next)
        /\ tree'.stable = StableBelow(tree, tree'.next)
    BY <1>1, <1>2, RollbackLeaves
  <1> QED
    BY <1>3 DEF Moves
\* The marks of a tree, the stable index and the keys, do not matter for what it holds.
LEMMA SameHolds ==
  ASSUME NEW t, NEW L, Holds(t, L), NEW v, v.leaves = t.leaves, v.next = t.next, v.first = t.first
  PROVE  Holds(v, L)
  <1>1. \A n \in Node : get(v, n) = get(t, n)
    BY DEF get
  <1>2. SeenTrue(v, L)
    BY <1>1 DEF Holds, SeenTrue
  <1>3. StoredTrue(v, L)
    BY DEF Holds, StoredTrue
  <1> QED
    BY <1>2, <1>3 DEF Holds

\* A step that changes neither the leaves nor the end.
LEMMA StayMoves ==
  ASSUME tree.next \in Nat, tree'.next = tree.next, ledger' = ledger
  PROVE  Moves
  BY DEF Moves

\* set_last_stable_index.
LEMMA SetStableIndexGood ==
  ASSUME IInv, NEW value \in 0..Capacity, SetStableIndex(value)
  PROVE  Good(tree', ledger') /\ Moves
  <1> DEFINE v == [tree EXCEPT !.stable = value]
  <1>1. tree' = v /\ ledger' = ledger
    BY DEF SetStableIndex, set_last_stable_index, Last
  <1>2. /\ tree \in Trees(Values) /\ ledger \in Vectors(Values) /\ Holds(tree, ledger)
        /\ tree.db_next = tree.next \/ (tree.next = 0 /\ tree.db_next = None)
        /\ tree.db_first = tree.first /\ LeavesFirst(tree, ledger)
    BY DEF IInv, Good
  <1>3. value \in Nat /\ value <= Capacity /\ tree.next \in Nat
    BY <1>2, GroupSizeIs DEF Trees
  <1>4. v \in Trees(Values)
    BY <1>2, <1>3 DEF Trees
  <1>5. /\ v.leaves = tree.leaves /\ v.next = tree.next /\ v.first = tree.first /\ v.stable = value
        /\ v.db_next = tree.db_next /\ v.db_first = tree.db_first
    BY <1>2 DEF Trees
  <1> HIDE DEF v
  <1>6. Holds(v, ledger)
    BY <1>2, <1>5, SameHolds
  <1>7. LeavesFirst(v, ledger)
    BY <1>2, <1>5 DEF LeavesFirst
  <1>8. Good(v, ledger)
    BY <1>2, <1>3, <1>4, <1>5, <1>6, <1>7 DEF Good
  <1> QED
    BY <1>1, <1>3, <1>5, <1>8, StayMoves

\* new: the keys give back what was in memory; an empty tree has none, and
\* nothing to scan.
LEMMA OpenIs ==
  ASSUME NEW t, NEW L, Good(t, L)
  PROVE  open(t) = t
  <1>1. /\ t \in Trees(Values) /\ t.next \in Nat /\ Holds(t, L) /\ t.db_first = t.first
        /\ t.db_next = t.next \/ (t.next = 0 /\ t.db_next = None)
    BY DEF Good, Trees
  <1>2. ASSUME t.next = 0 PROVE Scanned(t) = {}
    <2>1. DOMAIN t.leaves \subseteq Node
      BY <1>1, PartialIs DEF Trees
    <2>2. ASSUME NEW n \in DOMAIN t.leaves PROVE FALSE
      <3>1. LeftEdge(n) \in Nat
        BY <2>1, NodeIs
      <3>2. LeftEdge(n) < t.next
        BY <1>1 DEF Holds, StoredTrue
      <3> QED
        BY <1>2, <3>1, <3>2
    <2> QED
      BY <2>2 DEF Scanned
  <1>3. (IF t.db_next # None THEN t.db_next ELSE scan_next_index(t)) = t.next
    <2>1. CASE t.db_next = t.next /\ t.db_next # None
      BY <2>1
    <2>2. CASE t.db_next = None
      <3>1. t.next = 0
        <4>1. t.next # None
          BY <1>1, SentinelsAssumption
        <4> QED
          BY <1>1, <2>2, <4>1
      <3>2. {0} \cup {calc_next_index(LeftEdge(n)) : n \in Scanned(t)} = {0}
        BY <1>2, <3>1
      <3>3. scan_next_index(t) = Max({0})
        BY <3>2 DEF scan_next_index
      <3>4. Max({0}) = 0
        <4>1. \A x \in {0} : x = 0
          OBVIOUS
        <4>2. Max({0}) \in {0}
          BY DEF Max
        <4> QED
          BY <4>1, <4>2
      <3> QED
        BY <2>2, <3>1, <3>3, <3>4
    <2> QED
      BY <1>1, <2>1, <2>2
  <1>4. (IF t.db_first # None THEN t.db_first ELSE scan_first_index(t)) = t.first
    <2>1. CASE t.db_first # None
      BY <1>1, <2>1
    <2>2. CASE t.db_first = None
      <3>1. t.next = 0
        BY <1>1, <2>2 DEF Holds
      <3>2. scan_first_index(t) = None
        BY <1>2, <3>1 DEF scan_first_index
      <3> QED
        BY <1>1, <2>2, <3>2
    <2> QED
      BY <2>1, <2>2
  <1>5. open(t) = [t EXCEPT !.next = t.next, !.first = t.first]
    BY <1>3, <1>4 DEF open
  <1>6. [t EXCEPT !.next = t.next, !.first = t.first] = t
    BY <1>1 DEF Trees
  <1> QED
    BY <1>5, <1>6

\* Closing and opening the database.
LEMMA ReopenGood ==
  ASSUME IInv, Reopen
  PROVE  Good(tree', ledger') /\ Moves
  <1>1. tree' = open(tree) /\ ledger' = ledger
    BY DEF Reopen
  <1>2. Good(tree, ledger) /\ tree.next \in Nat
    BY DEF IInv, Good, Trees
  <1>3. tree' = tree
    BY <1>1, <1>2, OpenIs
  <1> QED
    BY <1>1, <1>2, <1>3, StayMoves

\* An empty database is a good one.
LEMMA EmptyGood == Good(EmptyTree, NoLeaves)
  <1>1. NoNodes \in PartialHashes(Values)
    BY NoNodesPartial
  <1>2. EmptyTree \in Trees(Values)
    BY <1>1 DEF EmptyTree, Trees
  <1>3. EmptyTree.leaves = NoNodes /\ EmptyTree.next = 0 /\ EmptyTree.first = None
        /\ EmptyTree.db_next = None /\ EmptyTree.stable = 0 /\ EmptyTree.db_first = None
    BY DEF EmptyTree
  <1>4. Holds(EmptyTree, NoLeaves) /\ NoLeaves \in Vectors(Values) /\ LeavesFirst(EmptyTree, NoLeaves)
    BY <1>3, EmptyHolds
  <1>5. 0 <= Capacity
    BY GroupSizeIs
  <1> QED
    BY <1>2, <1>3, <1>4, <1>5 DEF Good

\* A new database.
LEMMA InitGood ==
  ASSUME Init
  PROVE  IInv
  <1>1. tree = EmptyTree /\ ledger = NoLeaves
    BY DEF Init
  <1> QED
    BY <1>1, EmptyGood DEF IInv

\* The left siblings of a group boundary cover exactly what is before it.
LEMMA LeftSiblingsAre ==
  ASSUME NEW start, Whole(start), start < Capacity
  PROVE  /\ \A m \in LeftSiblings(start) :
              m \in Node /\ OUTPLUSONELOG <= m[1] /\ RightEdge(m) <= start
         /\ \A j \in Nat : j < start =>
              \E m \in LeftSiblings(start) : m = <<0, j>> \/ m \in Ancestors(<<0, j>>)
  <1>1. start \in Nat /\ Capacity \in Nat /\ start \in 0..(Capacity - 1) /\ HEIGHT \in Nat
        /\ OUTPLUSONELOG \in 0..HEIGHT
    BY GroupSizeIs, SizesAssumption DEF Whole
  <1>2. ASSUME NEW m \in LeftSiblings(start)
        PROVE  m \in Node /\ OUTPLUSONELOG <= m[1] /\ RightEdge(m) <= start
    <2>1. PICK h \in 0..(HEIGHT - 1) : LET k == Above(<<0, start>>, h)
                                       IN  k[2] % 2 = 1 /\ m = Sibling(k)
      BY DEF LeftSiblings
    <2> DEFINE k == Above(<<0, start>>, h)
    <2>2. k[2] % 2 = 1 /\ m = Sibling(k)
      BY <2>1
    <2>3. h \in 0..HEIGHT /\ h < HEIGHT /\ h \in Nat
      BY <1>1
    <2>4. k \in Node /\ k[1] = h /\ LeftEdge(k) <= start /\ start < RightEdge(k)
      BY <1>1, <2>3, LeafAbove
    <2> HIDE DEF k
    <2> DEFINE p == Above(k, k[1] + 1)
    <2>5. p \in Node /\ p[1] = h + 1 /\ k = RightChild(p) /\ m = LeftChild(p)
      BY <2>2, <2>3, <2>4, ParentIs
    <2> HIDE DEF p
    <2>6. /\ m \in Node /\ m[1] = h /\ RightEdge(m) = LeftEdge(k)
          /\ LeftEdge(k) = LeftEdge(p) + Width[h] /\ RightEdge(k) = RightEdge(p)
      <3>1. p[1] > 0 /\ p[1] - 1 = h
        BY <2>3, <2>5
      <3> QED
        BY <2>5, <3>1, ChildrenAre
    <2>7. LeftEdge(p) \in Nat /\ Width[h] \in Nat /\ Width[h] >= 1 /\ RightEdge(p) \in Nat
          /\ LeftEdge(k) \in Nat
      BY <2>3, <2>4, <2>5, NodeIs, WidthPositive
    <2>8. OUTPLUSONELOG <= h
      <3> SUFFICES ASSUME h < OUTPLUSONELOG PROVE FALSE
        BY <1>1, <2>3
      <3>1. p[1] <= OUTPLUSONELOG
        BY <1>1, <2>3, <2>5
      <3>2. start <= LeftEdge(p) \/ RightEdge(p) <= start
        BY <2>5, <3>1, BoundaryOutside
      <3> QED
        BY <1>1, <2>4, <2>6, <2>7, <3>2
    <2> QED
      BY <2>4, <2>6, <2>8
  <1>3. ASSUME NEW j \in Nat, j < start
        PROVE  \E m \in LeftSiblings(start) : m = <<0, j>> \/ m \in Ancestors(<<0, j>>)
    <2>1. j \in 0..(Capacity - 1)
      BY <1>1, <1>3
    <2>2. PICK h \in 0..(HEIGHT - 1) :
            LET A == Above(<<0, j>>, h)
                B == Above(<<0, start>>, h)
            IN  /\ A \in Node /\ A[1] = h /\ A[2] % 2 = 0 /\ LeftEdge(A) <= j /\ j < RightEdge(A)
                /\ B \in Node /\ B[1] = h /\ B[2] % 2 = 1 /\ LeftEdge(B) <= start /\ start < RightEdge(B)
                /\ B[2] = A[2] + 1 /\ A = Sibling(B) /\ RightEdge(A) = LeftEdge(B)
      BY <1>1, <1>3, <2>1, Fork
    <2> DEFINE A == Above(<<0, j>>, h)
    <2>3. A \in LeftSiblings(start)
      BY <2>2 DEF LeftSiblings
    <2>4. A \in Node /\ LeftEdge(A) <= j /\ j < RightEdge(A)
      BY <2>2
    <2> HIDE DEF A
    <2>5. A = <<0, j>> \/ A \in Ancestors(<<0, j>>)
      BY <2>1, <2>4, HasLeaf
    <2> QED
      BY <2>3, <2>5
  <1> QED
    BY <1>2, <1>3

\* The sibling of a node lies just beside it.
LEMMA SiblingIs ==
  ASSUME NEW n \in Node, n[1] < HEIGHT
  PROVE  /\ Sibling(n) \in Node /\ Sibling(n)[1] = n[1]
         /\ n[2] % 2 = 0 => LeftEdge(Sibling(n)) = RightEdge(n)
         /\ n[2] % 2 = 1 => /\ RightEdge(Sibling(n)) = LeftEdge(n)
                            /\ Sibling(n)[2] % 2 = 0
  <1> DEFINE p == Above(n, n[1] + 1)
  <1>1. /\ p \in Node /\ p[1] = n[1] + 1
        /\ \/ n[2] % 2 = 0 /\ n = LeftChild(p) /\ Sibling(n) = RightChild(p)
           \/ n[2] % 2 = 1 /\ n = RightChild(p) /\ Sibling(n) = LeftChild(p)
    BY ParentIs
  <1> HIDE DEF p
  <1>2. n[1] \in Nat /\ n[2] \in Nat
    BY NodeIs
  <1>3. p[1] > 0 /\ p[1] - 1 = n[1]
    BY <1>1, <1>2
  <1>4. /\ LeftChild(p) \in Node /\ RightChild(p) \in Node
        /\ LeftChild(p)[1] = n[1] /\ RightChild(p)[1] = n[1]
        /\ RightEdge(LeftChild(p)) = LeftEdge(p) + Width[n[1]]
        /\ LeftEdge(RightChild(p)) = LeftEdge(p) + Width[n[1]]
    BY <1>1, <1>3, ChildrenAre
  <1>5. n[2] % 2 = 1 => Sibling(n)[2] % 2 = 0
    BY <1>2 DEF Sibling
  <1>6. ~ (n[2] % 2 = 0 /\ n[2] % 2 = 1)
    OBVIOUS
  <1> QED
    BY <1>1, <1>4, <1>5, <1>6

\* The left siblings of a boundary that a tree holds are among the nodes it knows.
LEMMA LeftSiblingsSeen ==
  ASSUME NEW start, Whole(start), start < Capacity,
         NEW first, first # None => first \in Nat /\ first <= start,
         NEW m \in LeftSiblings(start)
  PROVE  m \in Node /\ RightEdge(m) <= start /\ Seen(first, m)
  <1>1. m \in Node /\ OUTPLUSONELOG <= m[1] /\ RightEdge(m) <= start
    BY LeftSiblingsAre
  <1>2. start \in Nat /\ start \in 0..(Capacity - 1) /\ HEIGHT \in Nat
    BY GroupSizeIs, SizesAssumption DEF Whole
  <1>3. PICK h \in 0..(HEIGHT - 1) : Above(<<0, start>>, h)[2] % 2 = 1 /\ m = Sibling(Above(<<0, start>>, h))
    BY DEF LeftSiblings
  <1> DEFINE k == Above(<<0, start>>, h)
  <1>4. k \in Node /\ k[1] = h /\ LeftEdge(k) <= start /\ start < RightEdge(k)
    BY <1>2, LeafAbove
  <1>5. k[2] % 2 = 1 /\ m = Sibling(k)
    BY <1>3
  <1> HIDE DEF k
  <1>6. RightEdge(m) = LeftEdge(k) /\ m[2] % 2 = 0 /\ m[1] = k[1]
    BY <1>2, <1>4, <1>5, SiblingIs
  <1>7. RightEdge(k) = LeftEdge(k) + Width[k[1]] /\ LeftEdge(k) \in Nat /\ Width[k[1]] \in Nat
    BY <1>4, NodeIs
  <1>8. start < RightEdge(m) + Width[m[1]] /\ RightEdge(m) \in Nat /\ Width[m[1]] \in Nat
    BY <1>4, <1>6, <1>7
  <1>9. CASE first = None
    BY <1>1, <1>9 DEF Seen
  <1>10. CASE first # None /\ first < RightEdge(m)
    BY <1>1, <1>10 DEF Seen
  <1>11. CASE first # None /\ ~ first < RightEdge(m)
    <2>1. RightEdge(m) <= first /\ first < RightEdge(m) + Width[m[1]]
      BY <1>2, <1>8, <1>11
    <2> QED
      BY <1>1, <1>6, <2>1 DEF Seen
  <1> QED
    BY <1>1, <1>9, <1>10, <1>11

\* What is told of a partial tree with its first batch.
LEMMA FirstTold ==
  ASSUME IInv, NEW prefix \in SkippedParts, NEW n \in 1..MaxBatch, tree.next = 0,
         Len(prefix) + n * GroupSize <= Capacity, NEW batch \in Batches(Len(prefix), n)
  PROVE  LET start == Len(prefix)
             siblings == SiblingHashes(prefix)
             M == FirstLedger(prefix, batch)
         IN  /\ start \in Nat /\ IsBatch(batch, start, n) /\ BatchIn(batch, M)
             /\ RetoldLeaves(tree, batch)
             /\ Extends(tree, ledger, M, start, start + n * GroupSize)
             /\ SiblingsTrue(tree, siblings, M, start)
             /\ \A m \in DOMAIN siblings : Seen(start, m)
  <1> DEFINE start == Len(prefix)
             whole == SkippedLeaves(prefix)
             siblings == SiblingHashes(prefix)
  <1>1. PICK len \in 0..(Capacity - 1) : len % GroupSize = 0 /\ prefix \in [1..len -> Full]
    BY TxsAssumption DEF Full
  <1>2. GroupSize \in Nat /\ GroupSize >= 1 /\ Capacity \in Nat
    BY GroupSizeIs
  <1>3. /\ start \in Nat /\ start < Capacity /\ Whole(start)
        /\ \A i \in Index : i < start => prefix[i + 1] \in Full
    <2>1. len \in Nat
      OBVIOUS
    <2>2. start = len
      BY <1>1, <2>1
    <2> QED
      BY <1>1, <1>2, <2>1, <2>2 DEF Whole, Index
  <1>4. tree.next = 0 /\ start + n * GroupSize <= Capacity
    OBVIOUS
  <1>5. batch \in Batches(start, n)
    OBVIOUS
  <1> DEFINE e == start + n * GroupSize
             N == Extended(start, batch)
             M == FirstLedger(prefix, batch)
  <1>6. n \in Nat \ {0}
    BY BoundsAssumption
  <1>7. IsBatch(batch, start, n) /\ Retold(batch)
    BY <1>3, <1>4, <1>5, <1>6, BatchesAre
  <1>8. /\ BatchIn(batch, N) /\ N \in Vectors(Values)
        /\ \A i \in Index : e <= i => N[i] = ledger[i]
        /\ \A i \in Index : start <= i /\ i < e => N[i] # Default
    BY <1>4, <1>7, ExtendedIs
  <1>9. /\ e \in Nat /\ start < e /\ e <= Capacity
        /\ \A i \in DOMAIN batch : i \in Nat /\ start <= i /\ i + GroupSize <= Capacity
    BY <1>7, BatchIs
  <1>10. \A i \in Index : whole[i] = IF i < start THEN prefix[i + 1] ELSE Default
    BY DEF SkippedLeaves
  <1>11. \A i \in Index : M[i] = IF i < start THEN whole[i] ELSE N[i]
    BY DEF FirstLedger
  <1>12. M = [i \in 0..(Capacity - 1) |-> M[i]]
    BY DEF FirstLedger, Index
  <1>13. e = start + n * GroupSize
    OBVIOUS
  <1> HIDE DEF e, N, M, whole, start, siblings
  <1>14. Good(tree, ledger) /\ tree.first = None /\ FilledTo(ledger, 0)
    BY <1>4 DEF IInv, Good, Holds
  <1>15. \A i \in Index : i < start => M[i] \in Full
    BY <1>3, <1>10, <1>11
  <1>16. BatchIn(batch, M)
    <2> SUFFICES ASSUME NEW i \in DOMAIN batch, NEW k \in 1..GroupSize
                 PROVE  M[i + k - 1] = TxLeaves(batch[i])[k]
      BY DEF BatchIn
    <2> DEFINE j == i + k - 1
    <2>1. j \in Index /\ ~ j < start
      BY <1>2, <1>3, <1>9 DEF Index
    <2>2. N[j] = TxLeaves(batch[i])[k]
      BY <1>8 DEF BatchIn
    <2> HIDE DEF j
    <2>3. M[j] = TxLeaves(batch[i])[k]
      BY <1>11, <2>1, <2>2
    <2> QED
      BY <2>3 DEF j
  <1>17. M \in Vectors(Values)
    <2>1. \A i \in 0..(Capacity - 1) : M[i] \in Values
      BY <1>8, <1>11, <1>15 DEF Index, Vectors, Full, Values
    <2> QED
      BY <1>12, <2>1 DEF Vectors
  <1>18. FilledTo(M, IF e >= tree.next THEN e ELSE tree.next)
    <2>1. \A v \in Full : v # Default
      BY LeafAssumption, SentinelsAssumption DEF Full
    <2>2. ASSUME NEW i \in 0..(Capacity - 1) PROVE M[i] = Default <=> e <= i
      <3>1. i \in Nat /\ i \in Index /\ (ledger[i] = Default <=> 0 <= i)
        BY <1>2, <1>14 DEF Index, FilledTo
      <3> QED
        BY <1>3, <1>8, <1>9, <1>11, <1>15, <2>1, <3>1
    <2> QED
      BY <1>4, <1>9, <2>2 DEF FilledTo
  <1>19. Extends(tree, ledger, M, start, e)
    <2>1. \A i \in 0..(Capacity - 1) : ~ i < tree.next
      BY <1>2, <1>4
    <2> QED
      BY <1>14, <1>17, <1>18, <2>1 DEF Extends
  <1>20. DOMAIN siblings = LeftSiblings(start)
         /\ \A m \in LeftSiblings(start) : siblings[m] = HashOf(whole, m)
    BY DEF siblings, SiblingHashes, start, whole
  <1>21. SiblingsTrue(tree, siblings, M, start)
    <2>1. /\ \A m \in LeftSiblings(start) :
               m \in Node /\ OUTPLUSONELOG <= m[1] /\ RightEdge(m) <= start
          /\ \A j \in Nat : j < start =>
               \E m \in LeftSiblings(start) : m = <<0, j>> \/ m \in Ancestors(<<0, j>>)
      BY <1>3, LeftSiblingsAre
    <2>2. ASSUME NEW m \in LeftSiblings(start) PROVE HashOf(whole, m) = HashOf(M, m)
      <3>1. m \in Node /\ RightEdge(m) <= start /\ RightEdge(m) \in Nat
        BY <2>1, NodeIs
      <3>2. ASSUME NEW i \in Below(m) PROVE whole[i] = M[i]
        <4>1. i \in Index /\ i < start
          BY <1>3, <3>1, BelowIs DEF Index, Below
        <4> QED
          BY <1>11, <4>1
      <3> QED
        BY <3>1, <3>2, SameLeaves
    <2>3. ASSUME NEW j \in Nat, j < start
          PROVE  Given(siblings, <<0, j>>) /\ DOMAIN siblings # {}
      BY <1>20, <2>1, <2>3 DEF Given
    <2> QED
      BY <1>4, <1>20, <2>1, <2>2, <2>3 DEF SiblingsTrue
  <1>22. ASSUME NEW m \in DOMAIN siblings PROVE Seen(start, m)
    <2>1. m \in LeftSiblings(start)
      BY <1>20
    <2>2. start # None => start \in Nat /\ start <= start
      BY <1>3
    <2> QED
      BY <1>3, <2>1, <2>2, LeftSiblingsSeen
  <1>23. RetoldLeaves(tree, batch)
    BY <1>5, BatchRetold
  <1>24. start \in Nat /\ Extends(tree, ledger, M, start, start + n * GroupSize)
    BY <1>3, <1>13, <1>19
  <1> QED
    BY <1>7, <1>16, <1>21, <1>22, <1>23, <1>24 DEF start, siblings, M

\* update_state of a partial tree.
LEMMA FirstBatch ==
  ASSUME IInv, NEW prefix \in SkippedParts, NEW n \in 1..MaxBatch, AddFirstBatch(prefix, n)
  PROVE  \E batch : Delivers(batch, Len(prefix), n, SiblingHashes(prefix))
  <1> DEFINE start == Len(prefix)
             siblings == SiblingHashes(prefix)
  <1>1. tree.next = 0 /\ start + n * GroupSize <= Capacity
    BY DEF AddFirstBatch
  <1>2. PICK batch \in Batches(start, n) :
          /\ tree' = Last(add_leafs_commitments_and_siblings(tree, batch, siblings))
          /\ ledger' = FirstLedger(prefix, batch)
    BY DEF AddFirstBatch
  <1>3. /\ IsBatch(batch, start, n) /\ BatchIn(batch, ledger') /\ RetoldLeaves(tree, batch)
        /\ Extends(tree, ledger, ledger', start, start + n * GroupSize)
        /\ SiblingsTrue(tree, siblings, ledger', start)
        /\ \A m \in DOMAIN siblings : Seen(start, m)
    BY <1>1, <1>2, FirstTold
  <1> HIDE DEF start, siblings
  <1>4. Delivers(batch, start, n, siblings)
    BY <1>2, <1>3 DEF Delivers
  <1> QED
    BY <1>4 DEF start, siblings
-----------------------------------------------------------------------------
\* Every action keeps the invariant, and keeps the leaves or cuts them.
LEMMA NextGood ==
  ASSUME IInv, Next
  PROVE  Good(tree', ledger') /\ Moves
  <1>1. ASSUME NEW start \in {i \in Index : Aligned(i)}, NEW n \in 1..MaxBatch, AddBatch(start, n)
        PROVE  Good(tree', ledger') /\ Moves
    BY <1>1, NextBatch, DeliveredGood
  <1>2. ASSUME NEW prefix \in SkippedParts, NEW n \in 1..MaxBatch, AddFirstBatch(prefix, n)
        PROVE  Good(tree', ledger') /\ Moves
    BY <1>2, FirstBatch, DeliveredGood
  <1>3. ASSUME NEW start \in {i \in Index : Aligned(i)}, NEW tx \in Txs \cup Known(start),
               AddHashes(start, tx)
        PROVE  Good(tree', ledger') /\ Moves
    BY <1>3, AddHashesGood
  <1>4. ASSUME NEW start \in {i \in Index : Aligned(i)}, NEW tx \in Txs \cup Known(start),
               AddCommitment(start, tx)
        PROVE  Good(tree', ledger') /\ Moves
    BY <1>4, AddCommitmentGood
  <1>5. ASSUME NEW index \in 0..Capacity, Rollback(index)
        PROVE  Good(tree', ledger') /\ Moves
    BY <1>5, RollbackGood
  <1>6. CASE Wipe
    BY <1>6, WipeGood
  <1>7. ASSUME NEW value \in {i \in 0..Capacity : Aligned(i)}, SetStableIndex(value)
        PROVE  Good(tree', ledger') /\ Moves
    BY <1>7, SetStableIndexGood
  <1>8. CASE Reopen
    BY <1>8, ReopenGood
  <1> QED
    BY <1>1, <1>2, <1>3, <1>4, <1>5, <1>6, <1>7, <1>8 DEF Next

\* The inductive invariant.
LEMMA Inductive == Spec => []IInv
  <1>1. Init => IInv
    BY InitGood
  <1>2. IInv /\ [Next]_vars => IInv'
    <2> SUFFICES ASSUME IInv, [Next]_vars PROVE IInv'
      OBVIOUS
    <2>1. CASE Next
      BY <2>1, NextGood DEF IInv
    <2>2. CASE UNCHANGED vars
      BY <2>2 DEF vars, IInv
    <2> QED
      BY <2>1, <2>2
  <1> QED
    BY <1>1, <1>2, PTL DEF Spec

\* The root of a good tree is the root of its ledger.
LEMMA RootOfGood ==
  ASSUME NEW t, NEW L, Good(t, L)
  PROVE  get_root(t) = HashOf(L, Root)
  <1>1. Holds(t, L)
    BY DEF Good
  <1>2. Root \in Node /\ Root[1] = HEIGHT /\ RightEdge(Root) = Capacity
    BY RootIs
  <1>3. OUTPLUSONELOG <= HEIGHT /\ Capacity \in Nat
    BY SizesAssumption, GroupSizeIs
  <1>4. t.first = None \/ t.first < RightEdge(Root)
    BY <1>1, <1>2, <1>3 DEF Holds, Whole
  <1>5. Seen(t.first, Root)
    BY <1>2, <1>3, <1>4 DEF Seen
  <1> QED
    BY <1>1, <1>2, <1>5 DEF Holds, SeenTrue, get_root

\* The root commits to the ledger, leaf by leaf.
LEMMA VectorOfGood ==
  ASSUME NEW t, NEW L, Good(t, L)
  PROVE  [i \in Index |-> get_root(t)[i + 1]] = L
  <1>1. L \in Vectors(Values) /\ Capacity \in Nat
    BY GroupSizeIs DEF Good
  <1>2. L = [i \in 0..(Capacity - 1) |-> L[i]]
    BY <1>1 DEF Vectors
  <1>3. HashOf(L, Root) = [k \in 1..Capacity |-> L[k - 1]]
    <2>1. Root[1] = HEIGHT /\ LeftEdge(Root) = 0
      BY RootIs
    <2>2. \A k \in 1..Capacity : 0 + k - 1 = k - 1
      BY <1>1
    <2> QED
      BY <2>1, <2>2 DEF HashOf, Capacity
  <1>4. \A i \in Index : get_root(t)[i + 1] = L[i]
    <2> SUFFICES ASSUME NEW i \in Index PROVE get_root(t)[i + 1] = L[i]
      OBVIOUS
    <2>1. i + 1 \in 1..Capacity /\ (i + 1) - 1 = i
      BY <1>1 DEF Index
    <2> QED
      BY <1>3, <2>1, RootOfGood
  <1> QED
    BY <1>2, <1>4 DEF Index

\* What the tree answers in a good state.

\* A left sibling that is not stored is an empty block.
LEMMA MissingIsEmpty ==
  ASSUME NEW t, NEW L, Good(t, L), NEW start, Whole(start), start < Capacity, start <= t.next,
         t.first # None => t.first <= start, NEW m \in LeftSiblings(start)
  PROVE  /\ m \in Node /\ RightEdge(m) <= start
         /\ get(t, m) = HashOf(L, m)
         /\ m \notin DOMAIN t.leaves => HashOf(L, m) = zero_note_hashes[m[1]]
  <1>1. /\ t.next \in Nat /\ SeenTrue(t, L)
        /\ t.first # None => t.first \in Nat
    BY DEF Good, Holds, Whole
  <1>2. m \in Node /\ RightEdge(m) <= start /\ Seen(t.first, m)
    BY <1>1, LeftSiblingsSeen
  <1>3. get(t, m) = HashOf(L, m)
    BY <1>1, <1>2 DEF SeenTrue
  <1>4. RightEdge(m) <= t.next
    BY <1>1, <1>2, NodeIs DEF Whole
  <1> QED
    BY <1>2, <1>3, <1>4 DEF get

\* Such a block hides what lies left of it.
LEMMA BlockAt ==
  ASSUME NEW start, NEW m \in LeftSiblings(start), m[1] \in 0..(HEIGHT - 1),
         NEW L, L = ledger, HashOf(L, m) = zero_note_hashes[m[1]], start \in 0..(Capacity - 1)
  PROVE  EmptyBlock(start)
  <1>1. PICK h \in 0..(HEIGHT - 1) : Above(<<0, start>>, h)[2] % 2 = 1 /\ m = Sibling(Above(<<0, start>>, h))
    BY DEF LeftSiblings
  <1>2. HEIGHT \in Nat /\ h \in 0..HEIGHT /\ h < HEIGHT
    BY SizesAssumption
  <1>3. Above(<<0, start>>, h) \in Node /\ Above(<<0, start>>, h)[1] = h
    BY <1>2, LeafAbove
  <1>4. m[1] = h
    BY <1>1, <1>2, <1>3, SiblingIs
  <1> QED
    BY <1>1, <1>4 DEF EmptyBlock

\* rollback finds its root unless an empty block is in the way.
LEMMA RollbackFinds ==
  ASSUME NEW t \in Trees(Values), NEW L \in Vectors(Values), NEW c, HoldsBelow(t, L, c),
         NEW r, Whole(r), r <= c, r < Capacity, rollback(t, r).root = None
  PROVE  \E m \in LeftSiblings(r) : HashOf(L, m) = zero_note_hashes[m[1]]
  <1> DEFINE e == CutPoint(t, r)
             s == Shortened(t, e)
             known == Kept(s, e)
             M == Cut(L, e)
  <1>1. /\ e \in Nat /\ Whole(e) /\ rollback(t, r).root = rebuilt_node(s, e, Root)
    BY RollbackIs
  <1>2. /\ c \in Nat /\ r \in Nat /\ TrueBelow(t, L, c) /\ SeenBelow(t, L, c)
        /\ c # 0 => t.first \in Nat
        /\ DOMAIN t.leaves \subseteq Node /\ t.first \in Nat \cup {None}
    BY PartialIs DEF HoldsBelow, Whole, Trees
  <1>3. PICK next \in c..Capacity : FilledTo(L, next)
    BY DEF HoldsBelow
  <1>15. next \in Nat /\ e <= next /\ e <= c /\ (e # 0 => e = r /\ t.first \in Nat /\ t.first <= r)
    BY <1>2, <1>3, GroupSizeIs, SentinelsAssumption DEF CutPoint
  <1>4. Default \in Values
    BY DEF Values
  <1> HIDE DEF e
  <1>5. Truncated(s, L, e) /\ DOMAIN s.leaves = {n \in DOMAIN t.leaves : RightEdge(n) <= e}
    <2>1. TrueBelow(t, L, e)
      BY <1>1, <1>2, <1>15, NodeIs DEF TrueBelow
    <2> QED
      BY <1>1, <2>1, ShortenedIs
  <1>6. DOMAIN known = {m \in Node : Beyond(m, e) \/ m \in DOMAIN s.leaves}
    BY KeptIs
  <1>7. \A n \in Node : n \in DOMAIN known /\ Reached(known, n) => known[n] = HashOf(M, n)
    BY <1>1, <1>3, <1>4, <1>5, <1>15, KeptTrue
  <1>8. M \in Vectors(Values) /\ \A n \in Node : HashOf(M, n) # None
    <2>1. M \in Vectors(Values)
      BY <1>1, <1>3, <1>4, <1>15, CutIs
    <2> QED
      BY <2>1, HashIsNotNone, NoneIsNoValue
  <1> HIDE DEF s, known, M
  <1>9. ASSUME \A m \in LeftSiblings(r) : HashOf(L, m) # zero_note_hashes[m[1]],
               NEW n \in Node, n[1] = 0, Reached(known, n)
        PROVE  n \in DOMAIN known
    <2>1. LeftEdge(n) \in Nat /\ RightEdge(n) = LeftEdge(n) + 1 /\ n = <<0, n[2]>> /\ LeftEdge(n) = n[2]
      BY <1>9, NodeIs, WidthIs DEF LeftEdge
    <2>2. CASE e <= LeftEdge(n)
      BY <1>1, <1>6, <2>1, <2>2 DEF Beyond
    <2>3. CASE LeftEdge(n) < e
      <3>1. e # 0 /\ e = r /\ t.first \in Nat /\ t.first <= r
        BY <1>1, <1>15, <2>1, <2>3
      <3>2. PICK m \in LeftSiblings(r) : m = n \/ m \in Ancestors(n)
        <4>1. n[2] \in Nat /\ n[2] < r
          BY <2>1, <2>3, <3>1
        <4>2. \E m \in LeftSiblings(r) : m = <<0, n[2]>> \/ m \in Ancestors(<<0, n[2]>>)
          BY <4>1, LeftSiblingsAre
        <4> QED
          BY <2>1, <4>2
      <3>3. /\ m \in Node /\ RightEdge(m) <= r
            /\ m \notin DOMAIN t.leaves => HashOf(L, m) = zero_note_hashes[m[1]]
        <4>1. m \in Node /\ RightEdge(m) <= r /\ Seen(t.first, m)
          BY <3>1, LeftSiblingsSeen
        <4>2. RightEdge(m) <= c
          BY <1>2, <4>1, NodeIs
        <4> QED
          BY <1>2, <4>1, <4>2 DEF SeenBelow
      <3>4. m \in DOMAIN t.leaves
        BY <1>9, <3>3
      <3>5. m \in DOMAIN known
        BY <1>5, <1>6, <3>1, <3>3, <3>4
      <3> QED
        BY <1>9, <3>2, <3>5 DEF Reached
    <2> QED
      BY <1>1, <2>1, <2>2, <2>3
  <1>10. Root \in Node /\ Reached(known, Root)
    <2>1. Ancestors(Root) = {}
      BY RootIs, AncestorsAre, NodeIs
    <2> QED
      BY <2>1, RootIs DEF Reached
  <1>11. SUFFICES ASSUME \A m \in LeftSiblings(r) : HashOf(L, m) # zero_note_hashes[m[1]]
                  PROVE  FALSE
    OBVIOUS
  <1>12. \A m \in Node : m[1] = 0 /\ Reached(known, m) => m \in DOMAIN known
    BY <1>9, <1>11
  <1>13. hashes_above(known)[Root] = HashOf(M, Root)
    BY <1>7, <1>8, <1>10, <1>12, HashesAreTrue
  <1>14. rebuilt_node(s, e, Root) = hashes_above(known)[Root]
    BY DEF rebuilt_node, known
  <1> QED
    BY <1>1, <1>8, <1>10, <1>13, <1>14

\* What rollback gives back at a boundary up to which the tree holds the ledger.
LEMMA RollbackOfSalvageable ==
  ASSUME NEW s, Salvageable(tree, ledger, s), NEW index \in Index, Aligned(index), index <= s
  PROVE  LET undo == rollback(tree, index)
         IN  /\ undo.root \in {None, HashOf(Prefix(RollbackPoint(index)), Root)}
             /\ undo.root = None => EmptyBlock(index)
             /\ undo.root # None => get_root(Last(undo.writes)) = undo.root
  <1>1. /\ tree \in Trees(Values) /\ ledger \in Vectors(Values) /\ HoldsBelow(tree, ledger, s)
    BY DEF Salvageable
  <1>2. Whole(index) /\ index < Capacity /\ index \in 0..(Capacity - 1)
    BY GroupSizeIs DEF Index, Aligned, Whole
  <1>3. Prefix(RollbackPoint(index)) = Cut(ledger, CutPoint(tree, index))
    BY DEF Prefix, Index, Cut, RollbackPoint, CutPoint
  <1> DEFINE undo == rollback(tree, index)
             M == Cut(ledger, CutPoint(tree, index))
  <1>4. /\ undo.root \in {None, HashOf(M, Root)}
        /\ undo.root # None => Good(Last(undo.writes), M)
    BY <1>2, RollbackRestores
  <1>5. ASSUME undo.root = None PROVE EmptyBlock(index)
    <2>1. PICK m \in LeftSiblings(index) : HashOf(ledger, m) = zero_note_hashes[m[1]]
      BY <1>1, <1>2, <1>5, RollbackFinds
    <2>2. m[1] \in 0..(HEIGHT - 1)
      <3>1. PICK h \in 0..(HEIGHT - 1) : m = Sibling(Above(<<0, index>>, h))
        BY DEF LeftSiblings
      <3>2. m[1] = h
        BY <3>1 DEF Sibling, Above
      <3> QED
        BY <3>2
    <2> QED
      BY <1>2, <2>1, <2>2, BlockAt
  <1> HIDE DEF undo, M
  <1>6. ASSUME undo.root # None PROVE get_root(Last(undo.writes)) = undo.root
    BY <1>4, <1>6, RootOfGood
  <1> QED
    BY <1>3, <1>4, <1>5, <1>6 DEF undo, M

\* The property, in a good state.
LEMMA RollbackOfGood ==
  ASSUME IInv
  PROVE  RollbackNeverLosesTree
  <1>1. Salvageable(tree, ledger, tree.next)
    BY GoodSalvageable DEF IInv
  <1> SUFFICES ASSUME NEW index \in Index, Aligned(index), index <= tree.next
               PROVE  LET undo == rollback(tree, index)
                      IN  /\ undo.root \in {None, HashOf(Prefix(RollbackPoint(index)), Root)}
                          /\ undo.root = None => EmptyBlock(index)
    BY DEF RollbackNeverLosesTree
  <1> QED
    BY <1>1, RollbackOfSalvageable

\* The hashes get_root_at computes on the way from the end at index to the root.
PastHashes(t, index, zeros, up) ==
  [h \in zeros..HEIGHT |->
     IF h = zeros THEN default_hashes[zeros]
     ELSE LET below == Above(<<0, index>>, h - 1)
              left  == get_opt(t, Sibling(below))
          IN IF up[h - 1] = None THEN None
             ELSE IF below[2] % 2 = 0
                  THEN poseidon(up[h - 1], default_hashes[h - 1])
                  ELSE IF left = None THEN None
                       ELSE poseidon(left, up[h - 1])]

\* The function they are.
Past(t, index, zeros) == CHOOSE up : up = PastHashes(t, index, zeros, up)

\* Where they start: the largest subtree that begins at index.
ZerosOf(index) == Max({h \in 0..HEIGHT : index % Width[h] = 0})

\* A left sibling above height zeros and below height h is not stored.
MissingBelow(t, index, zeros, h) ==
  \E k \in zeros..(h - 1) :
     Above(<<0, index>>, k)[2] % 2 # 0 /\ Sibling(Above(<<0, index>>, k)) \notin DOMAIN t.leaves

\* get_root_at computes them.
LEMMA RootAtIs ==
  ASSUME NEW t, NEW index
  PROVE  get_root_at(t, index) = IF index > t.next THEN None ELSE Past(t, index, ZerosOf(index))[HEIGHT]
  BY DEF get_root_at, Past, PastHashes, ZerosOf

\* The subtree at which they start begins at index.
LEMMA ZerosAre ==
  ASSUME NEW index \in 0..(Capacity - 1)
  PROVE  /\ ZerosOf(index) \in 0..HEIGHT
         /\ LeftEdge(Above(<<0, index>>, ZerosOf(index))) = index
  <1> DEFINE S == {h \in 0..HEIGHT : index % Width[h] = 0}
             z == ZerosOf(index)
  <1>1. Capacity \in Nat /\ index \in Nat /\ HEIGHT \in Nat /\ Width[0] = 1
    BY GroupSizeIs, SizesAssumption, WidthIs
  <1>2. S \in SUBSET Nat /\ 0 \in S /\ \A h \in S : h <= HEIGHT
    BY <1>1
  <1>3. z \in S
    <2> HIDE DEF S
    <2>1. Max(S) \in S
      BY <1>1, <1>2, MaxIsGreatest
    <2> QED
      BY <2>1 DEF ZerosOf, S
  <1> HIDE DEF z
  <1>4. z \in 0..HEIGHT /\ index % Width[z] = 0
    BY <1>3
  <1> DEFINE n == Above(<<0, index>>, z)
  <1>5. n = <<z, index \div Width[z]>>
    BY <1>4, LeafAbove
  <1>6. LeftEdge(n) = (index \div Width[z]) * Width[z]
    BY <1>5 DEF LeftEdge
  <1>7. Width[z] \in Nat /\ Width[z] >= 1
    BY <1>4, WidthPositive
  <1>8. /\ index \div Width[z] \in Nat /\ index = (index \div Width[z]) * Width[z] + (index % Width[z])
    BY <1>1, <1>7, Division
  <1>9. (index \div Width[z]) * Width[z] \in Nat
    BY <1>7, <1>8, ProductNotNegative
  <1> DEFINE w == (index \div Width[z]) * Width[z]
  <1>10. LeftEdge(n) = w /\ w \in Nat /\ index = w + 0
    BY <1>4, <1>6, <1>8, <1>9
  <1> HIDE DEF n, w
  <1>11. LeftEdge(n) = index
    BY <1>10
  <1> QED
    BY <1>4, <1>11 DEF n, z

\* The hashes that come out are those of the leaves before index; none does behind a
\* left sibling that is not stored.
LEMMA PastTrue ==
  ASSUME NEW t, NEW L, Good(t, L), NEW index \in 0..(Capacity - 1), index <= t.next,
         NEW z \in 0..HEIGHT, LeftEdge(Above(<<0, index>>, z)) = index
  PROVE  \A h \in z..HEIGHT :
            Past(t, index, z)[h] = IF MissingBelow(t, index, z, h) THEN None
                                   ELSE HashOf(Cut(L, index), Above(<<0, index>>, h))
  <1> DEFINE up == Past(t, index, z)
             M == Cut(L, index)
             at(h) == Above(<<0, index>>, h)
             true == [h \in z..HEIGHT |-> IF MissingBelow(t, index, z, h) THEN None ELSE HashOf(M, at(h))]
  <1>1. /\ z \in Nat /\ HEIGHT \in Nat /\ Capacity \in Nat /\ index \in Nat
        /\ \A h \in z..HEIGHT : h \in 0..HEIGHT /\ (h # z => h - 1 \in z..HEIGHT /\ h - 1 \in 0..HEIGHT)
    BY SizesAssumption, GroupSizeIs
  <1>2. /\ L \in Vectors(Values) /\ t.next \in Nat /\ FilledTo(L, t.next) /\ StoredTrue(t, L) /\ Default \in Values
    BY DEF Good, Holds, Whole, Values
  <1>3. M \in Vectors(Values) /\ FilledTo(M, index)
    BY <1>1, <1>2, CutIs
  <1>4. \A n \in Node : HashOf(M, n) # None /\ HashOf(L, n) # None
    BY <1>2, <1>3, HashIsNotNone, NoneIsNoValue
  <1>5. \A h \in 0..HEIGHT : at(h) \in Node /\ at(h)[1] = h /\ LeftEdge(at(h)) <= index /\ index < RightEdge(at(h))
    BY LeafAbove
  <1>6. ASSUME NEW h \in z..HEIGHT, h # z
        PROVE  LET a == at(h - 1)
               IN  /\ a[2] % 2 = 0 => poseidon(HashOf(M, a), default_hashes[h - 1]) = HashOf(M, at(h))
                   /\ a[2] % 2 # 0 /\ Sibling(a) \in DOMAIN t.leaves =>
                        /\ get_opt(t, Sibling(a)) # None
                        /\ poseidon(get_opt(t, Sibling(a)), HashOf(M, a)) = HashOf(M, at(h))
                   /\ a[2] % 2 # 0 /\ Sibling(a) \notin DOMAIN t.leaves => get_opt(t, Sibling(a)) = None
    <2> DEFINE a == at(h - 1)
               p == Above(a, a[1] + 1)
    <2>1. h - 1 \in 0..HEIGHT /\ h \in 0..HEIGHT /\ h - 1 < HEIGHT /\ h - 1 \in Nat /\ h \in Nat
      BY <1>1, <1>6
    <2>2. /\ a \in Node /\ a[1] = h - 1 /\ LeftEdge(a) <= index /\ index < RightEdge(a)
      BY <1>5, <2>1
    <2>3. at(h) \in Node /\ at(h)[1] = h /\ LeftEdge(at(h)) <= index /\ index < RightEdge(at(h))
      BY <1>5, <2>1
    <2> HIDE DEF a
    <2>4. a[1] < HEIGHT /\ a[1] + 1 = h
      BY <2>1, <2>2
    <2>5. /\ p \in Node /\ p[1] = h
          /\ \/ a[2] % 2 = 0 /\ a = LeftChild(p) /\ Sibling(a) = RightChild(p)
             \/ a[2] % 2 = 1 /\ a = RightChild(p) /\ Sibling(a) = LeftChild(p)
      BY <2>2, <2>4, ParentIs
    <2>6. LeftEdge(p) <= LeftEdge(a) /\ RightEdge(a) <= RightEdge(p)
      <3>1. a[1] + 1 \in a[1]..HEIGHT
        BY <1>1, <2>1, <2>2
      <3> QED
        BY <2>2, <3>1, AboveIs
    <2> HIDE DEF p
    <2>7. p = at(h)
      <3>1. LeftEdge(p) < RightEdge(at(h)) /\ LeftEdge(at(h)) < RightEdge(p)
        <4>1. /\ LeftEdge(p) \in Nat /\ RightEdge(p) \in Nat /\ LeftEdge(a) \in Nat /\ RightEdge(a) \in Nat
              /\ LeftEdge(at(h)) \in Nat /\ RightEdge(at(h)) \in Nat
          BY <2>2, <2>3, <2>5, NodeIs
        <4> QED
          BY <1>1, <2>2, <2>3, <2>6, <4>1
      <3> QED
        BY <2>3, <2>5, <3>1, SameLevel
    <2>8. poseidon(HashOf(M, LeftChild(p)), HashOf(M, RightChild(p))) = HashOf(M, p)
      <3>1. p[1] > 0
        BY <2>1, <2>5
      <3> QED
        BY <1>3, <2>5, <3>1, HashOfChildren
    <2>9. /\ Sibling(a) \in Node /\ Sibling(a)[1] = h - 1
          /\ a[2] % 2 = 0 => LeftEdge(Sibling(a)) = RightEdge(a)
          /\ a[2] % 2 = 1 => RightEdge(Sibling(a)) = LeftEdge(a)
      BY <2>2, <2>4, SiblingIs
    <2>10. ASSUME a[2] % 2 = 0
           PROVE  poseidon(HashOf(M, a), default_hashes[h - 1]) = HashOf(M, at(h))
      <3>1. a = LeftChild(p) /\ Sibling(a) = RightChild(p)
        BY <2>5, <2>10
      <3>2. index <= LeftEdge(Sibling(a))
        BY <1>1, <2>2, <2>9, <2>10, NodeIs
      <3>3. HashOf(M, Sibling(a)) = default_hashes[h - 1]
        BY <1>1, <1>3, <2>9, <3>2, BeyondEnd
      <3> QED
        BY <2>7, <2>8, <3>1, <3>3
    <2>11. ASSUME a[2] % 2 # 0, Sibling(a) \in DOMAIN t.leaves
           PROVE  /\ get_opt(t, Sibling(a)) # None
                  /\ poseidon(get_opt(t, Sibling(a)), HashOf(M, a)) = HashOf(M, at(h))
      <3>1. a[2] % 2 = 1 /\ a = RightChild(p) /\ Sibling(a) = LeftChild(p)
        BY <2>5, <2>11
      <3>2. get_opt(t, Sibling(a)) = HashOf(L, Sibling(a))
        BY <1>2, <2>11 DEF StoredTrue, get_opt
      <3>3. RightEdge(Sibling(a)) <= index
        BY <2>2, <2>9, <3>1
      <3>4. HashOf(M, Sibling(a)) = HashOf(L, Sibling(a))
        BY <1>1, <2>9, <3>3, CutBefore
      <3>5. HashOf(L, Sibling(a)) # None
        BY <1>4, <2>9
      <3> QED
        BY <2>7, <2>8, <3>1, <3>2, <3>4, <3>5
    <2>12. Sibling(a) \notin DOMAIN t.leaves => get_opt(t, Sibling(a)) = None
      BY DEF get_opt
    <2> HIDE DEF M
    <2> QED
      BY <2>10, <2>11, <2>12 DEF a
  <1>7. ASSUME NEW h \in z..HEIGHT, h # z
        PROVE  MissingBelow(t, index, z, h) <=>
                 \/ MissingBelow(t, index, z, h - 1)
                 \/ at(h - 1)[2] % 2 # 0 /\ Sibling(at(h - 1)) \notin DOMAIN t.leaves
    <2>1. z..(h - 1) = (z..(h - 1 - 1)) \cup {h - 1}
      BY <1>1, <1>7
    <2> QED
      BY <2>1 DEF MissingBelow
  <1>8. ~ MissingBelow(t, index, z, z)
    <2>1. z..(z - 1) = {}
      BY <1>1
    <2> QED
      BY <2>1 DEF MissingBelow
  <1>9. HashOf(M, at(z)) = default_hashes[z]
    <2>1. at(z) \in Node /\ at(z)[1] = z /\ LeftEdge(at(z)) = index
      BY <1>5
    <2>2. index <= LeftEdge(at(z))
      BY <1>1, <2>1
    <2> QED
      BY <1>1, <1>3, <2>1, <2>2, BeyondEnd
  <1>10. ASSUME NEW f, NEW h \in z..HEIGHT, h # z,
                f[h - 1] = IF MissingBelow(t, index, z, h - 1) THEN None ELSE HashOf(M, at(h - 1))
         PROVE  PastHashes(t, index, z, f)[h]
                  = IF MissingBelow(t, index, z, h) THEN None ELSE HashOf(M, at(h))
    <2> DEFINE a == at(h - 1)
    <2>1. HashOf(M, a) # None
      BY <1>1, <1>4, <1>5, <1>10
    <2>2. PastHashes(t, index, z, f)[h] =
            IF f[h - 1] = None THEN None
            ELSE IF a[2] % 2 = 0 THEN poseidon(f[h - 1], default_hashes[h - 1])
            ELSE IF get_opt(t, Sibling(a)) = None THEN None
            ELSE poseidon(get_opt(t, Sibling(a)), f[h - 1])
      BY <1>10 DEF PastHashes
    <2>3. /\ a[2] % 2 = 0 => poseidon(HashOf(M, a), default_hashes[h - 1]) = HashOf(M, at(h))
          /\ a[2] % 2 # 0 /\ Sibling(a) \in DOMAIN t.leaves =>
                        /\ get_opt(t, Sibling(a)) # None
                        /\ poseidon(get_opt(t, Sibling(a)), HashOf(M, a)) = HashOf(M, at(h))
          /\ a[2] % 2 # 0 /\ Sibling(a) \notin DOMAIN t.leaves => get_opt(t, Sibling(a)) = None
      BY <1>6, <1>10
    <2>4. MissingBelow(t, index, z, h) <=>
            MissingBelow(t, index, z, h - 1) \/ (a[2] % 2 # 0 /\ Sibling(a) \notin DOMAIN t.leaves)
      BY <1>7, <1>10
    <2> HIDE DEF a, M
    <2>5. CASE MissingBelow(t, index, z, h - 1)
      BY <1>10, <2>2, <2>4, <2>5
    <2>6. CASE ~ MissingBelow(t, index, z, h - 1)
      <3>1. f[h - 1] = HashOf(M, a) /\ f[h - 1] # None
        BY <1>10, <2>1, <2>6 DEF a
      <3> QED
        BY <2>2, <2>3, <2>4, <2>6, <3>1
    <2> QED
      BY <2>5, <2>6
  <1> HIDE DEF M
  <1>11. ASSUME NEW f PROVE PastHashes(t, index, z, f)[z] = default_hashes[z]
    BY <1>1 DEF PastHashes
  <1>12. true = PastHashes(t, index, z, true)
    <2>1. ASSUME NEW h \in z..HEIGHT PROVE true[h] = PastHashes(t, index, z, true)[h]
      <3>1. CASE h = z
        BY <1>8, <1>9, <1>11, <3>1
      <3>2. CASE h # z
        <4>1. h - 1 \in z..HEIGHT
          BY <1>1, <3>2
        <4>2. /\ true[h - 1] = IF MissingBelow(t, index, z, h - 1) THEN None ELSE HashOf(M, at(h - 1))
              /\ true[h] = IF MissingBelow(t, index, z, h) THEN None ELSE HashOf(M, at(h))
          BY <4>1
        <4> HIDE DEF true, at
        <4> QED
          BY <1>10, <3>2, <4>2
      <3> QED
        BY <3>1, <3>2
    <2>2. PastHashes(t, index, z, true) = [h \in z..HEIGHT |-> PastHashes(t, index, z, true)[h]]
      BY DEF PastHashes
    <2> QED
      BY <2>1, <2>2
  <1>13. up = PastHashes(t, index, z, up)
    <2> HIDE DEF true
    <2> QED
      BY <1>12 DEF Past
  <1> DEFINE S == {h \in 0..HEIGHT : z <= h =>
                     up[h] = IF MissingBelow(t, index, z, h) THEN None ELSE HashOf(M, at(h))}
  <1> HIDE DEF up, true
  <1>14. up[z] = HashOf(M, at(z))
    BY <1>9, <1>11, <1>13
  <1>15. 0 \in S
    BY <1>1, <1>8, <1>14
  <1>16. ASSUME NEW h \in 1..HEIGHT, h - 1 \in S PROVE h \in S
    <2> SUFFICES ASSUME z <= h PROVE up[h] = IF MissingBelow(t, index, z, h) THEN None ELSE HashOf(M, at(h))
      BY <1>1
    <2>1. CASE h = z
      BY <1>8, <1>14, <2>1
    <2>2. CASE h # z
      <3>1. h \in z..HEIGHT /\ z <= h - 1
        BY <1>1, <2>2
      <3>2. up[h - 1] = IF MissingBelow(t, index, z, h - 1) THEN None ELSE HashOf(M, at(h - 1))
        BY <1>16, <3>1
      <3> HIDE DEF at
      <3> QED
        BY <1>10, <1>13, <2>2, <3>1, <3>2
    <2> QED
      BY <2>1, <2>2
  <1> HIDE DEF S
  <1>17. 0..HEIGHT \subseteq S
    BY <1>1, <1>15, <1>16, IntervalInduction
  <1> QED
    BY <1>1, <1>17 DEF S, up, M

\* The property, in a good state.
LEMMA RootAtOfGood ==
  ASSUME IInv
  PROVE  RootAtIsPastRoot
  <1> SUFFICES ASSUME NEW index \in Index, Aligned(index), index <= tree.next
               PROVE  LET r == get_root_at(tree, index)
                      IN  /\ r \in {None, HashOf(Prefix(index), Root)}
                          /\ r = None => EmptyBlock(index) \/ ~Held(index)
    BY DEF RootAtIsPastRoot
  <1> DEFINE z == ZerosOf(index)
             r == get_root_at(tree, index)
  <1>1. Good(tree, ledger) /\ tree.next \in Nat /\ ledger \in Vectors(Values) /\ FilledTo(ledger, tree.next)
    BY DEF IInv, Good, Holds, Whole
  <1>2. Whole(index) /\ index \in Nat /\ index < Capacity /\ index \in 0..(Capacity - 1) /\ HEIGHT \in Nat
    BY GroupSizeIs, SizesAssumption DEF Index, Aligned, Whole
  <1>3. z \in 0..HEIGHT /\ LeftEdge(Above(<<0, index>>, z)) = index
    BY <1>2, ZerosAre
  <1>4. Prefix(index) = Cut(ledger, index)
    BY DEF Prefix, Index, Cut
  <1>5. r = Past(tree, index, z)[HEIGHT]
    BY <1>1, <1>2, RootAtIs
  <1> HIDE DEF z, r
  <1>6. HEIGHT \in z..HEIGHT
    BY <1>2, <1>3
  <1>7. r = IF MissingBelow(tree, index, z, HEIGHT) THEN None
            ELSE HashOf(Cut(ledger, index), Above(<<0, index>>, HEIGHT))
    BY <1>1, <1>2, <1>3, <1>5, <1>6, PastTrue
  <1>8. Above(<<0, index>>, HEIGHT) = Root
    <2> DEFINE m == Above(<<0, index>>, HEIGHT)
    <2>1. HEIGHT \in 0..HEIGHT
      BY <1>2
    <2>2. m \in Node /\ m[1] = HEIGHT /\ LeftEdge(m) <= index /\ index < RightEdge(m)
      BY <1>2, <2>1, LeafAbove
    <2>3. LeftEdge(Root) <= index /\ index < RightEdge(Root) /\ Root \in Node /\ Root[1] = HEIGHT
      BY <1>2, RootIs
    <2> HIDE DEF m
    <2>4. LeftEdge(m) < RightEdge(Root) /\ LeftEdge(Root) < RightEdge(m)
      BY <1>2, <2>2, <2>3, NodeIs
    <2>5. m = Root
      BY <2>2, <2>3, <2>4, SameLevel
    <2> QED
      BY <2>5 DEF m
  <1>9. ASSUME MissingBelow(tree, index, z, HEIGHT), Held(index) PROVE EmptyBlock(index)
    <2>1. PICK k \in z..(HEIGHT - 1) :
            Above(<<0, index>>, k)[2] % 2 # 0 /\ Sibling(Above(<<0, index>>, k)) \notin DOMAIN tree.leaves
      BY <1>9 DEF MissingBelow
    <2> DEFINE a == Above(<<0, index>>, k)
    <2>2. k \in 0..(HEIGHT - 1) /\ k \in 0..HEIGHT /\ k < HEIGHT
      BY <1>2, <1>3
    <2>3. a \in Node /\ a[1] = k
      BY <1>2, <2>2, LeafAbove
    <2>4. a[2] % 2 = 1
      BY <2>1, <2>3, NodeIs
    <2>5. Sibling(a) \in LeftSiblings(index)
      BY <2>2, <2>4 DEF LeftSiblings
    <2>6. Sibling(a)[1] = k
      BY <2>2, <2>3, SiblingIs
    <2>7. HashOf(ledger, Sibling(a)) = zero_note_hashes[Sibling(a)[1]]
      BY <1>1, <1>2, <1>9, <2>1, <2>5, MissingIsEmpty DEF Held
    <2> QED
      BY <1>2, <2>2, <2>5, <2>6, <2>7, BlockAt
  <1>10. HashOf(Cut(ledger, index), Root) # None
    <2>1. Default \in Values
      BY DEF Values
    <2>2. Cut(ledger, index) \in Vectors(Values)
      BY <1>1, <1>2, <2>1, CutIs
    <2> QED
      BY <2>2, RootIs, HashIsNotNone, NoneIsNoValue
  <1>11. /\ r \in {None, HashOf(Prefix(index), Root)}
         /\ r = None => EmptyBlock(index) \/ ~Held(index)
    BY <1>4, <1>7, <1>8, <1>9, <1>10
  <1> QED
    BY <1>11 DEF r

\* get_left_siblings gives the hashes of the left siblings of a boundary it holds.
LEMMA SiblingsOfGood ==
  ASSUME NEW t, NEW L, Good(t, L), NEW index, Whole(index), index < Capacity, index <= t.next,
         t.first # None => t.first <= index
  PROVE  /\ DOMAIN get_left_siblings(t, index) = LeftSiblings(index)
         /\ \A m \in LeftSiblings(index) : get_left_siblings(t, index)[m] = HashOf(L, m)
  <1>1. index \in Nat /\ t.next \in Nat
    BY DEF Good, Holds, Whole
  <1>2. get_left_siblings(t, index) = [m \in LeftSiblings(index) |-> get(t, m)]
    BY <1>1 DEF get_left_siblings, LeftSiblings
  <1>3. \A m \in LeftSiblings(index) : get(t, m) = HashOf(L, m)
    BY MissingIsEmpty
  <1> QED
    BY <1>2, <1>3

\* With them another client builds the same root.
LEMMA PartialOfGood ==
  ASSUME IInv, NEW index, Whole(index), index < tree.next, index < Capacity, Held(index),
         NEW n, n = (tree.next - index) \div GroupSize, NEW batch \in Batches(index, n),
         NEW siblings, siblings = get_left_siblings(tree, index)
  PROVE  get_root(Last(add_leafs_commitments_and_siblings(EmptyTree, batch, siblings))) = get_root(tree)
  <1>1. /\ Good(tree, ledger) /\ tree.next \in Nat /\ Whole(tree.next) /\ tree.next <= Capacity
        /\ FilledTo(ledger, tree.next) /\ ledger \in Vectors(Values)
        /\ index \in Nat /\ GroupSize \in Nat /\ GroupSize >= 1
    BY GroupSizeIs DEF IInv, Good, Holds, Whole
  <1>2. n \in Nat \ {0} /\ index + n * GroupSize = tree.next
    <2> DEFINE a == index \div GroupSize
               b == tree.next \div GroupSize
    <2>1. a \in Nat /\ b \in Nat /\ index = a * GroupSize /\ tree.next = b * GroupSize
      BY <1>1, WholeProduct
    <2> HIDE DEF a, b
    <2>2. a < b
      <3> SUFFICES ASSUME b <= a PROVE FALSE
        BY <2>1
      <3>1. b * GroupSize <= a * GroupSize
        BY <1>1, <2>1, ProductMonotone
      <3> QED
        BY <1>1, <2>1, <3>1
    <2> DEFINE d == b - a
    <2>3. d \in Nat /\ d >= 1 /\ b = a + d
      BY <2>1, <2>2
    <2> HIDE DEF d
    <2>4. d * GroupSize \in Nat /\ (a + d) * GroupSize = a * GroupSize + d * GroupSize
      BY <1>1, <2>1, <2>3
    <2>5. tree.next - index = d * GroupSize + 0 /\ index + d * GroupSize = tree.next
      BY <1>1, <2>1, <2>3, <2>4
    <2>6. 0 \in 0..(GroupSize - 1) /\ GroupSize > 0
      BY <1>1
    <2>7. (tree.next - index) \div GroupSize = d
      BY <1>1, <2>3, <2>5, <2>6, DivisionUnique
    <2> QED
      BY <2>3, <2>5, <2>7
  <1> DEFINE e == index + n * GroupSize
             v == Last(add_leafs_commitments_and_siblings(EmptyTree, batch, siblings))
  <1>3. IsBatch(batch, index, n) /\ Retold(batch)
    BY <1>1, <1>2, BatchesAre
  <1>4. BatchIn(batch, ledger)
    <2>1. \A i \in DOMAIN batch : i \in Nat /\ i + GroupSize <= tree.next
      BY <1>2, <1>3, BatchIs
    <2>2. \A i \in DOMAIN batch : i < tree.next
      BY <1>1, <2>1
    <2> QED
      BY <1>3, <2>2 DEF BatchIn, Retold
  <1>5. Good(EmptyTree, NoLeaves) /\ EmptyTree.next = 0 /\ EmptyTree.first = None
    BY EmptyGood DEF EmptyTree
  <1>6. e = tree.next /\ e = index + n * GroupSize
    BY <1>2
  <1> HIDE DEF e
  <1>7. Extends(EmptyTree, NoLeaves, ledger, index, e)
    <2>1. (IF e >= 0 THEN e ELSE 0) = tree.next
      BY <1>1, <1>6
    <2>2. \A i \in 0..(Capacity - 1) : ~ i < 0
      BY GroupSizeIs
    <2> QED
      BY <1>1, <1>5, <2>1, <2>2 DEF Extends
  <1>8. SiblingsTrue(EmptyTree, siblings, ledger, index)
    <2>1. /\ DOMAIN siblings = LeftSiblings(index)
          /\ \A m \in LeftSiblings(index) : siblings[m] = HashOf(ledger, m)
      BY <1>1, SiblingsOfGood DEF Held
    <2>2. /\ \A m \in LeftSiblings(index) :
               m \in Node /\ OUTPLUSONELOG <= m[1] /\ RightEdge(m) <= index
          /\ \A j \in Nat : j < index =>
               \E m \in LeftSiblings(index) : m = <<0, j>> \/ m \in Ancestors(<<0, j>>)
      BY LeftSiblingsAre
    <2>3. ASSUME NEW j \in Nat, j < index
          PROVE  Given(siblings, <<0, j>>) /\ DOMAIN siblings # {}
      BY <2>1, <2>2, <2>3 DEF Given
    <2> QED
      BY <1>5, <2>1, <2>2, <2>3 DEF SiblingsTrue
  <1>9. Good(v, ledger)
    BY <1>3, <1>4, <1>5, <1>6, <1>7, <1>8, BatchKeeps
  <1> HIDE DEF v
  <1>10. get_root(v) = get_root(tree)
    BY <1>1, <1>9, RootOfGood
  <1> QED
    BY <1>10 DEF v

\* The property, in a good state.
LEMMA SiblingsServe ==
  ASSUME IInv
  PROVE  SiblingsServePartialTree
  <1> SUFFICES ASSUME NEW index \in Index, Aligned(index), index <= tree.next, Held(index)
               PROVE  LET siblings == get_left_siblings(tree, index)
                          partial  == IF index = tree.next THEN {}
                             ELSE {add_leafs_commitments_and_siblings(EmptyTree, batch, siblings) :
                                     batch \in Batches(index, (tree.next - index) \div GroupSize)}
                      IN  /\ \A n \in DOMAIN siblings : siblings[n] = HashOf(ledger, n)
                          /\ \A writes \in partial : get_root(Last(writes)) = get_root(tree)
    BY DEF SiblingsServePartialTree
  <1> DEFINE siblings == get_left_siblings(tree, index)
  <1>1. Good(tree, ledger) /\ tree.next \in Nat
    BY DEF IInv, Good, Holds, Whole
  <1>2. Whole(index) /\ index \in Nat /\ index < Capacity
    BY GroupSizeIs DEF Index, Aligned, Whole
  <1>3. \A n \in DOMAIN siblings : siblings[n] = HashOf(ledger, n)
    BY <1>1, <1>2, SiblingsOfGood DEF Held
  <1>4. ASSUME index # tree.next, NEW batch \in Batches(index, (tree.next - index) \div GroupSize)
        PROVE  get_root(Last(add_leafs_commitments_and_siblings(EmptyTree, batch, siblings))) = get_root(tree)
    <2>1. index < tree.next
      BY <1>1, <1>2, <1>4
    <2> QED
      BY <1>2, <1>4, <2>1, PartialOfGood
  <1> HIDE DEF siblings
  <1>5. \A writes \in (IF index = tree.next THEN {}
                       ELSE {add_leafs_commitments_and_siblings(EmptyTree, batch, siblings) :
                               batch \in Batches(index, (tree.next - index) \div GroupSize)}) :
           get_root(Last(writes)) = get_root(tree)
    BY <1>4
  <1> QED
    BY <1>3, <1>5 DEF siblings

\* A group with a hash is found in a database without index keys.
LEMMA ScannedGroup ==
  ASSUME NEW t, NEW L, Good(t, L), NEW i, Whole(i), i < t.next,
         t.first # None => t.first <= i,
         HashOf(L, Above(<<0, i>>, OUTPLUSONELOG)) # zero_note_hashes[OUTPLUSONELOG]
  PROVE  LET g == Above(<<0, i>>, OUTPLUSONELOG) IN g \in Scanned(t) /\ LeftEdge(g) = i
  <1> DEFINE g == Above(<<0, i>>, OUTPLUSONELOG)
  <1>1. i \in Nat /\ i + GroupSize <= t.next /\ i + GroupSize <= Capacity /\ GroupSize \in Nat /\ GroupSize >= 1
    BY GroupWithin, GroupSizeIs
  <1>2. g \in Node /\ g[1] = OUTPLUSONELOG /\ LeftEdge(g) = i /\ RightEdge(g) = i + GroupSize
    BY <1>1, GroupNode
  <1>3. SeenTrue(t, L) /\ t.next \in Nat /\ (t.first # None => t.first \in Nat)
    BY DEF Good, Holds, Whole
  <1>4. HashOf(L, g) # zero_note_hashes[g[1]]
    BY <1>2
  <1> HIDE DEF g
  <1>5. Seen(t.first, g)
    <2>1. t.first # None => t.first < RightEdge(g)
      BY <1>1, <1>2, <1>3
    <2>2. OUTPLUSONELOG <= g[1]
      BY <1>2, SizesAssumption
    <2> QED
      BY <2>1, <2>2 DEF Seen
  <1>6. get(t, g) = HashOf(L, g)
    BY <1>2, <1>3, <1>5 DEF SeenTrue
  <1>7. g \in DOMAIN t.leaves
    BY <1>1, <1>2, <1>4, <1>6 DEF get
  <1>8. g \in Scanned(t) /\ LeftEdge(g) = i
    BY <1>2, <1>7 DEF Scanned
  <1> QED
    BY <1>8 DEF g

\* The property, in a good state.
LEMMA LegacyOfGood ==
  ASSUME IInv
  PROVE  LegacyDatabaseReopens
  <1> DEFINE old == [tree EXCEPT !.db_next = None, !.db_first = None]
             legacy == open(old)
             edge(i) == HashOf(ledger, Above(<<0, i>>, OUTPLUSONELOG)) # zero_note_hashes[OUTPLUSONELOG]
  <1>1. /\ Good(tree, ledger) /\ tree \in Trees(Values) /\ tree.next \in Nat /\ Whole(tree.next) /\ StoredTrue(tree, ledger)
        /\ tree.next <= Capacity
        /\ tree.first = None => tree.next = 0
        /\ tree.first # None => tree.first \in Nat /\ tree.first < tree.next /\ Whole(tree.first)
        /\ GroupSize \in Nat /\ GroupSize >= 1
    BY GroupSizeIs DEF IInv, Good, Holds, Whole
  <1>2. DOMAIN tree.leaves \subseteq Node
    BY <1>1, PartialIs DEF Trees
  <1>3. old.leaves = tree.leaves /\ old.db_next = None /\ old.db_first = None
        /\ legacy.next = scan_next_index(old) /\ legacy.first = scan_first_index(old)
    <2>1. old.leaves = tree.leaves /\ old.db_next = None /\ old.db_first = None /\ old \in [DOMAIN tree -> {old[x] : x \in DOMAIN tree}]
          /\ "next" \in DOMAIN old /\ "first" \in DOMAIN old
      BY <1>1 DEF Trees
    <2> HIDE DEF old
    <2>2. legacy = [old EXCEPT !.next = scan_next_index(old), !.first = scan_first_index(old)]
      BY <2>1 DEF open
    <2> HIDE DEF legacy
    <2> QED
      BY <2>1, <2>2
  <1>4. Scanned(old) = Scanned(tree)
    BY <1>3 DEF Scanned
  <1> HIDE DEF old
  <1>5. scan_next_index(old) = Max({0} \cup {calc_next_index(LeftEdge(n)) : n \in Scanned(tree)})
    BY <1>4 DEF scan_next_index
  <1>6. scan_first_index(old) = IF Scanned(tree) = {} THEN None ELSE Min({LeftEdge(n) : n \in Scanned(tree)})
    BY <1>4 DEF scan_first_index
  <1>7. ASSUME NEW n \in Scanned(tree)
        PROVE  LeftEdge(n) \in Nat /\ calc_next_index(LeftEdge(n)) \in Nat
               /\ calc_next_index(LeftEdge(n)) <= tree.next
    <2>1. n \in DOMAIN tree.leaves /\ n \in Node
      BY <1>2 DEF Scanned
    <2>2. LeftEdge(n) \in Nat /\ LeftEdge(n) < tree.next
      BY <1>1, <2>1, NodeIs DEF StoredTrue
    <2>3. /\ calc_next_index(LeftEdge(n)) = calc_first_index(LeftEdge(n)) + GroupSize
          /\ Whole(calc_first_index(LeftEdge(n))) /\ calc_first_index(LeftEdge(n)) <= LeftEdge(n)
      BY <2>2, GroupOf
    <2> DEFINE f == calc_first_index(LeftEdge(n))
    <2>4. f \in Nat /\ f < tree.next /\ Whole(f) /\ calc_next_index(LeftEdge(n)) = f + GroupSize
      BY <1>1, <2>2, <2>3 DEF Whole
    <2> HIDE DEF f
    <2>5. f + GroupSize <= tree.next
      BY <1>1, <2>4, NextWhole
    <2> QED
      BY <1>1, <2>2, <2>4, <2>5
  <1>8. ASSUME tree.next > 0, edge(tree.next - 1) PROVE scan_next_index(old) = tree.next
    <2> DEFINE last == tree.next - 1
               i == calc_first_index(last)
               g == Above(<<0, i>>, OUTPLUSONELOG)
    <2>1. last \in Nat /\ last < tree.next /\ last + 1 = tree.next /\ last \in 0..(Capacity - 1)
      <3>1. Capacity \in Nat /\ tree.next \in Nat /\ tree.next <= Capacity /\ tree.next > 0
        BY <1>1, <1>8, GroupSizeIs
      <3> QED
        BY <3>1
    <2>2. /\ Whole(i) /\ i <= last /\ last < calc_next_index(last) /\ calc_next_index(last) = i + GroupSize
          /\ Whole(calc_next_index(last))
      BY <2>1, GroupOf
    <2>3. edge(last)
      BY <1>8
    <2> HIDE DEF last, i
    <2>4. i \in Nat /\ i < tree.next
      BY <2>1, <2>2 DEF Whole
    <2>5. i + GroupSize <= tree.next
      BY <1>1, <2>2, <2>4, NextWhole
    <2>6. i + GroupSize = tree.next
      BY <1>1, <2>1, <2>2, <2>4, <2>5
    <2>7. Above(<<0, last>>, OUTPLUSONELOG) = g
      <3> DEFINE m == Above(<<0, last>>, OUTPLUSONELOG)
      <3>1. OUTPLUSONELOG \in 0..HEIGHT
        BY GroupSizeIs
      <3>2. m \in Node /\ m[1] = OUTPLUSONELOG /\ LeftEdge(m) <= last /\ last < RightEdge(m)
        BY <2>1, <3>1, LeafAbove
      <3>3. i + GroupSize <= Capacity
        BY <1>1, <2>6
      <3>4. g \in Node /\ g[1] = OUTPLUSONELOG /\ LeftEdge(g) = i /\ RightEdge(g) = i + GroupSize
        BY <2>2, <3>3, GroupNode
      <3> HIDE DEF m, g
      <3>5. LeftEdge(m) < RightEdge(g) /\ LeftEdge(g) < RightEdge(m)
        <4>1. LeftEdge(m) \in Nat /\ RightEdge(m) \in Nat
          BY <3>2, NodeIs
        <4> QED
          BY <1>1, <2>1, <2>2, <2>4, <2>6, <3>2, <3>4, <4>1
      <3>6. m = g
        BY <3>2, <3>4, <3>5, SameLevel
      <3> QED
        BY <3>6 DEF m
    <2>8. HashOf(ledger, g) # zero_note_hashes[OUTPLUSONELOG]
      BY <2>3, <2>7
    <2>9. tree.first # None => tree.first <= i
      <3> SUFFICES ASSUME tree.first # None, i < tree.first PROVE FALSE
        BY <1>1, <2>4
      <3>1. i + GroupSize <= tree.first
        BY <1>1, <2>2, <3>1, NextWhole
      <3> QED
        BY <1>1, <2>6, <3>1
    <2>10. g \in Scanned(tree) /\ LeftEdge(g) = i
      BY <1>1, <2>2, <2>4, <2>8, <2>9, ScannedGroup
    <2> HIDE DEF g
    <2>11. calc_next_index(i) = tree.next
      <3>1. calc_next_index(i) = calc_first_index(i) + GroupSize /\ calc_first_index(i) <= i
            /\ i < calc_first_index(i) + GroupSize /\ Whole(calc_first_index(i))
        BY <2>4, GroupOf
      <3>2. calc_first_index(i) = i
        <4>1. i <= i /\ i < i + GroupSize
          BY <1>1, <2>4
        <4> QED
          BY <2>2, <2>4, <4>1, GroupUnique
      <3> QED
        BY <2>6, <3>1, <3>2
    <2> DEFINE S == {0} \cup {calc_next_index(LeftEdge(n)) : n \in Scanned(tree)}
    <2>12. S \in SUBSET Nat /\ tree.next \in S /\ \A x \in S : x <= tree.next
      BY <1>1, <1>7, <2>10, <2>11
    <2>13. Max(S) = tree.next
      <3> HIDE DEF S
      <3> QED
        BY <2>12, MaxIs
    <2> QED
      BY <1>5, <2>13
  <1>9. ASSUME tree.first = 0, edge(0) PROVE scan_first_index(old) = tree.first
    <2> DEFINE g == Above(<<0, 0>>, OUTPLUSONELOG)
               S == {LeftEdge(n) : n \in Scanned(tree)}
    <2>1. tree.first # None /\ 0 < tree.next /\ Whole(0)
      BY <1>1, <1>9, SentinelsAssumption, GroupSizeIs DEF Whole
    <2>2. g \in Scanned(tree) /\ LeftEdge(g) = 0
      <3>1. tree.first <= 0
        BY <1>9
      <3> QED
        BY <1>1, <1>9, <2>1, <3>1, ScannedGroup
    <2> HIDE DEF g
    <2>3. S \in SUBSET Nat /\ 0 \in S /\ S # {}
      BY <1>7, <2>2
    <2>4. Min(S) \in S /\ \A n \in S : Min(S) <= n
      <3> HIDE DEF S
      <3> QED
        BY <2>3, MinIsLeast
    <2>5. Min(S) = 0
      <3> HIDE DEF S
      <3>1. Min(S) \in Nat /\ Min(S) <= 0
        BY <2>3, <2>4
      <3> QED
        BY <3>1
    <2> QED
      BY <1>6, <1>9, <2>2, <2>5
  <1> HIDE DEF legacy, edge
  <1>10. /\ tree.next > 0 /\ edge(tree.next - 1) => legacy.next = tree.next
         /\ tree.first = 0 /\ edge(0) => legacy.first = tree.first
    BY <1>3, <1>8, <1>9
  <1> QED
    BY <1>10 DEF LegacyDatabaseReopens, legacy, old, edge

-----------------------------------------------------------------------------
\* What an interrupted call leaves of a tree: up to e what it had, and above the leaves
\* perhaps more hashes of the ledger.
LEMMA SalvageCut ==
  ASSUME NEW t, NEW L, NEW s, Salvageable(t, L, s), NEW e, Whole(e), e <= s,
         NEW u \in Trees(Values), u.db_next = None => e = 0 /\ DOMAIN u.leaves = {},
         e # 0 => t.first < e /\ u.first = t.first /\ u.db_first = t.db_first,
         \A n \in DOMAIN t.leaves : RightEdge(n) <= e =>
            n \in DOMAIN u.leaves /\ u.leaves[n] = t.leaves[n],
         \A n \in DOMAIN u.leaves : RightEdge(n) <= e =>
            \/ n \in DOMAIN t.leaves
            \/ n[1] # 0 /\ u.leaves[n] = HashOf(L, n) /\ u.leaves[n] # zero_note_hashes[n[1]]
  PROVE  Salvageable(u, L, e)
  <1>1. /\ t \in Trees(Values) /\ L \in Vectors(Values) /\ HoldsBelow(t, L, s)
        /\ s # 0 => t.db_first = t.first
        /\ LeavesFirstBelow(t, L, s)
    BY DEF Salvageable
  <1>2. /\ s \in Nat /\ e \in Nat /\ Capacity \in Nat
        /\ s # 0 => t.first \in Nat /\ Whole(t.first)
        /\ TrueBelow(t, L, s) /\ SeenBelow(t, L, s)
    BY <1>1, GroupSizeIs DEF HoldsBelow, Whole
  <1>3. DOMAIN t.leaves \subseteq Node /\ DOMAIN u.leaves \subseteq Node
    BY <1>1, PartialIs DEF Trees
  <1>4. \A n \in Node : RightEdge(n) \in Nat /\ RightEdge(n) # 0
    BY NodeIs
  <1>5. \A n \in Node : RightEdge(n) <= e => RightEdge(n) <= s /\ e # 0
    <2>1. \A x \in Nat : x # 0 /\ x <= e => x <= s /\ e # 0
      BY <1>2
    <2> QED
      BY <1>4, <2>1
  <1>6. TrueBelow(u, L, e)
    BY <1>2, <1>3, <1>5 DEF TrueBelow
  <1>7. SeenBelow(u, L, e)
    <2> SUFFICES ASSUME NEW n \in Node, Seen(u.first, n), RightEdge(n) <= e, n \notin DOMAIN u.leaves
                 PROVE  HashOf(L, n) = zero_note_hashes[n[1]]
      BY DEF SeenBelow
    <2>1. e # 0 /\ RightEdge(n) <= s
      BY <1>5
    <2>2. Seen(t.first, n) /\ n \notin DOMAIN t.leaves
      BY <2>1
    <2> QED
      BY <1>2, <2>1, <2>2 DEF SeenBelow
  <1>8. HoldsBelow(u, L, e)
    <2>1. \E end \in s..Capacity : FilledTo(L, end)
      BY <1>1 DEF HoldsBelow
    <2>2. \A end \in s..Capacity : end \in e..Capacity
      BY <1>2
    <2>3. \E end \in e..Capacity : FilledTo(L, end)
      BY <2>1, <2>2
    <2>4. e # 0 => s # 0
      BY <1>2
    <2>5. e # 0 => u.first \in Nat /\ u.first < e /\ Whole(u.first)
      BY <1>2, <2>4
    <2> QED
      BY <1>6, <1>7, <2>3, <2>5 DEF HoldsBelow
  <1>9. LeavesFirstBelow(u, L, e)
    BY <1>1, <1>3, <1>5 DEF LeavesFirstBelow
  <1>10. e # 0 => u.db_first = u.first
    BY <1>1, <1>2
  <1> QED
    BY <1>1, <1>8, <1>9, <1>10 DEF Salvageable

\* The indexes found by scanning are numbers.
LEMMA ScanIs ==
  ASSUME NEW t \in Trees(Values), t.db_next = None => DOMAIN t.leaves = {}
  PROVE  open(t) \in Trees(Values)
  <1>1. DOMAIN t.leaves \subseteq Node
    BY PartialIs DEF Trees
  <1>2. (IF t.db_next # None THEN t.db_next ELSE scan_next_index(t)) \in Nat
    <2>1. CASE t.db_next # None
      BY <2>1 DEF Trees
    <2>2. CASE t.db_next = None
      <3>1. {0} \cup {calc_next_index(LeftEdge(n)) : n \in Scanned(t)} = {0}
        BY <2>2 DEF Scanned
      <3>2. scan_next_index(t) = Max({0})
        BY <3>1 DEF scan_next_index
      <3>3. Max({0}) = 0
        <4>1. \A x \in {0} : x = 0
          OBVIOUS
        <4>2. Max({0}) \in {0}
          BY DEF Max
        <4> QED
          BY <4>1, <4>2
      <3> QED
        BY <2>2, <3>2, <3>3
    <2> QED
      BY <2>1, <2>2
  <1>3. (IF t.db_first # None THEN t.db_first ELSE scan_first_index(t)) \in Nat \cup {None}
    <2>1. CASE t.db_first # None
      BY <2>1 DEF Trees
    <2>2. CASE Scanned(t) = {}
      BY <2>2 DEF scan_first_index, Trees
    <2>3. CASE Scanned(t) # {}
      <3> DEFINE edges == {LeftEdge(n) : n \in Scanned(t)}
      <3>1. edges \subseteq Nat
        BY <1>1, NodeIs DEF Scanned
      <3>2. edges # {}
        BY <2>3
      <3> HIDE DEF edges
      <3>3. Min(edges) \in Nat
        BY <3>1, <3>2, LeastNumber DEF Min
      <3> QED
        BY <2>3, <3>3 DEF scan_first_index, edges, Trees
    <2> QED
      BY <2>1, <2>2, <2>3
  <1> QED
    BY <1>2, <1>3 DEF open, Trees

\* Opening the database does not lose what can be saved.
LEMMA SalvageOpen ==
  ASSUME NEW t, NEW L, NEW s, Salvageable(t, L, s)
  PROVE  Salvageable(open(t), L, s)
  <1>1. /\ t \in Trees(Values) /\ HoldsBelow(t, L, s) /\ Whole(s) /\ s \in Nat
        /\ s # 0 => t.db_first = t.first /\ t.first \in Nat /\ t.first < s
        /\ t.db_next = None => s = 0 /\ DOMAIN t.leaves = {}
    BY DEF Salvageable, HoldsBelow, Whole
  <1>2. open(t) \in Trees(Values)
    BY <1>1, ScanIs
  <1>3. /\ open(t).leaves = t.leaves /\ open(t).db_next = t.db_next /\ open(t).db_first = t.db_first
        /\ open(t).first = IF t.db_first # None THEN t.db_first ELSE scan_first_index(t)
    BY <1>1 DEF open, Trees
  <1> DEFINE u == open(t)
  <1> HIDE DEF u
  <1>4. /\ u \in Trees(Values) /\ u.leaves = t.leaves /\ u.db_next = t.db_next
        /\ u.db_first = t.db_first
        /\ s # 0 => u.first = t.first
    <2>1. s # 0 => t.db_first # None
      BY <1>1, SentinelsAssumption
    <2> QED
      BY <1>1, <1>2, <1>3, <2>1 DEF u
  <1>5. Salvageable(u, L, s)
    BY <1>1, <1>4, SalvageCut
  <1> QED
    BY <1>5 DEF u

\* The transactions after which an interrupted call may have stopped: of two,
LEMMA InterruptedOfTwo ==
  ASSUME NEW a, NEW b, Interrupted(<<a, b>>)
  PROVE  tree' = open(a)
  <1>1. 1..(Len(<<a, b>>) - 1) = {1} /\ <<a, b>>[1] = a
    OBVIOUS
  <1> QED
    BY <1>1, Zenon DEF Interrupted

\* of three,
LEMMA InterruptedOfThree ==
  ASSUME NEW a, NEW b, NEW c, Interrupted(<<a, b, c>>)
  PROVE  tree' \in {open(a), open(b)}
  <1>1. 1..(Len(<<a, b, c>>) - 1) = {1, 2} /\ <<a, b, c>>[1] = a /\ <<a, b, c>>[2] = b
    OBVIOUS
  <1> QED
    BY <1>1, Zenon DEF Interrupted

\* of four,
LEMMA InterruptedOfFour ==
  ASSUME NEW a, NEW b, NEW c, NEW d, Interrupted(<<a, b, c, d>>)
  PROVE  tree' \in {open(a), open(b), open(c)}
  <1>1. /\ 1..(Len(<<a, b, c, d>>) - 1) = {1, 2, 3}
        /\ <<a, b, c, d>>[1] = a /\ <<a, b, c, d>>[2] = b /\ <<a, b, c, d>>[3] = c
    OBVIOUS
  <1> QED
    BY <1>1, Zenon DEF Interrupted

\* of five.
LEMMA InterruptedOfFive ==
  ASSUME NEW a, NEW b, NEW c, NEW d, NEW f, Interrupted(<<a, b, c, d, f>>)
  PROVE  tree' \in {open(a), open(b), open(c), open(d)}
  <1>1. /\ 1..(Len(<<a, b, c, d, f>>) - 1) = {1, 2, 3, 4}
        /\ <<a, b, c, d, f>>[1] = a /\ <<a, b, c, d, f>>[2] = b
        /\ <<a, b, c, d, f>>[3] = c /\ <<a, b, c, d, f>>[4] = d
    OBVIOUS
  <1> QED
    BY <1>1, Zenon DEF Interrupted

\* Until the nodes of an update are written only the indexes have changed, and what the
\* tree had is still there.
LEMMA IndexedSalvageable ==
  ASSUME NEW t, NEW L, Good(t, L), NEW start \in Nat, t.first # None => t.first <= start, NEW e \in Nat
  PROVE  /\ Salvageable(update_next_index(t, e), L, t.next)
         /\ Salvageable(Indexed(t, e, start), L, t.next)
  <1> DEFINE t1 == update_next_index(t, e)
             u == Indexed(t, e, start)
  <1>1. /\ Salvageable(t, L, t.next) /\ t \in Trees(Values) /\ t.next \in Nat
        /\ Whole(t.next)
        /\ t.next # 0 => t.first \in Nat /\ t.first < t.next
        /\ t.db_next = None => DOMAIN t.leaves = {} /\ t.next = 0
    BY GoodSalvageable DEF Salvageable, HoldsBelow, Whole
  <1>2. /\ t1 \in Trees(Values) /\ t1.leaves = t.leaves
        /\ t1.db_next = IF e >= t.next THEN e ELSE t.db_next
        /\ t1.first = t.first /\ t1.db_first = t.db_first
    BY <1>1 DEF update_next_index, Trees
  <1>0. t \in Trees(Values) /\ u \in Trees(Values)
    BY <1>1, IndexedIs
  <1>3. /\ u.leaves = t.leaves
        /\ u.db_next = IF e >= t.next THEN e ELSE t.db_next
        /\ u.first = IF t.first = None \/ start < t.first THEN start ELSE t.first
        /\ u.db_first = IF t.first = None \/ start < t.first THEN start ELSE t.db_first
    BY <1>0, IndexedIs
  <1> HIDE DEF t1, u
  <1>4. t.next # 0 => t.first # None /\ ~ start < t.first
    <2> SUFFICES ASSUME t.next # 0 PROVE t.first # None /\ ~ start < t.first
      OBVIOUS
    <2>1. t.first \in Nat /\ t.first # None
      BY <1>1, SentinelsAssumption
    <2>2. t.first <= start
      BY <2>1
    <2> QED
      BY <2>1, <2>2
  <1>5. t.next # 0 => u.first = t.first /\ u.db_first = t.db_first
    BY <1>3, <1>4
  <1>6. /\ t1.db_next = None => t.db_next = None
        /\ u.db_next = None => t.db_next = None
    BY <1>2, <1>3, SentinelsAssumption
  <1>7. Salvageable(t1, L, t.next)
    BY <1>1, <1>2, <1>6, SalvageCut
  <1>8. Salvageable(u, L, t.next)
    BY <1>0, <1>1, <1>3, <1>5, <1>6, SalvageCut
  <1> QED
    BY <1>7, <1>8 DEF t1, u

\* An interrupted batch.
LEMMA CrashInAddBatchKeeps ==
  ASSUME IInv, NEW start \in Index, Aligned(start), NEW n \in 1..MaxBatch, CrashInAddBatch(start, n)
  PROVE  Salvageable(tree', ledger', safe')
  <1> DEFINE e == start + n * GroupSize
  <1>1. PICK batch \in Batches(start, n) : Interrupted(add_leafs_and_commitments(tree, batch))
    BY DEF CrashInAddBatch
  <1>2. Held(start) /\ e <= Capacity /\ safe' = tree.next /\ ledger' = ledger
    BY DEF CrashInAddBatch
  <1> DEFINE M == Extended(tree.next, batch)
  <1>3. /\ IsBatch(batch, start, n) /\ BatchIn(batch, M)
        /\ Extends(tree, ledger, M, start, e) /\ SiblingsTrue(tree, NoSiblings, M, start)
    BY <1>2, BatchTold
  <1>4. /\ start \in Nat /\ e \in Nat
    BY <1>3, BatchIs DEF IsBatch, Whole
  <1>5. tree \in Trees(Values) /\ Holds(tree, ledger)
    BY DEF IInv, Good
  <1> HIDE DEF e, M
  <1>6. PICK v : add_leafs_commitments_and_siblings(tree, batch, NoSiblings)
                   = <<update_next_index(tree, e), Indexed(tree, e, start), v>>
    <2>1. add_leafs_commitments_and_siblings(tree, batch, NoSiblings)
            = AddWrites(tree, batch, NoSiblings, start, e)
      BY <1>3, <1>5, AddIs DEF e
    <2> QED
      BY <2>1 DEF AddWrites
  <1>7. tree' \in {open(update_next_index(tree, e)), open(Indexed(tree, e, start))}
    BY <1>1, <1>6, InterruptedOfThree DEF add_leafs_and_commitments
  <1>8. /\ Salvageable(update_next_index(tree, e), ledger, tree.next)
        /\ Salvageable(Indexed(tree, e, start), ledger, tree.next)
    BY <1>2, <1>4, IndexedSalvageable DEF IInv, Held
  <1> QED
    BY <1>2, <1>7, <1>8, SalvageOpen

\* An interrupted first batch of a partial tree.
LEMMA CrashInAddFirstBatchKeeps ==
  ASSUME IInv, NEW prefix \in SkippedParts, NEW n \in 1..MaxBatch, CrashInAddFirstBatch(prefix, n)
  PROVE  Salvageable(tree', ledger', safe')
  <1> DEFINE start == Len(prefix)
             e == start + n * GroupSize
             siblings == SiblingHashes(prefix)
  <1>1. tree.next = 0 /\ e <= Capacity /\ safe' = tree.next /\ ledger' = ledger
    BY DEF CrashInAddFirstBatch
  <1>2. PICK batch \in Batches(start, n) :
          Interrupted(add_leafs_commitments_and_siblings(tree, batch, siblings))
    BY DEF CrashInAddFirstBatch
  <1> DEFINE M == FirstLedger(prefix, batch)
  <1>3. /\ IsBatch(batch, start, n) /\ BatchIn(batch, M)
        /\ Extends(tree, ledger, M, start, e) /\ SiblingsTrue(tree, siblings, M, start)
    BY <1>1, <1>2, FirstTold
  <1>4. start \in Nat /\ e \in Nat
    BY <1>3, BatchIs DEF IsBatch, Whole
  <1>5. tree \in Trees(Values) /\ Holds(tree, ledger) /\ tree.first = None
    BY <1>1 DEF IInv, Good, Holds
  <1>6. add_leafs_commitments_and_siblings(tree, batch, siblings)
          = AddWrites(tree, batch, siblings, start, e)
    <2> HIDE DEF siblings, M, start
    <2> QED
      BY <1>3, <1>5, AddIs DEF e
  <1> HIDE DEF e, M, start, siblings
  <1>7. PICK v : add_leafs_commitments_and_siblings(tree, batch, siblings)
                   = <<update_next_index(tree, e), Indexed(tree, e, start), v>>
    BY <1>6 DEF AddWrites
  <1>8. tree' \in {open(update_next_index(tree, e)), open(Indexed(tree, e, start))}
    BY <1>2, <1>7, InterruptedOfThree
  <1>9. /\ Salvageable(update_next_index(tree, e), ledger, tree.next)
        /\ Salvageable(Indexed(tree, e, start), ledger, tree.next)
    BY <1>4, <1>5, IndexedSalvageable DEF IInv
  <1> QED
    BY <1>1, <1>8, <1>9, SalvageOpen

\* Interrupted hashes of one transaction.
LEMMA CrashInAddHashesKeeps ==
  ASSUME IInv, NEW start \in Index, Aligned(start), NEW tx, CrashInAddHashes(start, tx)
  PROVE  Salvageable(tree', ledger', safe')
  <1> DEFINE M == Extended(tree.next, [i \in {start} |-> tx])
             e == start + GroupSize
  <1>1. /\ Held(start) /\ tx.kind = "leafs"
        /\ tx \in IF start < tree.next THEN Known(start) ELSE Txs
        /\ Interrupted(add_hashes(tree, start, TxLeaves(tx)))
        /\ safe' = tree.next /\ ledger' = ledger
    BY DEF CrashInAddHashes
  <1> HIDE DEF M, e
  <1>2. /\ tx \in GroupTxs /\ Whole(start)
        /\ start \in Nat /\ e \in Nat /\ start < e
        /\ Whole(e) /\ e <= Capacity
        /\ Extends(tree, ledger, M, start, e)
        /\ \A k \in 1..GroupSize : M[start + k - 1] = TxLeaves(tx)[k]
        /\ \A j \in Nat : tree.next <= j /\ j < start => M[j] = ZeroNote
        /\ tx.kind = "leafs" => ZerosLast(M, start)
    BY <1>1, OneGroup DEF M, e
  <1>3. tree \in Trees(Values) /\ Holds(tree, ledger)
    BY DEF IInv, Good
  <1>4. e = start + GroupSize
    BY DEF e
  <1>5. PICK w : add_hashes(tree, start, TxLeaves(tx))
                   = <<update_next_index(tree, e), Indexed(tree, e, start), w>>
    BY <1>1, <1>2, <1>3, <1>4, AddHashesIs
  <1>6. tree' \in {open(update_next_index(tree, e)), open(Indexed(tree, e, start))}
    BY <1>1, <1>5, InterruptedOfThree
  <1>7. /\ Salvageable(update_next_index(tree, e), ledger, tree.next)
        /\ Salvageable(Indexed(tree, e, start), ledger, tree.next)
    BY <1>1, <1>2, IndexedSalvageable DEF IInv, Held
  <1> QED
    BY <1>1, <1>6, <1>7, SalvageOpen

\* An interrupted commitment.
LEMMA CrashInAddCommitmentKeeps ==
  ASSUME IInv, NEW start \in Index, Aligned(start), NEW tx, CrashInAddCommitment(start, tx)
  PROVE  Salvageable(tree', ledger', safe')
  <1> DEFINE g == Above(<<0, start>>, OUTPLUSONELOG)
             e == start + GroupSize
  <1>1. /\ Held(start) /\ Interrupted(AddedHash(tree, g, tx.hash))
        /\ tx \in IF start < tree.next THEN Known(start) ELSE Txs
        /\ safe' = tree.next /\ ledger' = ledger
    BY DEF CrashInAddCommitment, AddedHash
  <1>2. /\ Whole(start) /\ start \in Nat /\ e \in Nat /\ start < e /\ Whole(e) /\ e <= Capacity
    <2>1. Held(start) /\ tx \in IF start < tree.next THEN Known(start) ELSE Txs
      BY <1>1
    <2> QED
      BY <2>1, OneGroup
  <1>3. /\ g[1] = OUTPLUSONELOG /\ LeftEdge(g) = start /\ RightEdge(g) = e
    BY <1>2, GroupNode
  <1>4. calc_next_index(RightEdge(g) - 1) = e /\ calc_first_index(LeftEdge(g)) = start
    BY <1>2, <1>3, GroupEnds
  <1> HIDE DEF g, e
  <1>5. \/ AddedHash(tree, g, tx.hash) = <<update_next_index(tree, e), Indexed(tree, e, start)>>
        \/ \E w : AddedHash(tree, g, tx.hash)
                    = <<update_next_index(tree, e), Indexed(tree, e, start), w>>
    <2>1. g[1] \in {0, OUTPLUSONELOG}
      BY <1>3
    <2> QED
      BY <1>4, <2>1, AddHashIs
  <1>6. tree' \in {open(update_next_index(tree, e)), open(Indexed(tree, e, start))}
    BY <1>1, <1>5, InterruptedOfTwo, InterruptedOfThree
  <1>7. /\ Salvageable(update_next_index(tree, e), ledger, tree.next)
        /\ Salvageable(Indexed(tree, e, start), ledger, tree.next)
    BY <1>1, <1>2, IndexedSalvageable DEF IInv, Held
  <1> QED
    BY <1>1, <1>6, <1>7, SalvageOpen

\* Whatever of a rollback is written, the tree holds the ledger up to the cut.
LEMMA RollbackSalvageable ==
  ASSUME NEW t, NEW L, NEW s, Salvageable(t, L, s), NEW r, Whole(r), r <= s,
         NEW e, e = CutPoint(t, r)
  PROVE  /\ e \in Nat /\ e <= s
         /\ Salvageable(Ended(t, e), L, e) /\ Salvageable(Emptied(t, e), L, e)
         /\ Salvageable(Shortened(t, e), L, e) /\ Salvageable(rebuild(Shortened(t, e), e), L, e)
  <1>1. /\ t \in Trees(Values) /\ L \in Vectors(Values) /\ HoldsBelow(t, L, s)
        /\ s # 0 => t.db_first = t.first
    BY DEF Salvageable
  <1>2. /\ s \in Nat /\ r \in Nat /\ TrueBelow(t, L, s) /\ Capacity \in Nat
        /\ s # 0 => t.first \in Nat
        /\ DOMAIN t.leaves \subseteq Node /\ Default \in Values
    BY <1>1, GroupSizeIs, PartialIs DEF HoldsBelow, Whole, Trees, Values
  <1>3. PICK next \in s..Capacity : FilledTo(L, next)
    BY <1>1 DEF HoldsBelow
  <1>4. e \in Nat /\ Whole(e)
    BY <1>1, RollbackIs
  <1>5. e <= s /\ e <= next /\ next \in Nat /\ (e # 0 => t.first < e)
    <2>1. e # 0 => s # 0
      BY <1>2 DEF CutPoint
    <2>2. e # 0 => e = r /\ t.first \in Nat /\ ~ r <= t.first
      BY <1>2, <2>1, SentinelsAssumption DEF CutPoint
    <2>3. e = 0 \/ e = r
      BY DEF CutPoint
    <2> QED
      BY <1>2, <1>3, <2>2, <2>3
  <1>6. TrueBelow(t, L, e)
    <2>1. \A n \in Node : RightEdge(n) <= e => RightEdge(n) <= s
      BY <1>2, <1>4, <1>5, NodeIs
    <2> QED
      BY <1>2, <2>1 DEF TrueBelow
  <1> DEFINE t1 == Ended(t, e)
             t2 == Emptied(t, e)
             t3 == Shortened(t, e)
             t4 == rebuild(t3, e)
  <1>7. /\ t1 \in Trees(Values) /\ t1.leaves = t.leaves /\ t1.db_next = e
        /\ t1.first = t.first /\ t1.db_first = t.db_first
    BY <1>1, <1>4 DEF Ended, Trees
  <1>8. /\ t2 \in Trees(Values) /\ t2.leaves = t.leaves /\ t2.db_next = e
        /\ e # 0 => t2.first = t.first /\ t2.db_first = t.db_first
    BY <1>1, <1>4 DEF Emptied, Ended, Trees
  <1>9. /\ t3 \in Trees(Values) /\ Truncated(t3, L, e)
        /\ t3.db_next = e
        /\ t3.first = IF e = 0 THEN None ELSE t.first
        /\ t3.db_first = IF e = 0 THEN None ELSE t.db_first
        /\ DOMAIN t3.leaves = {n \in DOMAIN t.leaves : RightEdge(n) <= e}
    BY <1>1, <1>4, <1>6, ShortenedIs
  <1> HIDE DEF t1, t2, t3
  <1>10. /\ t4 \in Trees(Values) /\ SameIndexes(t3, t4)
         /\ \A n \in DOMAIN t3.leaves : n \in DOMAIN t4.leaves /\ t4.leaves[n] = t3.leaves[n]
         /\ \A n \in DOMAIN t4.leaves :
               \/ n \in DOMAIN t3.leaves
               \/ /\ n[1] # 0 /\ t4.leaves[n] = HashOf(Cut(L, e), n)
                  /\ t4.leaves[n] # zero_note_hashes[n[1]]
    BY <1>1, <1>2, <1>3, <1>4, <1>5, <1>9, NoneIsNoValue, RebuildTyped
  <1> HIDE DEF t4
  <1>11. e # None
    BY <1>4, SentinelsAssumption
  <1>12. Salvageable(t1, L, e)
    BY <1>4, <1>5, <1>7, <1>11, SalvageCut
  <1>13. Salvageable(t2, L, e)
    BY <1>4, <1>5, <1>8, <1>11, SalvageCut
  <1>14. \A n \in DOMAIN t.leaves : RightEdge(n) <= e =>
            n \in DOMAIN t3.leaves /\ t3.leaves[n] = t.leaves[n]
    BY <1>6, <1>9 DEF TrueBelow, Truncated
  <1>15. \A n \in DOMAIN t3.leaves : n \in DOMAIN t.leaves
    BY <1>9
  <1>16. Salvageable(t3, L, e)
    BY <1>4, <1>5, <1>9, <1>11, <1>14, <1>15, SalvageCut
  <1>17. \A n \in DOMAIN t4.leaves : RightEdge(n) <= e =>
            \/ n \in DOMAIN t3.leaves
            \/ n[1] # 0 /\ t4.leaves[n] = HashOf(L, n) /\ t4.leaves[n] # zero_note_hashes[n[1]]
    <2>1. DOMAIN t4.leaves \subseteq Node
      BY <1>10, PartialIs DEF Trees
    <2>2. \A n \in Node : RightEdge(n) <= e => HashOf(Cut(L, e), n) = HashOf(L, n)
      BY <1>4, CutBefore
    <2> QED
      BY <1>10, <2>1, <2>2
  <1>18. /\ t4.first = t3.first /\ t4.db_first = t3.db_first /\ t4.db_next = e
         /\ e # 0 => t3.first < e
    BY <1>5, <1>9, <1>10 DEF SameIndexes
  <1>19. Salvageable(t4, L, e)
    BY <1>4, <1>10, <1>11, <1>16, <1>17, <1>18, SalvageCut
  <1> QED
    BY <1>4, <1>5, <1>12, <1>13, <1>16, <1>19 DEF t1, t2, t3, t4

\* An interrupted rollback, or an interrupted recovery.
LEMMA CrashInRollbackKeeps ==
  ASSUME NEW s, Salvageable(tree, ledger, s), NEW index \in 0..Capacity, index <= s,
         CrashInRollback(index)
  PROVE  Salvageable(tree', ledger', safe') /\ safe' \in Nat
  <1> DEFINE e == CutPoint(tree, index)
             t3 == Shortened(tree, e)
  <1>1. /\ Aligned(index) /\ Interrupted(rollback(tree, index).writes)
        /\ safe' = RollbackPoint(index) /\ ledger' = ledger
    BY DEF CrashInRollback
  <1>2. Whole(index)
    BY <1>1, GroupSizeIs DEF Aligned, Whole
  <1>3. /\ e \in Nat
        /\ Salvageable(Ended(tree, e), ledger, e) /\ Salvageable(Emptied(tree, e), ledger, e)
        /\ Salvageable(t3, ledger, e) /\ Salvageable(rebuild(t3, e), ledger, e)
    BY <1>2, RollbackSalvageable
  <1>4. safe' = e
    BY <1>1 DEF RollbackPoint, CutPoint
  <1>5. rollback(tree, index).writes = RollbackWrites(tree, e)
    BY <1>2, RollbackIs DEF Salvageable
  <1> HIDE DEF e, t3
  <1>6. RollbackWrites(tree, e) =
          <<Ended(tree, e), Emptied(tree, e), t3, rebuild(t3, e), reset_stable_index(rebuild(t3, e))>>
    BY DEF RollbackWrites, t3, e
  <1>7. tree' \in {open(Ended(tree, e)), open(Emptied(tree, e)), open(t3), open(rebuild(t3, e))}
    BY <1>1, <1>5, <1>6, InterruptedOfFive
  <1> QED
    BY <1>1, <1>3, <1>4, <1>7, SalvageOpen

\* An interrupted wipe.
LEMMA CrashInWipeKeeps ==
  ASSUME NEW s, Salvageable(tree, ledger, s), CrashInWipe
  PROVE  Salvageable(tree', ledger', safe')
  <1> DEFINE t1 == [tree EXCEPT !.leaves = NoNodes, !.temp = NoNodes]
             t2 == [t1 EXCEPT !.next = 0, !.first = None, !.db_first = None]
             t3 == [t2 EXCEPT !.db_next = 0]
             t4 == [t3 EXCEPT !.stable = 0]
  <1>1. Interrupted(wipe(tree)) /\ safe' = 0 /\ ledger' = ledger
    BY DEF CrashInWipe
  <1>2. wipe(tree) = <<t1, t2, t3, t4>>
    BY DEF wipe
  <1>3. tree \in Trees(Values) /\ Whole(0) /\ s \in Nat /\ 0 <= s
    BY GroupSizeIs DEF Salvageable, HoldsBelow, Whole
  <1>4. NoNodes \in PartialHashes(Values) /\ DOMAIN NoNodes = {}
    BY NoNodesPartial DEF NoNodes
  <1>5. t1 \in Trees(Values) /\ t1.leaves = NoNodes
    BY <1>3, <1>4 DEF Trees
  <1> HIDE DEF t1
  <1>6. t2 \in Trees(Values) /\ t2.leaves = NoNodes
    BY <1>5 DEF Trees
  <1> HIDE DEF t2
  <1>7. t3 \in Trees(Values) /\ t3.leaves = NoNodes
    BY <1>6 DEF Trees
  <1> HIDE DEF t3, t4
  <1>8. ASSUME NEW u \in Trees(Values), u.leaves = NoNodes PROVE Salvageable(u, ledger, 0)
    <2>1. DOMAIN u.leaves = {}
      BY <1>4, <1>8
    <2>2. \A n \in DOMAIN tree.leaves : ~ RightEdge(n) <= 0
      <3>1. DOMAIN tree.leaves \subseteq Node
        BY <1>3, PartialIs DEF Trees
      <3> QED
        BY <3>1, NodeIs
    <2> QED
      BY <1>3, <2>1, <2>2, SalvageCut
  <1>9. tree' \in {open(t1), open(t2), open(t3)}
    BY <1>1, <1>2, InterruptedOfFour
  <1> QED
    BY <1>1, <1>5, <1>6, <1>7, <1>8, <1>9, SalvageOpen

\* Every step of a tree whose calls may be interrupted keeps the invariant.
LEMMA CrashKeeps ==
  ASSUME CrashInv, [CrashNext]_crashVars
  PROVE  CrashInv'
  <1>1. ASSUME safe = None PROVE IInv /\ Good(tree, ledger) /\ tree.next \in Nat
    BY <1>1 DEF CrashInv, IInv, Good, Trees
  <1>2. ASSUME safe # None PROVE Salvageable(tree, ledger, safe) /\ safe \in Nat
    BY <1>2 DEF CrashInv, Salvageable, HoldsBelow, Whole
  <1>3. PICK s : Salvageable(tree, ledger, s) /\ (\A index : Recoverable(index) => index <= s)
    <2>1. CASE safe = None
      <3>1. Salvageable(tree, ledger, tree.next)
        BY <1>1, <2>1, GoodSalvageable
      <3> QED
        BY <3>1 DEF Recoverable
    <2>2. CASE safe # None
      BY <1>2, <2>2 DEF Recoverable
    <2> QED
      BY <2>1, <2>2
  <1>4. \A i \in Nat : i # None
    BY SentinelsAssumption
  <1>5. CASE Running
    <2>1. Good(tree', ledger') /\ safe' = None
      BY <1>1, <1>5, NextGood DEF Running
    <2> QED
      BY <2>1 DEF CrashInv
  <1>6. ASSUME NEW start \in {i \in Index : Aligned(i)}, NEW n \in 1..MaxBatch,
               CrashInAddBatch(start, n)
        PROVE  CrashInv'
    <2>1. safe = None /\ safe' = tree.next
      BY <1>6 DEF CrashInAddBatch
    <2>2. Salvageable(tree', ledger', safe')
      BY <1>1, <1>6, <2>1, CrashInAddBatchKeeps
    <2> QED
      BY <1>1, <1>4, <2>1, <2>2 DEF CrashInv
  <1>7. ASSUME NEW start \in {i \in Index : Aligned(i)}, NEW tx \in Txs \cup Known(start),
               CrashInAddCommitment(start, tx)
        PROVE  CrashInv'
    <2>1. safe = None /\ safe' = tree.next
      BY <1>7 DEF CrashInAddCommitment
    <2>2. Salvageable(tree', ledger', safe')
      BY <1>1, <1>7, <2>1, CrashInAddCommitmentKeeps
    <2> QED
      BY <1>1, <1>4, <2>1, <2>2 DEF CrashInv
  <1>8. ASSUME NEW index \in 0..Capacity, CrashInRollback(index)
        PROVE  CrashInv'
    <2>1. index <= s
      BY <1>3, <1>8 DEF CrashInRollback
    <2>2. Salvageable(tree', ledger', safe') /\ safe' \in Nat
      BY <1>3, <1>8, <2>1, CrashInRollbackKeeps
    <2> QED
      BY <1>4, <2>2 DEF CrashInv
  <1>9. ASSUME NEW index \in 0..Capacity, Recover(index)
        PROVE  CrashInv'
    <2>1. Rollback(index) /\ index <= s /\ safe' = None
      BY <1>3, <1>9 DEF Recover
    <2>2. Good(tree', ledger')
      BY <1>3, <2>1, RollbackLeaves
    <2> QED
      BY <2>1, <2>2 DEF CrashInv
  <1>10. CASE CrashInWipe
    <2>1. Salvageable(tree', ledger', safe') /\ safe' = 0
      BY <1>3, <1>10, CrashInWipeKeeps DEF CrashInWipe
    <2> QED
      BY <1>4, <2>1 DEF CrashInv
  <1>11. ASSUME NEW prefix \in SkippedParts, NEW n \in 1..MaxBatch,
                CrashInAddFirstBatch(prefix, n)
         PROVE  CrashInv'
    <2>1. safe = None /\ safe' = tree.next
      BY <1>11 DEF CrashInAddFirstBatch
    <2>2. Salvageable(tree', ledger', safe')
      BY <1>1, <1>11, <2>1, CrashInAddFirstBatchKeeps
    <2> QED
      BY <1>1, <1>4, <2>1, <2>2 DEF CrashInv
  <1>12. ASSUME NEW start \in {i \in Index : Aligned(i)}, NEW tx \in Txs \cup Known(start),
                CrashInAddHashes(start, tx)
         PROVE  CrashInv'
    <2>1. safe = None /\ safe' = tree.next
      BY <1>12 DEF CrashInAddHashes
    <2>2. Salvageable(tree', ledger', safe')
      BY <1>1, <1>12, <2>1, CrashInAddHashesKeeps
    <2> QED
      BY <1>1, <1>4, <2>1, <2>2 DEF CrashInv
  <1>13. CASE UNCHANGED crashVars
    BY <1>13 DEF crashVars, CrashInv
  <1> QED
    BY <1>5, <1>6, <1>7, <1>8, <1>9, <1>10, <1>11, <1>12, <1>13 DEF CrashNext

\* The inductive invariant of MerkleTreeCrash.
LEMMA CrashInductive == CrashSpec => []CrashInv
  <1>1. CrashInit => CrashInv
    BY InitGood DEF CrashInit, CrashInv, IInv
  <1>2. CrashInv /\ [CrashNext]_crashVars => CrashInv'
    BY CrashKeeps
  <1> QED
    BY <1>1, <1>2, PTL DEF CrashSpec

\* What can be saved, can be rolled back to.
LEMMA CrashRecovers ==
  ASSUME CrashInv
  PROVE  CrashIsRecoverable
  <1> SUFFICES ASSUME safe # None, NEW index \in Index, Aligned(index), Recoverable(index)
               PROVE  LET undo == rollback(tree, index)
                      IN  /\ undo.root \in {None, HashOf(Prefix(RollbackPoint(index)), Root)}
                          /\ undo.root = None => EmptyBlock(index)
                          /\ undo.root # None => get_root(Last(undo.writes)) = undo.root
    BY DEF CrashIsRecoverable
  <1>1. Salvageable(tree, ledger, safe) /\ index <= safe
    BY DEF CrashInv, Recoverable
  <1> QED
    BY <1>1, RollbackOfSalvageable
-----------------------------------------------------------------------------
\* The proofs the tree gives of the leaves it stores.

\* A node lies in another one, or is it.
Within(m, g) == LeftEdge(g) <= LeftEdge(m) /\ RightEdge(m) <= RightEdge(g)

\* The tree reads every node of a group right.
GroupRead(t, L, g) == \A m \in Node : Within(m, g) => get(t, m) = HashOf(L, m)

\* A group with a stored leaf is known, and read right from the group down to
\* its leaves.
LeavesRead(t, L) ==
  \A n \in DOMAIN t.leaves :
     n[1] = 0 => LET g == Above(n, OUTPLUSONELOG) IN Seen(t.first, g) /\ GroupRead(t, L, g)

\* The group of a leaf.
LEMMA GroupAbove ==
  ASSUME NEW n \in Node, n[1] = 0
  PROVE  LET g == Above(n, OUTPLUSONELOG)
         IN  /\ g \in Node /\ g[1] = OUTPLUSONELOG /\ LeftEdge(g) = calc_first_index(n[2])
             /\ g = Above(<<0, calc_first_index(n[2])>>, OUTPLUSONELOG)
             /\ RightEdge(g) = LeftEdge(g) + GroupSize /\ RightEdge(g) <= Capacity
             /\ Whole(LeftEdge(g)) /\ Whole(RightEdge(g))
             /\ LeftEdge(g) <= n[2] /\ n[2] < RightEdge(g)
             /\ LeftEdge(n) = n[2] /\ RightEdge(n) = n[2] + 1 /\ n[2] \in Nat
  <1> DEFINE g == Above(n, OUTPLUSONELOG)
             i == calc_first_index(n[2])
             k == Above(<<0, i>>, OUTPLUSONELOG)
  <1>1. LeftEdge(n) = n[2] /\ RightEdge(n) = n[2] + 1 /\ n[2] \in Nat /\ RightEdge(n) <= Capacity
    BY NodeIs, WidthIs DEF LeftEdge
  <1>2. /\ Whole(i) /\ i <= n[2] /\ n[2] < i + GroupSize /\ Whole(calc_next_index(n[2]))
        /\ calc_next_index(n[2]) = i + GroupSize
    BY <1>1, GroupOf
  <1>3. Whole(i + GroupSize) /\ i \in Nat /\ GroupSize \in Nat /\ Capacity \in Nat /\ Whole(Capacity)
    BY <1>2, GroupSizeIs DEF Whole
  <1> HIDE DEF i
  <1>4. i + GroupSize <= Capacity
    BY <1>1, <1>2, <1>3, NextWhole
  <1>5. k \in Node /\ k[1] = OUTPLUSONELOG /\ LeftEdge(k) = i /\ RightEdge(k) = i + GroupSize
    BY <1>2, <1>4, GroupNode
  <1>6. g \in Node /\ g[1] = OUTPLUSONELOG /\ LeftEdge(g) <= LeftEdge(n) /\ RightEdge(n) <= RightEdge(g)
    <2>1. OUTPLUSONELOG \in n[1]..HEIGHT
      BY SizesAssumption
    <2> QED
      BY <2>1, AboveIs
  <1> HIDE DEF g, k
  <1>7. LeftEdge(g) < RightEdge(k) /\ LeftEdge(k) < RightEdge(g)
    BY <1>1, <1>2, <1>3, <1>5, <1>6, NodeIs
  <1>8. g = k
    BY <1>5, <1>6, <1>7, SameLevel
  <1> QED
    BY <1>1, <1>2, <1>3, <1>4, <1>5, <1>8 DEF g, i, k

\* What a tree reads after an update: what the update computed or was given, else
\* what it read before.
LEMMA UpdateReads ==
  ASSUME NEW X, NoneIsNoHash(X), NEW M \in Vectors(X), NEW L,
         NEW t, NEW u \in Trees(X), NEW nodes, NEW b,
         Grows(t, L, u, M), GivenTrue(t, u, M, nodes, b), StoredTrue(t, L), SeenTrue(t, L),
         DOMAIN t.leaves \subseteq Node
  PROVE  LET v == put_hashes(u, virtual_subtree(u, nodes, b))
             computed == Visited(Settled(u, nodes, b)) \cup DOMAIN nodes
         IN  /\ v.next = u.next /\ v.first = u.first
             /\ \A n \in Node : get(v, n) = IF n \in computed THEN HashOf(M, n) ELSE get(u, n)
  <1> DEFINE known == Settled(u, nodes, b)
             new == virtual_subtree(u, nodes, b)
             v == put_hashes(u, new)
  <1>1. /\ DOMAIN new = Visited(known) \cup DOMAIN nodes
        /\ DOMAIN new \subseteq Node
        /\ \A n \in DOMAIN new : new[n] = HashOf(M, n)
        /\ \A n \in Visited(known) : n[1] # 0 /\ ~Untouched(n, b)
    BY SubtreeTrue, Zenon
  <1>2. u.next \in Nat /\ u.leaves = t.leaves /\ FilledTo(M, u.next)
    BY DEF Grows, Whole
  <1>3. new \in PartialHashes(X)
    <2>1. \A n \in DOMAIN new : new[n] \in Seq(X)
      <3> SUFFICES ASSUME NEW n \in DOMAIN new PROVE new[n] \in Seq(X)
        OBVIOUS
      <3>1. n \in Node /\ new[n] = HashOf(M, n)
        BY <1>1, Zenon
      <3> HIDE DEF new
      <3>2. new[n] \in [1..Width[n[1]] -> X] /\ Width[n[1]] \in Nat
        BY <3>1, HashType, NodeIs
      <3> QED
        BY <3>2
    <2>2. new = [n \in DOMAIN new |-> new[n]]
      BY DEF virtual_subtree
    <2> HIDE DEF new
    <2>3. new \in [DOMAIN new -> Seq(X)]
      BY <2>1, <2>2
    <2> QED
      BY <1>1, <2>3, PartialMake
  <1> HIDE DEF new
  <1>4. v \in Trees(X) /\ SameIndexes(u, v) /\ v.leaves = PutLeaves(u.leaves, new)
    BY <1>3, PutHashesIs
  <1>5. v.next = u.next /\ v.first = u.first
    BY <1>4 DEF SameIndexes
  <1> HIDE DEF v
  <1>6. /\ DOMAIN v.leaves = (DOMAIN u.leaves \ DOMAIN new) \cup Stored(new)
        /\ \A n \in Stored(new) : v.leaves[n] = new[n]
        /\ \A n \in DOMAIN u.leaves \ DOMAIN new : v.leaves[n] = u.leaves[n]
    BY <1>4 DEF PutLeaves, Stored
  <1>7. ASSUME NEW n \in Node, n \in DOMAIN new PROVE get(v, n) = HashOf(M, n)
    <2>1. new[n] = HashOf(M, n)
      BY <1>1, <1>7
    <2>2. CASE HashOf(M, n) = zero_note_hashes[n[1]]
      <3>1. n \notin DOMAIN v.leaves
        BY <1>6, <1>7, <2>1, <2>2 DEF Stored
      <3>2. RightEdge(n) <= v.next
        BY <1>2, <1>5, <2>2, ZeroIsFilled
      <3> QED
        BY <2>2, <3>1, <3>2 DEF get
    <2>3. CASE HashOf(M, n) # zero_note_hashes[n[1]]
      <3>1. n \in Stored(new)
        BY <1>7, <2>1, <2>3 DEF Stored
      <3>2. n \in DOMAIN v.leaves /\ v.leaves[n] = HashOf(M, n)
        BY <1>6, <2>1, <3>1
      <3> QED
        BY <3>2 DEF get
    <2> QED
      BY <2>2, <2>3
  <1>8. ASSUME NEW n \in Node, n \notin DOMAIN new PROVE get(v, n) = get(u, n)
    <2>1. n \notin Stored(new)
      BY <1>8 DEF Stored
    <2> QED
      BY <1>5, <1>6, <1>8, <2>1 DEF get
  <1>9. v.next = u.next /\ v.first = u.first
        /\ \A n \in Node : get(v, n) = IF n \in Visited(known) \cup DOMAIN nodes THEN HashOf(M, n) ELSE get(u, n)
    BY <1>1, <1>5, <1>7, <1>8
  <1> QED
    BY <1>9 DEF v, new

\* The nodes given of a group, if any, are leaves or zero notes.
LeavesGiven(nodes, M, g) ==
  \A c \in DOMAIN nodes :
     \/ c[1] = 0
     \/ RightEdge(c) <= LeftEdge(g) \/ RightEdge(g) <= LeftEdge(c)
     \/ HashOf(M, c) = zero_note_hashes[c[1]]

\* An update leaves a group readable that was so, and makes one of which it gets
\* the leaves.
LEMMA GroupUpdated ==
  ASSUME NEW X, NoneIsNoHash(X), NEW M \in Vectors(X), NEW L,
         NEW t, NEW u \in Trees(X), NEW nodes, NEW b,
         Grows(t, L, u, M), GivenTrue(t, u, M, nodes, b), StoredTrue(t, L), SeenTrue(t, L),
         DOMAIN t.leaves \subseteq Node,
         NEW g \in Node,
         \/ RightEdge(g) <= t.next /\ GroupRead(t, L, g)
         \/ t.next <= LeftEdge(g) /\ RightEdge(g) <= u.next /\ LeavesGiven(nodes, M, g)
  PROVE  GroupRead(put_hashes(u, virtual_subtree(u, nodes, b)), M, g)
  <1> DEFINE v == put_hashes(u, virtual_subtree(u, nodes, b))
             known == Settled(u, nodes, b)
  <1>1. /\ v.next = u.next /\ v.first = u.first
        /\ \A n \in Node : get(v, n) = IF n \in Visited(known) \cup DOMAIN nodes THEN HashOf(M, n) ELSE get(u, n)
    BY UpdateReads
  <1> HIDE DEF v
  <1>2. /\ t.next \in Nat /\ u.next \in Nat /\ t.next <= u.next /\ u.leaves = t.leaves
        /\ b.updated_left = t.next /\ b.updated_right = u.next
        /\ \A i \in 0..(Capacity - 1) : i < t.next => L[i] = M[i]
    BY DEF Grows, Whole, GivenTrue
  <1>3. DOMAIN known = {m \in Node : Untouched(m, b) \/ Padding(m, b) \/ m \in DOMAIN nodes}
    BY SettledIs
  <1> HIDE DEF known
  <1> SUFFICES ASSUME NEW n \in Node, Within(n, g), n \notin Visited(known), n \notin DOMAIN nodes
               PROVE  get(u, n) = HashOf(M, n)
    BY <1>1 DEF GroupRead, v
  <1>4. /\ LeftEdge(n) \in Nat /\ RightEdge(n) \in Nat /\ LeftEdge(n) < RightEdge(n)
        /\ LeftEdge(g) \in Nat /\ RightEdge(g) \in Nat
        /\ LeftEdge(g) <= LeftEdge(n) /\ RightEdge(n) <= RightEdge(g)
    BY NodeIs DEF Within
  <1>5. CASE RightEdge(g) <= t.next /\ GroupRead(t, L, g)
    <2>1. RightEdge(n) <= t.next /\ RightEdge(n) <= u.next
      BY <1>2, <1>4, <1>5
    <2>2. get(u, n) = get(t, n)
      BY <1>2, <2>1 DEF get
    <2>3. get(t, n) = HashOf(L, n)
      BY <1>5 DEF GroupRead
    <2>4. \A i \in Below(n) : L[i] = M[i]
      <3> SUFFICES ASSUME NEW i \in Below(n) PROVE L[i] = M[i]
        OBVIOUS
      <3>1. i \in 0..(Capacity - 1) /\ i < t.next
        BY <1>2, <1>4, <2>1, BelowIs DEF Below
      <3> QED
        BY <1>2, <3>1
    <2> QED
      BY <2>2, <2>3, <2>4, SameLeaves
  <1>6. CASE t.next <= LeftEdge(g) /\ RightEdge(g) <= u.next /\ LeavesGiven(nodes, M, g)
    <2>1. t.next <= LeftEdge(n) /\ RightEdge(n) <= u.next
      BY <1>2, <1>4, <1>6
    <2>2. n \notin DOMAIN u.leaves
      BY <1>2, <1>4, <2>1 DEF StoredTrue
    <2>3. get(u, n) = zero_note_hashes[n[1]]
      BY <2>1, <2>2 DEF get
    <2>4. CASE \E c \in Ancestors(n) : c \in DOMAIN nodes
      <3>1. PICK c \in Ancestors(n) : c \in DOMAIN nodes
        BY <2>4
      <3>2. /\ c \in Node /\ n[1] < c[1] /\ LeftEdge(c) <= LeftEdge(n) /\ RightEdge(n) <= RightEdge(c)
            /\ LeftEdge(c) \in Nat /\ RightEdge(c) \in Nat /\ n[1] \in Nat /\ c[1] \in Nat
        BY <3>1, AboveHas, NodeIs
      <3>3. c[1] # 0 /\ ~ RightEdge(c) <= LeftEdge(g) /\ ~ RightEdge(g) <= LeftEdge(c)
        BY <1>4, <3>2
      <3>4. HashOf(M, c) = zero_note_hashes[c[1]]
        BY <1>6, <3>1, <3>3 DEF LeavesGiven
      <3> QED
        BY <2>3, <3>2, <3>4, ZeroBelow
    <2>5. CASE \A c \in Ancestors(n) : c \notin DOMAIN nodes
      <3>1. PICK a : (a = n \/ a \in Ancestors(n)) /\ a \in DOMAIN known
        BY DEF Visited
      <3>2. /\ a \in Node /\ LeftEdge(a) <= LeftEdge(n) /\ RightEdge(n) <= RightEdge(a)
            /\ LeftEdge(a) \in Nat /\ RightEdge(a) \in Nat
        BY <1>4, <3>1, AboveHas
      <3>3. ~Untouched(a, b)
        BY <1>2, <1>4, <2>1, <3>2 DEF Untouched
      <3>4. Padding(a, b)
        BY <1>3, <2>5, <3>1, <3>3
      <3>5. \A m \in Ancestors(a) : m \notin DOMAIN nodes
        BY <2>5, <3>1, AboveTransitive
      <3>6. HashOf(M, a) = zero_note_hashes[a[1]]
        BY <3>2, <3>4, <3>5 DEF GivenTrue
      <3> QED
        BY <2>3, <3>2, <3>6, ZeroBelow
    <2> QED
      BY <2>4, <2>5
  <1> QED
    BY <1>5, <1>6

\* A group of one leaf is read right if it is known.
LEMMA SingleRead ==
  ASSUME OUTPLUSONELOG = 0, NEW v, NEW M, SeenTrue(v, M), NEW g \in Node, g[1] = 0, Seen(v.first, g)
  PROVE  GroupRead(v, M, g)
  <1> SUFFICES ASSUME NEW m \in Node, Within(m, g) PROVE m = g
    BY DEF GroupRead, SeenTrue
  <1>1. /\ LeftEdge(m) \in Nat /\ RightEdge(m) = LeftEdge(m) + Width[m[1]] /\ m[1] \in 0..HEIGHT
        /\ LeftEdge(g) \in Nat /\ RightEdge(g) = LeftEdge(g) + Width[g[1]]
        /\ LeftEdge(g) <= LeftEdge(m) /\ RightEdge(m) <= RightEdge(g)
    BY NodeIs DEF Within
  <1>2. Width[g[1]] = 1 /\ Width[m[1]] \in Nat /\ Width[m[1]] >= 1
    BY <1>1, WidthIs, WidthPositive
  <1>3. Width[m[1]] = 1 /\ LeftEdge(m) = LeftEdge(g)
    BY <1>1, <1>2
  <1>4. m[1] = 0
    <2> SUFFICES ASSUME m[1] # 0 PROVE FALSE
      OBVIOUS
    <2>1. m[1] \in 1..HEIGHT /\ m[1] - 1 \in 0..HEIGHT
      BY <1>1, SizesAssumption
    <2>2. Width[m[1]] = 2 * Width[m[1] - 1] /\ Width[m[1] - 1] \in Nat
      BY <2>1, WidthIs, WidthPositive
    <2> QED
      BY <1>3, <2>2
  <1> QED
    BY <1>3, <1>4, SameEdge

\* What has to be known of a leaf that is given: of its group the tree has read all,
\* or gets it now.
Tells(t, L, u, nodes, M, g) ==
  /\ Seen(u.first, g)
  /\ \/ OUTPLUSONELOG = 0
     \/ RightEdge(g) <= t.next /\ GroupRead(t, L, g)
     \/ t.next <= LeftEdge(g) /\ LeavesGiven(nodes, M, g)

\* Such an update keeps the groups with stored leaves readable.
LEMMA LeavesReadKept ==
  ASSUME NEW t \in Trees(Values), NEW L, Holds(t, L), LeavesRead(t, L),
         NEW M, NEW start, Whole(start),
         NEW e, Whole(e), start < e, e <= Capacity, Extends(t, L, M, start, e),
         NEW nodes, NEW b, GivenTrue(t, Indexed(t, e, start), M, nodes, b),
         \A n \in DOMAIN nodes : n[1] = 0 =>
            Tells(t, L, Indexed(t, e, start), nodes, M, Above(n, OUTPLUSONELOG))
  PROVE  LeavesRead(Updated(Indexed(t, e, start), nodes, b), M)
  <1> DEFINE u == Indexed(t, e, start)
             v == Updated(u, nodes, b)
  <1>1. /\ v \in Trees(Values) /\ Holds(v, M) /\ SameIndexes(u, v)
        /\ \A m \in DOMAIN v.leaves : m[1] = 0 => m \in DOMAIN t.leaves \/ m \in DOMAIN nodes
    BY UpdateHolds DEF Updated
  <1>2. v.first = u.first /\ SeenTrue(v, M) /\ DOMAIN v.leaves \subseteq Node
    BY <1>1, PartialIs DEF SameIndexes, Holds, Trees
  <1>3. /\ Grows(t, L, u, M) /\ StoredTrue(t, L) /\ SeenTrue(t, L) /\ DOMAIN t.leaves \subseteq Node
        /\ Whole(t.next) /\ t.next \in Nat /\ (t.first = None => t.next = 0)
    BY IndexedGrows, PartialIs DEF Holds, Trees, Whole
  <1>4. M \in Vectors(Values) /\ NoneIsNoHash(Values)
    BY NoneIsNoValue DEF Extends
  <1>5. u \in Trees(Values)
    BY IndexedIs DEF Whole
  <1>6. Whole(u.next) /\ u.next \in Nat /\ t.next <= u.next /\ (t.first # None => u.first = t.first)
    BY <1>3 DEF Grows, Whole
  <1>7. GivenTrue(t, u, M, nodes, b)
        /\ \A n \in DOMAIN nodes : n[1] = 0 => Tells(t, L, u, nodes, M, Above(n, OUTPLUSONELOG))
    OBVIOUS
  <1>8. \A n \in DOMAIN nodes : LeftEdge(n) < u.next
    BY <1>7 DEF GivenTrue
  <1> HIDE DEF u
  <1>9. ASSUME NEW g \in Node,
               \/ RightEdge(g) <= t.next /\ GroupRead(t, L, g)
               \/ t.next <= LeftEdge(g) /\ RightEdge(g) <= u.next /\ LeavesGiven(nodes, M, g)
        PROVE  GroupRead(v, M, g)
    <2>1. GroupRead(put_hashes(u, virtual_subtree(u, nodes, b)), M, g)
      BY <1>3, <1>4, <1>5, <1>7, <1>9, GroupUpdated
    <2> QED
      BY <2>1 DEF Updated
  <1> HIDE DEF v
  <1> SUFFICES ASSUME NEW n \in DOMAIN v.leaves, n[1] = 0
               PROVE  Seen(v.first, Above(n, OUTPLUSONELOG)) /\ GroupRead(v, M, Above(n, OUTPLUSONELOG))
    BY DEF LeavesRead, v, u
  <1> DEFINE g == Above(n, OUTPLUSONELOG)
  <1>10. /\ g \in Node /\ g[1] = OUTPLUSONELOG /\ RightEdge(g) = LeftEdge(g) + GroupSize
         /\ Whole(LeftEdge(g)) /\ LeftEdge(g) <= n[2] /\ LeftEdge(n) = n[2] /\ n[2] \in Nat
    BY <1>2, GroupAbove
  <1> HIDE DEF g
  <1>11. LeftEdge(g) \in Nat
    BY <1>10 DEF Whole
  <1>12. CASE n \in DOMAIN t.leaves
    <2>1. Seen(t.first, g) /\ GroupRead(t, L, g)
      BY <1>12 DEF LeavesRead, g
    <2>2. LeftEdge(n) < t.next
      BY <1>3, <1>12 DEF StoredTrue
    <2>3. LeftEdge(g) < t.next /\ t.first # None
      BY <1>3, <1>10, <1>11, <2>2
    <2>4. RightEdge(g) <= t.next
      BY <1>3, <1>10, <2>3, NextWhole
    <2>5. GroupRead(v, M, g)
      BY <1>9, <1>10, <2>1, <2>4
    <2> QED
      BY <1>2, <1>6, <2>1, <2>3, <2>5 DEF g
  <1>13. CASE n \in DOMAIN nodes
    <2>1. Tells(t, L, u, nodes, M, g)
      BY <1>7, <1>13 DEF g
    <2>2. Seen(v.first, g)
      BY <1>2, <2>1 DEF Tells
    <2>3. LeftEdge(g) < u.next
      BY <1>6, <1>8, <1>10, <1>11, <1>13
    <2>4. RightEdge(g) <= u.next
      BY <1>6, <1>10, <2>3, NextWhole
    <2>5. CASE OUTPLUSONELOG = 0
      <3>1. GroupRead(v, M, g)
        BY <1>2, <1>10, <2>2, <2>5, SingleRead
      <3> QED
        BY <2>2, <3>1 DEF g
    <2>6. CASE OUTPLUSONELOG # 0
      <3>1. GroupRead(v, M, g)
        BY <1>9, <1>10, <2>1, <2>4, <2>6 DEF Tells
      <3> QED
        BY <2>2, <3>1 DEF g
    <2> QED
      BY <2>5, <2>6
  <1> QED
    BY <1>1, <1>12, <1>13

\* A group that starts where the tree does, or behind, is known.
LEMMA GroupSeen ==
  ASSUME NEW g \in Node, g[1] = OUTPLUSONELOG, NEW first, first \in Nat, first <= LeftEdge(g)
  PROVE  Seen(first, g)
  <1>1. LeftEdge(g) \in Nat /\ RightEdge(g) \in Nat /\ LeftEdge(g) < RightEdge(g)
    BY NodeIs
  <1>2. first < RightEdge(g)
    BY <1>1
  <1>3. OUTPLUSONELOG <= g[1]
    BY SizesAssumption
  <1> QED
    BY <1>2, <1>3 DEF Seen

\* The nodes given for a batch are leaves, zero notes and the nodes of groups.
LEMMA GivenKinds ==
  ASSUME NEW batch, NEW start, NEW n, IsBatch(batch, start, n), NEW M, BatchIn(batch, M),
         NEW c \in DOMAIN GivenNodes(batch)
  PROVE  \/ c[1] = 0 \/ HashOf(M, c) = zero_note_hashes[c[1]]
         \/ \E i \in OfKind(batch, "commitment") : c = Above(<<0, i>>, OUTPLUSONELOG)
  <1>1. GivenNodes(batch)[c] = HashOf(M, c)
    BY GivenNodesTrue
  <1> DEFINE commitments == {Above(<<0, i>>, OUTPLUSONELOG) : i \in OfKind(batch, "commitment")}
             leafs == UNION {{<<0, j>> : j \in i..LastLeaf(batch, i)} : i \in OfKind(batch, "leafs")}
             padding == UNION {PaddingNodes(i, LastLeaf(batch, i)) : i \in OfKind(batch, "leafs")}
  <1>2. c \in commitments \/ c \in leafs \/ c \in padding
    BY DEF GivenNodes
  <1>3. c \notin commitments /\ c \notin leafs => GivenNodes(batch)[c] = zero_note_hashes[c[1]]
    BY DEF GivenNodes
  <1>4. c \in leafs => c[1] = 0
    OBVIOUS
  <1> QED
    BY <1>1, <1>2, <1>3, <1>4

\* add_leafs_commitments_and_siblings keeps the groups with stored leaves readable.
LEMMA BatchLeavesRead ==
  ASSUME NEW t \in Trees(Values), NEW L, Holds(t, L), LeavesRead(t, L), NEW M,
         NEW batch, NEW start, NEW n, IsBatch(batch, start, n), BatchIn(batch, M),
         RetoldLeaves(t, batch),
         NEW e, e = start + n * GroupSize, Extends(t, L, M, start, e),
         NEW siblings, SiblingsTrue(t, siblings, M, start),
         \A m \in DOMAIN siblings : Seen(start, m)
  PROVE  LeavesRead(Last(add_leafs_commitments_and_siblings(t, batch, siblings)), M)
  <1> DEFINE u == Indexed(t, e, start)
             nodes == BatchNodes(batch, siblings)
             b == BatchRange(t, u, batch, siblings, start)
  <1>1. /\ Last(add_leafs_commitments_and_siblings(t, batch, siblings)) = Updated(u, nodes, b)
        /\ GivenTrue(t, u, M, nodes, b)
    BY AddIs
  <1>2. DOMAIN nodes = DOMAIN GivenNodes(batch) \cup DOMAIN siblings
    BY DEF BatchNodes
  <1>3. /\ start \in Nat /\ e \in Nat /\ Whole(e) /\ Whole(start) /\ start < e /\ e <= Capacity
        /\ \A i \in DOMAIN batch : i \in Nat /\ Whole(i) /\ start <= i /\ i + GroupSize <= Capacity
        /\ \A j \in Nat : start <= j /\ j < e => calc_first_index(j) \in DOMAIN batch
    BY BatchIs DEF IsBatch
  <1>4. /\ t.next \in Nat /\ Whole(t.next) /\ DOMAIN t.leaves \subseteq Node
        /\ t.first = None => t.next = 0
        /\ t.first # None => t.first \in Nat /\ t.first < t.next
    BY PartialIs DEF Holds, Trees, Whole
  <1>5. u.first \in Nat /\ u.first <= start /\ (t.first = None => u.first = start)
    <2>1. u.first = IF t.first = None \/ start < t.first THEN start ELSE t.first
      BY <1>3, IndexedIs
    <2>2. t.first = None \/ t.first <= start
      BY DEF Extends
    <2> HIDE DEF u
    <2> QED
      BY <1>3, <1>4, <2>1, <2>2
  <1> HIDE DEF u, nodes, b
  <1>6. ASSUME NEW m \in DOMAIN GivenNodes(batch), m[1] = 0
        PROVE  Tells(t, L, u, nodes, M, Above(m, OUTPLUSONELOG))
    <2> DEFINE g == Above(m, OUTPLUSONELOG)
               i == calc_first_index(m[2])
    <2>1. /\ m \in Node /\ start <= LeftEdge(m) /\ RightEdge(m) <= e
          /\ ToldLeaf(batch, m[2]) \/ OUTPLUSONELOG = 0
      BY <1>6, GivenNodesTrue
    <2>2. /\ g \in Node /\ g[1] = OUTPLUSONELOG /\ LeftEdge(g) = i
          /\ g = Above(<<0, i>>, OUTPLUSONELOG)
          /\ RightEdge(g) = LeftEdge(g) + GroupSize /\ Whole(LeftEdge(g))
          /\ LeftEdge(m) = m[2] /\ RightEdge(m) = m[2] + 1 /\ m[2] \in Nat
      BY <1>6, <2>1, GroupAbove
    <2> HIDE DEF g, i
    <2>3. i \in DOMAIN batch
      <3>1. start <= m[2] /\ m[2] < e
        BY <1>3, <2>1, <2>2
      <3> QED
        BY <1>3, <2>2, <3>1 DEF i
    <2>4. i \in Nat /\ Whole(i) /\ start <= i /\ u.first <= i
      BY <1>3, <1>5, <2>3
    <2>5. Seen(u.first, g)
      BY <1>5, <2>2, <2>4, GroupSeen
    <2>6. CASE OUTPLUSONELOG = 0
      BY <2>5, <2>6 DEF Tells, g
    <2>7. CASE OUTPLUSONELOG # 0 /\ i < t.next
      <3>1. batch[i].kind = "leafs"
        BY <2>1, <2>7 DEF ToldLeaf, i
      <3>2. <<0, i>> \in DOMAIN t.leaves
        BY <2>3, <2>7, <3>1 DEF RetoldLeaves
      <3>3. GroupRead(t, L, g)
        <4>1. <<0, i>>[1] = 0
          OBVIOUS
        <4> QED
          BY <2>2, <3>2, <4>1 DEF LeavesRead
      <3>4. RightEdge(g) <= t.next
        BY <1>4, <2>2, <2>7, NextWhole
      <3> QED
        BY <2>5, <3>3, <3>4 DEF Tells, g
    <2>8. CASE OUTPLUSONELOG # 0 /\ ~ i < t.next
      <3>1. batch[i].kind = "leafs"
        BY <2>1, <2>8 DEF ToldLeaf, i
      <3>2. t.next <= LeftEdge(g)
        BY <1>4, <2>2, <2>4, <2>8
      <3>3. ASSUME NEW c \in DOMAIN nodes
            PROVE  \/ c[1] = 0
                   \/ RightEdge(c) <= LeftEdge(g) \/ RightEdge(g) <= LeftEdge(c)
                   \/ HashOf(M, c) = zero_note_hashes[c[1]]
        <4>1. CASE c \in DOMAIN siblings
          <5>1. c \in Node /\ RightEdge(c) <= start
            BY <4>1 DEF SiblingsTrue
          <5>2. RightEdge(c) \in Nat
            BY <5>1, NodeIs
          <5> QED
            BY <1>3, <2>2, <2>4, <5>1, <5>2
        <4>2. CASE c \in DOMAIN GivenNodes(batch)
          <5> SUFFICES ASSUME NEW k \in OfKind(batch, "commitment"),
                              c = Above(<<0, k>>, OUTPLUSONELOG),
                              ~ RightEdge(c) <= LeftEdge(g), ~ RightEdge(g) <= LeftEdge(c)
                       PROVE  FALSE
            BY <4>2, GivenKinds
          <5>1. k \in DOMAIN batch /\ batch[k].kind = "commitment"
            BY DEF OfKind
          <5>2. Whole(k) /\ k + GroupSize <= Capacity
            BY <1>3, <5>1
          <5>3. c \in Node /\ c[1] = OUTPLUSONELOG /\ LeftEdge(c) = k
            BY <5>2, GroupNode
          <5>4. LeftEdge(c) < RightEdge(g) /\ LeftEdge(g) < RightEdge(c)
            <6>1. /\ LeftEdge(c) \in Nat /\ RightEdge(c) \in Nat
                  /\ LeftEdge(g) \in Nat /\ RightEdge(g) \in Nat
              BY <2>2, <5>3, NodeIs
            <6> QED
              BY <6>1
          <5>5. c = g
            BY <2>2, <5>3, <5>4, SameLevel
          <5>6. k = i
            BY <2>2, <5>3, <5>5
          <5> QED
            BY <3>1, <5>1, <5>6
        <4> QED
          BY <1>2, <4>1, <4>2
      <3>4. LeavesGiven(nodes, M, g)
        BY <3>3 DEF LeavesGiven
      <3> QED
        BY <2>5, <3>2, <3>4 DEF Tells, g
    <2> QED
      BY <2>6, <2>7, <2>8
  <1>7. ASSUME NEW m \in DOMAIN siblings, m[1] = 0
        PROVE  Tells(t, L, u, nodes, M, Above(m, OUTPLUSONELOG))
    <2>1. m \in Node /\ OUTPLUSONELOG <= m[1] /\ t.next = 0 /\ Seen(start, m)
      BY DEF SiblingsTrue
    <2>2. OUTPLUSONELOG = 0
      BY <1>7, <2>1, SizesAssumption
    <2>3. u.first = start
      BY <1>4, <1>5, <2>1
    <2>4. Above(m, OUTPLUSONELOG) = m
      <3>1. /\ LeftEdge(m) \in Nat /\ RightEdge(m) \in Nat /\ LeftEdge(m) < RightEdge(m)
        BY <2>1, NodeIs
      <3>2. m = Above(m, m[1])
        BY <1>7, <2>1, <3>1, AboveUnique
      <3> QED
        BY <1>7, <2>2, <3>2
    <2> QED
      BY <2>1, <2>2, <2>3, <2>4 DEF Tells
  <1>8. \A m \in DOMAIN nodes : m[1] = 0 => Tells(t, L, u, nodes, M, Above(m, OUTPLUSONELOG))
    BY <1>2, <1>6, <1>7
  <1>9. LeavesRead(Updated(u, nodes, b), M)
    BY <1>1, <1>3, <1>8, LeavesReadKept DEF u
  <1> QED
    BY <1>1, <1>9

\* add_hashes does as well.
LEMMA HashesLeavesRead ==
  ASSUME NEW t \in Trees(Values), NEW L, Holds(t, L), LeavesRead(t, L), NEW M,
         NEW tx \in GroupTxs, tx.kind = "leafs", NEW start, Whole(start),
         start < t.next => <<0, start>> \in DOMAIN t.leaves,
         NEW e, e = start + GroupSize, e <= Capacity, Extends(t, L, M, start, e),
         \A k \in 1..GroupSize : M[start + k - 1] = TxLeaves(tx)[k],
         \A j \in Nat : t.next <= j /\ j < start => M[j] = ZeroNote
  PROVE  LeavesRead(Last(add_hashes(t, start, TxLeaves(tx))), M)
  <1> DEFINE u == Indexed(t, e, start)
             nodes == HashNodes(tx.leafs, start)
             b == HashRange(t, u, tx.leafs, start)
             g == Above(<<0, start>>, OUTPLUSONELOG)
  <1>1. /\ Last(add_hashes(t, start, TxLeaves(tx))) = Updated(u, nodes, b)
        /\ GivenTrue(t, u, M, nodes, b)
        /\ \A m \in DOMAIN nodes : m[1] = 0 /\ m[2] \in Nat /\ start <= m[2] /\ m[2] < e
    BY AddHashesIs
  <1>2. /\ start \in Nat /\ GroupSize \in Nat /\ GroupSize >= 1 /\ e \in Nat /\ start < e
    BY GroupSizeIs DEF Whole
  <1>3. /\ t.next \in Nat /\ Whole(t.next)
        /\ t.first = None => t.next = 0
        /\ t.first # None => t.first \in Nat /\ t.first < t.next
    BY DEF Holds, Whole
  <1>4. u.first \in Nat /\ u.first <= start
    <2>1. u.first = IF t.first = None \/ start < t.first THEN start ELSE t.first
      BY <1>2, IndexedIs
    <2>2. t.first = None \/ t.first <= start
      BY DEF Extends
    <2> HIDE DEF u
    <2> QED
      BY <1>2, <1>3, <2>1, <2>2
  <1>5. g \in Node /\ g[1] = OUTPLUSONELOG /\ LeftEdge(g) = start /\ RightEdge(g) = e
    BY GroupNode
  <1>6. \A m \in DOMAIN nodes : m \in Node
    BY <1>1 DEF GivenTrue
  <1> HIDE DEF u, nodes, b, g
  <1>7. Seen(u.first, g)
    BY <1>4, <1>5, GroupSeen
  <1>8. Tells(t, L, u, nodes, M, g)
    <2>1. CASE start < t.next
      <3>1. <<0, start>>[1] = 0 /\ <<0, start>> \in DOMAIN t.leaves
        BY <2>1
      <3>2. GroupRead(t, L, g)
        BY <3>1 DEF LeavesRead, g
      <3>3. RightEdge(g) <= t.next
        BY <1>3, <1>5, <2>1, NextWhole
      <3> QED
        BY <1>7, <3>2, <3>3 DEF Tells
    <2>2. CASE ~ start < t.next
      <3>1. t.next <= LeftEdge(g)
        BY <1>2, <1>3, <1>5, <2>2
      <3>2. LeavesGiven(nodes, M, g)
        BY <1>1 DEF LeavesGiven
      <3> QED
        BY <1>7, <3>1, <3>2 DEF Tells
    <2> QED
      BY <2>1, <2>2
  <1>9. ASSUME NEW m \in DOMAIN nodes, m[1] = 0
        PROVE  Tells(t, L, u, nodes, M, Above(m, OUTPLUSONELOG))
    <2>1. m \in Node /\ m[2] \in Nat /\ start <= m[2] /\ m[2] < start + GroupSize
      BY <1>1, <1>6
    <2>2. calc_first_index(m[2]) = start
      BY <2>1, GroupUnique
    <2>3. Above(m, OUTPLUSONELOG) = g
      BY <1>9, <2>1, <2>2, GroupAbove DEF g
    <2> QED
      BY <1>8, <2>3
  <1>10. \A m \in DOMAIN nodes : m[1] = 0 => Tells(t, L, u, nodes, M, Above(m, OUTPLUSONELOG))
    BY <1>9
  <1>11. Whole(e)
    <2>1. start <= start /\ start < start + GroupSize
      BY <1>2
    <2>2. calc_next_index(start) = e
      BY <1>2, <2>1, GroupUnique
    <2> QED
      BY <1>2, <2>2, GroupOf
  <1>12. LeavesRead(Updated(u, nodes, b), M)
    BY <1>1, <1>2, <1>10, <1>11, LeavesReadKept DEF u
  <1> QED
    BY <1>1, <1>12

\* A group with a stored leaf, before some end up to which nothing is read worse
\* than it was, stays known and read right.
LEMMA LeafKept ==
  ASSUME NEW t \in Trees(Values), NEW L, LeavesRead(t, L), NEW M, NEW v,
         NEW n \in DOMAIN t.leaves, n[1] = 0, v.first = t.first,
         NEW e, Whole(e), RightEdge(n) <= e,
         \A i \in 0..(Capacity - 1) : i < e => L[i] = M[i],
         \A m \in Node : RightEdge(m) <= e => get(v, m) \in {get(t, m), HashOf(M, m)}
  PROVE  Seen(v.first, Above(n, OUTPLUSONELOG)) /\ GroupRead(v, M, Above(n, OUTPLUSONELOG))
  <1> DEFINE g == Above(n, OUTPLUSONELOG)
  <1>1. n \in Node
    BY PartialIs DEF Trees
  <1>2. /\ g \in Node /\ RightEdge(g) = LeftEdge(g) + GroupSize /\ Whole(LeftEdge(g))
        /\ LeftEdge(g) <= n[2] /\ RightEdge(n) = n[2] + 1 /\ n[2] \in Nat
    BY <1>1, GroupAbove
  <1>3. Seen(t.first, g) /\ GroupRead(t, L, g)
    BY DEF LeavesRead
  <1> HIDE DEF g
  <1>4. e \in Nat /\ LeftEdge(g) \in Nat
    BY <1>2 DEF Whole
  <1>5. LeftEdge(g) < e
    BY <1>2, <1>4
  <1>6. RightEdge(g) <= e
    BY <1>2, <1>5, NextWhole
  <1>7. ASSUME NEW m \in Node, Within(m, g) PROVE get(v, m) = HashOf(M, m)
    <2>1. RightEdge(m) <= RightEdge(g) /\ RightEdge(m) \in Nat /\ RightEdge(g) \in Nat
      BY <1>2, <1>7, NodeIs DEF Within
    <2>2. RightEdge(m) <= e
      BY <1>4, <1>6, <2>1
    <2>3. get(t, m) = HashOf(L, m)
      BY <1>3, <1>7 DEF GroupRead
    <2>4. \A i \in Below(m) : L[i] = M[i]
      <3> SUFFICES ASSUME NEW i \in Below(m) PROVE L[i] = M[i]
        OBVIOUS
      <3>1. i \in 0..(Capacity - 1) /\ i < e
        BY <1>4, <2>1, <2>2, BelowIs DEF Below
      <3> QED
        BY <3>1
    <2>5. HashOf(L, m) = HashOf(M, m)
      BY <2>4, SameLeaves
    <2> QED
      BY <2>2, <2>3, <2>5
  <1> QED
    BY <1>3, <1>7 DEF GroupRead, g

\* A rollback keeps the groups before its end, and removes the others.
LEMMA RollbackLeavesRead ==
  ASSUME NEW t \in Trees(Values), NEW L \in Vectors(Values), Holds(t, L), LeavesRead(t, L),
         NEW r, Whole(r), r <= t.next, rollback(t, r).root # None
  PROVE  LeavesRead(Last(rollback(t, r).writes), Cut(L, CutPoint(t, r)))
  <1> DEFINE e == CutPoint(t, r)
             s == Shortened(t, e)
             w == rebuild(s, e)
             v == reset_stable_index(w)
             M == Cut(L, e)
  <1>1. /\ e \in Nat /\ Whole(e)
        /\ rollback(t, r).root = rebuilt_node(s, e, Root)
        /\ Last(rollback(t, r).writes) = v
    BY RollbackIs
  <1>2. /\ t.next \in Nat /\ t.next <= Capacity /\ FilledTo(L, t.next) /\ StoredTrue(t, L)
        /\ DOMAIN t.leaves \subseteq Node
    BY PartialIs DEF Holds, Whole, Trees
  <1>3. e <= t.next
    BY <1>2 DEF CutPoint, Whole
  <1>4. Default \in Values /\ NoneIsNoHash(Values)
    BY NoneIsNoValue DEF Values
  <1> HIDE DEF e
  <1>5. /\ s \in Trees(Values) /\ Truncated(s, L, e)
        /\ s.first = IF e = 0 THEN None ELSE t.first
        /\ DOMAIN s.leaves = {n \in DOMAIN t.leaves : RightEdge(n) <= e}
    <2>1. TrueBelow(t, L, e)
      BY <1>2 DEF TrueBelow, StoredTrue
    <2> QED
      BY <1>1, <2>1, ShortenedIs
  <1> HIDE DEF s
  <1>6. rebuilt_node(s, e, Root) # None
    BY <1>1
  <1>7. /\ w \in Trees(Values) /\ SameIndexes(s, w)
        /\ \A n \in Node : RightEdge(n) <= e => get(w, n) \in {get(s, n), HashOf(M, n)}
        /\ \A n \in DOMAIN w.leaves : n[1] = 0 => n \in DOMAIN s.leaves
    BY <1>1, <1>2, <1>3, <1>4, <1>5, <1>6, RebuildTrue
  <1> HIDE DEF w, M
  <1>8. v.leaves = w.leaves /\ v.next = w.next /\ v.first = w.first
    BY <1>7 DEF reset_stable_index, Trees
  <1> HIDE DEF v
  <1>9. w.next = e /\ s.next = e /\ w.first = s.first
    BY <1>5, <1>7 DEF SameIndexes, Truncated
  <1>10. \A i \in 0..(Capacity - 1) : i < e => L[i] = M[i]
    BY DEF M, Cut
  <1>11. ASSUME NEW m \in Node, RightEdge(m) <= e PROVE get(v, m) \in {get(t, m), HashOf(M, m)}
    <2>1. get(v, m) = get(w, m)
      BY <1>8 DEF get
    <2>2. RightEdge(m) \in Nat /\ RightEdge(m) <= t.next
      BY <1>1, <1>2, <1>3, <1>11, NodeIs
    <2>3. CASE m \in DOMAIN s.leaves
      <3>1. m \in DOMAIN t.leaves /\ s.leaves[m] = HashOf(L, m) /\ t.leaves[m] = HashOf(L, m)
        BY <1>2, <1>5, <2>3 DEF Truncated, StoredTrue
      <3>2. get(s, m) = get(t, m)
        BY <2>3, <3>1 DEF get
      <3> QED
        BY <1>7, <1>11, <2>1, <3>2
    <2>4. CASE m \notin DOMAIN s.leaves
      <3>1. m \notin DOMAIN t.leaves
        BY <1>5, <1>11, <2>4
      <3>2. get(s, m) = get(t, m)
        BY <1>9, <1>11, <2>2, <2>4, <3>1 DEF get
      <3> QED
        BY <1>7, <1>11, <2>1, <3>2
    <2> QED
      BY <2>3, <2>4
  <1>12. LeavesRead(v, M)
    <2> SUFFICES ASSUME NEW n \in DOMAIN v.leaves, n[1] = 0
                 PROVE  Seen(v.first, Above(n, OUTPLUSONELOG)) /\ GroupRead(v, M, Above(n, OUTPLUSONELOG))
      BY DEF LeavesRead
    <2>1. n \in DOMAIN t.leaves /\ RightEdge(n) <= e
      BY <1>5, <1>7, <1>8
    <2>2. e # 0
      <3>1. RightEdge(n) \in Nat /\ LeftEdge(n) \in Nat /\ LeftEdge(n) < RightEdge(n)
        BY <1>2, <2>1, NodeIs
      <3> QED
        BY <2>1, <3>1
    <2>3. v.first = t.first
      BY <1>5, <1>8, <1>9, <2>2
    <2> QED
      BY <1>1, <1>10, <1>11, <2>1, <2>3, LeafKept
  <1> QED
    BY <1>1, <1>12 DEF M, e

\* A commitment changes no node below a group.
LEMMA CommitmentLeavesRead ==
  ASSUME NEW t \in Trees(Values), NEW L, Holds(t, L), LeavesRead(t, L), NEW M,
         NEW start, Whole(start), start <= t.next,
         NEW e, e = start + GroupSize, e <= Capacity, Extends(t, L, M, start, e),
         NEW g \in Node, g[1] = OUTPLUSONELOG, LeftEdge(g) = start, RightEdge(g) = e
  PROVE  LeavesRead(Last(AddedHash(t, g, HashOf(M, g))), M)
  <1> DEFINE u == Indexed(t, e, start)
             path == {g} \cup Ancestors(g)
             hashes == [m \in path |-> HashOf(M, m)]
             w == put_hashes(u, hashes)
             v == Last(AddedHash(t, g, HashOf(M, g)))
  <1>1. /\ v \in Trees(Values) /\ Holds(v, M) /\ SameIndexes(u, v)
        /\ \A m \in DOMAIN v.leaves : m[1] = 0 => m \in DOMAIN t.leaves \/ OUTPLUSONELOG = 0
    BY CommitmentTrue
  <1>2. M \in Vectors(Values)
    BY DEF Extends
  <1>3. v = u \/ v = w
    <2>1. \A h \in g[1]..(HEIGHT - 1) :
            get(Indexed(t, e, start), Sibling(Above(g, h))) = HashOf(M, Sibling(Above(g, h)))
      BY BesideTrue
    <2>2. v = IF HashOf(M, g) = zero_note_hashes[g[1]] /\ e < t.next THEN u ELSE w
      BY <1>2, <2>1, CommitmentWrites
    <2> HIDE DEF u, v, w
    <2> QED
      BY <2>2
  <1>4. /\ start \in Nat /\ GroupSize \in Nat /\ GroupSize >= 1 /\ e \in Nat /\ start < e
        /\ OUTPLUSONELOG \in 0..HEIGHT
        /\ t.next \in Nat /\ Whole(t.next) /\ StoredTrue(t, L)
        /\ t.first = None => t.next = 0
        /\ t.first # None => t.first \in Nat
    BY GroupSizeIs, SizesAssumption DEF Whole, Holds
  <1>5. /\ u \in Trees(Values) /\ u.leaves = t.leaves
        /\ u.next = IF e >= t.next THEN e ELSE t.next
        /\ u.first = IF t.first = None \/ start < t.first THEN start ELSE t.first
    <2>1. start \in Nat /\ e \in Nat
      BY <1>4
    <2>2. u \in Trees(Values) /\ u.leaves = t.leaves
      BY <2>1, IndexedIs
    <2>3. u.next = IF e >= t.next THEN e ELSE t.next
      BY <2>1, IndexesAre
    <2>4. u.first = IF t.first = None \/ start < t.first THEN start ELSE t.first
      BY <2>1, IndexedIs
    <2> QED
      BY <2>2, <2>3, <2>4
  <1>6. t.first = None \/ t.first <= start
    BY DEF Extends
  <1> HIDE DEF u
  <1>7. t.next <= u.next /\ u.first \in Nat /\ u.first <= start
        /\ (t.first # None => u.first = t.first)
    BY <1>4, <1>5, <1>6
  <1>8. v.first = u.first /\ v.next = u.next /\ SeenTrue(v, M) /\ DOMAIN v.leaves \subseteq Node
        /\ DOMAIN t.leaves \subseteq Node
    BY <1>1, PartialIs DEF SameIndexes, Holds, Trees
  <1>9. path \subseteq Node
    BY AboveHas
  <1> HIDE DEF path
  <1>10. hashes \in PartialHashes(Values) /\ DOMAIN hashes = path
    <2>1. \A m \in path : HashOf(M, m) \in Seq(Values)
      <3> SUFFICES ASSUME NEW m \in path PROVE HashOf(M, m) \in Seq(Values)
        OBVIOUS
      <3>1. HashOf(M, m) \in [1..Width[m[1]] -> Values] /\ Width[m[1]] \in Nat
        BY <1>2, <1>9, HashType, NodeIs
      <3> QED
        BY <3>1
    <2>2. hashes \in [path -> Seq(Values)]
      BY <2>1
    <2> QED
      BY <1>9, <2>2, PartialMake
  <1> HIDE DEF hashes
  <1>11. w.leaves = PutLeaves(u.leaves, hashes)
    BY <1>5, <1>10, PutHashesIs
  <1> HIDE DEF w
  <1>12. \A m \in Node : m \notin path =>
           /\ m \in DOMAIN w.leaves <=> m \in DOMAIN u.leaves
           /\ m \in DOMAIN u.leaves => w.leaves[m] = u.leaves[m]
    BY <1>10, <1>11 DEF PutLeaves, Stored
  <1> HIDE DEF v
  <1>13. ASSUME NEW m \in Node, RightEdge(m) <= t.next PROVE get(v, m) \in {get(t, m), HashOf(M, m)}
    <2>1. RightEdge(m) \in Nat /\ RightEdge(m) <= v.next
      BY <1>4, <1>5, <1>7, <1>8, <1>13, NodeIs
    <2>2. CASE m \in path
      <3>1. m \in {g} \cup Ancestors(g)
        BY <2>2 DEF path
      <3>2. /\ RightEdge(g) <= RightEdge(m) /\ g[1] <= m[1]
        <4>1. RightEdge(g) \in Nat /\ g[1] \in Nat
          BY NodeIs
        <4>2. CASE m = g
          BY <4>1, <4>2
        <4>3. CASE m \in Ancestors(g)
          <5>1. RightEdge(g) <= RightEdge(m) /\ g[1] < m[1] /\ m[1] \in Nat
            BY <4>3, AboveHas, NodeIs
          <5> QED
            BY <4>1, <5>1
        <4> QED
          BY <3>1, <4>2, <4>3
      <3>3. v.first < RightEdge(m) /\ OUTPLUSONELOG <= m[1]
        BY <1>4, <1>7, <1>8, <2>1, <3>2
      <3>4. Seen(v.first, m)
        BY <3>3 DEF Seen
      <3> QED
        BY <1>8, <3>4 DEF SeenTrue
    <2>3. CASE m \notin path
      <3>1. /\ m \in DOMAIN v.leaves <=> m \in DOMAIN t.leaves
            /\ m \in DOMAIN t.leaves => v.leaves[m] = t.leaves[m]
        BY <1>3, <1>5, <1>12, <2>3
      <3> QED
        BY <1>13, <2>1, <3>1 DEF get
    <2> QED
      BY <2>2, <2>3
  <1>14. \A i \in 0..(Capacity - 1) : i < t.next => L[i] = M[i]
    BY DEF Extends
  <1>15. ASSUME NEW n \in DOMAIN v.leaves, n[1] = 0
         PROVE  Seen(v.first, Above(n, OUTPLUSONELOG)) /\ GroupRead(v, M, Above(n, OUTPLUSONELOG))
    <2>1. CASE n \in DOMAIN t.leaves
      <3>1. LeftEdge(n) < t.next /\ RightEdge(n) = LeftEdge(n) + 1 /\ LeftEdge(n) \in Nat
        <4>1. n \in Node
          BY <1>8, <2>1
        <4>2. LeftEdge(n) = n[2] /\ RightEdge(n) = n[2] + 1 /\ n[2] \in Nat
          BY <1>15, <4>1, GroupAbove
        <4> QED
          BY <1>4, <2>1, <4>2 DEF StoredTrue
      <3>2. RightEdge(n) <= t.next /\ v.first = t.first
        BY <1>4, <1>7, <1>8, <3>1
      <3> QED
        BY <1>4, <1>13, <1>14, <1>15, <2>1, <3>2, LeafKept
    <2>2. CASE n \notin DOMAIN t.leaves
      <3>1. OUTPLUSONELOG = 0 /\ n \in Node
        BY <1>1, <1>8, <1>15, <2>2 DEF v
      <3>2. n \in path
        BY <1>3, <1>5, <1>12, <2>2, <3>1
      <3>3. n = g
        <4>1. CASE n \in Ancestors(g)
          <5>1. g[1] < n[1] /\ g[1] \in Nat
            BY <4>1, AboveHas, NodeIs
          <5> QED
            BY <1>15, <5>1
        <4> QED
          BY <3>2, <4>1 DEF path
      <3>4. Above(n, OUTPLUSONELOG) = g
        <4>1. g = Above(g, g[1])
          BY NodeIs, AboveUnique
        <4> QED
          BY <3>3, <4>1
      <3>5. Seen(v.first, g)
        BY <1>7, <1>8, GroupSeen
      <3>6. GroupRead(v, M, g)
        BY <1>8, <3>1, <3>5, SingleRead
      <3> QED
        BY <3>4, <3>5, <3>6
    <2> QED
      BY <2>1, <2>2
  <1> QED
    BY <1>15 DEF LeavesRead, v

\* What the wallet can read of the leaves it stores.
Readable == LeavesRead(tree, ledger)

\* Every action keeps it.
LEMMA DeliveredReads ==
  ASSUME IInv, Readable, NEW batch, NEW start, NEW n, NEW siblings, Delivers(batch, start, n, siblings)
  PROVE  LeavesRead(tree', ledger')
  <1> DEFINE e == start + n * GroupSize
  <1>1. /\ tree' = Last(add_leafs_commitments_and_siblings(tree, batch, siblings))
        /\ IsBatch(batch, start, n) /\ BatchIn(batch, ledger') /\ RetoldLeaves(tree, batch)
        /\ Extends(tree, ledger, ledger', start, e) /\ SiblingsTrue(tree, siblings, ledger', start)
        /\ \A m \in DOMAIN siblings : Seen(start, m)
    BY DEF Delivers
  <1>2. tree \in Trees(Values) /\ Holds(tree, ledger) /\ LeavesRead(tree, ledger)
    BY DEF IInv, Good, Readable
  <1>3. LeavesRead(Last(add_leafs_commitments_and_siblings(tree, batch, siblings)), ledger')
    BY <1>1, <1>2, BatchLeavesRead
  <1> QED
    BY <1>1, <1>3

\* A transaction added out of order keeps the leaves readable.
LEMMA AddHashesReads ==
  ASSUME IInv, Readable, NEW start \in Index, Aligned(start), NEW tx, AddHashes(start, tx)
  PROVE  LeavesRead(tree', ledger')
  <1> DEFINE M == Extended(tree.next, [i \in {start} |-> tx])
             e == start + GroupSize
             v == Last(add_hashes(tree, start, TxLeaves(tx)))
  <1>1. /\ Held(start) /\ tx.kind = "leafs"
        /\ tx \in IF start < tree.next THEN Known(start) ELSE Txs
        /\ tree' = v /\ ledger' = M
    BY DEF AddHashes
  <1> HIDE DEF M, e, v
  <1>2. /\ tx \in GroupTxs /\ Whole(start)
        /\ start \in Nat /\ e \in Nat /\ start < e
        /\ Whole(e) /\ e <= Capacity
        /\ Extends(tree, ledger, M, start, e)
        /\ \A k \in 1..GroupSize : M[start + k - 1] = TxLeaves(tx)[k]
        /\ \A j \in Nat : tree.next <= j /\ j < start => M[j] = ZeroNote
        /\ tx.kind = "leafs" => ZerosLast(M, start)
    BY <1>1, OneGroup DEF M, e
  <1>3. tree \in Trees(Values) /\ Holds(tree, ledger) /\ LeavesRead(tree, ledger)
    BY DEF IInv, Good, Readable
  <1>4. start < tree.next => <<0, start>> \in DOMAIN tree.leaves
    BY <1>1, KnownLeaves
  <1>5. LeavesRead(v, M)
    BY <1>1, <1>2, <1>3, <1>4, HashesLeavesRead DEF v, e
  <1> QED
    BY <1>1, <1>5

\* A commitment alone disturbs no group that was told by its leaves.
LEMMA AddCommitmentReads ==
  ASSUME IInv, Readable, NEW start \in Index, Aligned(start), NEW tx, AddCommitment(start, tx)
  PROVE  LeavesRead(tree', ledger')
  <1> DEFINE M == Extended(tree.next, [i \in {start} |-> tx])
             e == start + GroupSize
             g == Above(<<0, start>>, OUTPLUSONELOG)
             v == Last(AddedHash(tree, g, HashOf(M, g)))
  <1>1. /\ Held(start) /\ tx.kind = "commitment" /\ start <= tree.next
        /\ tx \in IF start < tree.next THEN Known(start) ELSE Txs
        /\ tree' = Last(AddedHash(tree, g, tx.hash)) /\ ledger' = M
    BY DEF AddCommitment, AddedHash
  <1> HIDE DEF M, e, g, v
  <1>0. Held(start) /\ tx \in IF start < tree.next THEN Known(start) ELSE Txs
    BY <1>1
  <1>2. /\ tx \in GroupTxs /\ Whole(start)
        /\ start \in Nat /\ e \in Nat /\ start < e
        /\ Whole(e) /\ e <= Capacity
        /\ Extends(tree, ledger, M, start, e)
        /\ \A k \in 1..GroupSize : M[start + k - 1] = TxLeaves(tx)[k]
        /\ \A j \in Nat : tree.next <= j /\ j < start => M[j] = ZeroNote
        /\ tx.kind = "leafs" => ZerosLast(M, start)
    BY <1>0, OneGroup DEF M, e
  <1>3. Good(tree, ledger) /\ tree \in Trees(Values) /\ Holds(tree, ledger) /\ tree.next \in Nat
    BY DEF IInv, Good, Holds, Whole
  <1>4. e = start + GroupSize
    BY DEF e
  <1>5. /\ g \in Node /\ g[1] = OUTPLUSONELOG /\ Width[g[1]] = GroupSize
        /\ LeftEdge(g) = start /\ RightEdge(g) = e
    BY <1>2, <1>4, GroupNode DEF g
  <1>6. HashOf(M, g) = tx.hash
    <2>1. HashOf(M, g) = [k \in 1..GroupSize |-> M[start + k - 1]]
      BY <1>5 DEF HashOf
    <2>2. tx.hash \in [1..GroupSize -> Full] /\ TxLeaves(tx) = tx.hash
      BY <1>1, <1>2, GroupTxIs
    <2>3. \A k \in 1..GroupSize : M[start + k - 1] = tx.hash[k]
      BY <1>2, <2>2
    <2> QED
      BY <2>1, <2>2, <2>3
  <1>7. LeavesRead(tree, ledger)
    BY DEF Readable
  <1>8. LeavesRead(v, M)
    BY <1>1, <1>2, <1>3, <1>4, <1>5, <1>7, CommitmentLeavesRead DEF v
  <1> QED
    BY <1>1, <1>6, <1>8 DEF v

\* An empty tree stores no leaf.
LEMMA EmptyReads ==
  ASSUME NEW t, t.leaves = NoNodes, NEW L
  PROVE  LeavesRead(t, L)
  BY DEF LeavesRead, NoNodes

\* What a wiped tree stores.
LEMMA WipedLeaves ==
  ASSUME NEW t \in Trees(Values)
  PROVE  Last(wipe(t)).leaves = NoNodes
  BY DEF wipe, Last, Trees

\* A rollback, or the wipe it ends in, keeps the leaves readable.
LEMMA RollbackReads ==
  ASSUME IInv, Readable, NEW index \in 0..Capacity, Rollback(index)
  PROVE  LeavesRead(tree', ledger')
  <1> DEFINE target == calc_first_index(index)
             undo == rollback(tree, target)
             e == CutPoint(tree, target)
             v == Last(undo.writes)
  <1>1. /\ index <= tree.next
        /\ undo.root = None => tree' = Last(wipe(v)) /\ ledger' = NoLeaves
        /\ undo.root # None => tree' = v /\ ledger' = Prefix(RollbackPoint(target))
    BY DEF Rollback
  <1>2. Prefix(RollbackPoint(target)) = Cut(ledger, e)
    BY DEF Prefix, Index, Cut, RollbackPoint, CutPoint
  <1>3. /\ tree \in Trees(Values) /\ ledger \in Vectors(Values)
        /\ Holds(tree, ledger) /\ tree.next \in Nat /\ LeavesRead(tree, ledger)
    BY DEF IInv, Good, Holds, Whole, Readable
  <1>4. index \in Nat
    BY GroupSizeIs
  <1>5. Whole(target) /\ target <= index
    BY <1>4, GroupOf
  <1>6. target <= tree.next
    BY <1>1, <1>3, <1>4, <1>5 DEF Whole
  <1> HIDE DEF target
  <1>7. CASE undo.root = None
    <2>1. v \in Trees(Values)
      <3>1. Default \in Values
        BY DEF Values
      <3> QED
        BY <1>3, <1>5, <1>6, <3>1, RollbackTrue, NoneIsNoValue
    <2> HIDE DEF v, undo
    <2>2. tree'.leaves = NoNodes
      BY <1>1, <1>7, <2>1, WipedLeaves
    <2> QED
      BY <2>2, EmptyReads
  <1>8. CASE undo.root # None
    <2>1. LeavesRead(v, Cut(ledger, e))
      BY <1>3, <1>5, <1>6, <1>8, RollbackLeavesRead
    <2> HIDE DEF v, undo, e
    <2> QED
      BY <1>1, <1>2, <1>8, <2>1
  <1> QED
    BY <1>7, <1>8

\* What only changes the marks of a tree does not change what it reads.
LEMMA SameReads ==
  ASSUME NEW t, NEW L, LeavesRead(t, L),
         NEW v, v.leaves = t.leaves, v.next = t.next, v.first = t.first
  PROVE  LeavesRead(v, L)
  <1>1. \A n \in Node : get(v, n) = get(t, n)
    BY DEF get
  <1>2. \A g : GroupRead(t, L, g) => GroupRead(v, L, g)
    BY <1>1 DEF GroupRead
  <1> QED
    BY <1>2 DEF LeavesRead

\* Every action keeps the leaves readable.
LEMMA NextReads ==
  ASSUME IInv, Readable, Next
  PROVE  LeavesRead(tree', ledger')
  <1>0. tree \in Trees(Values) /\ Good(tree, ledger) /\ LeavesRead(tree, ledger)
    BY DEF IInv, Good, Readable
  <1>1. ASSUME NEW start \in {i \in Index : Aligned(i)}, NEW n \in 1..MaxBatch, AddBatch(start, n)
        PROVE  LeavesRead(tree', ledger')
    BY <1>1, NextBatch, DeliveredReads
  <1>2. ASSUME NEW prefix \in SkippedParts, NEW n \in 1..MaxBatch, AddFirstBatch(prefix, n)
        PROVE  LeavesRead(tree', ledger')
    BY <1>2, FirstBatch, DeliveredReads
  <1>3. ASSUME NEW start \in {i \in Index : Aligned(i)}, NEW tx \in Txs \cup Known(start),
               AddHashes(start, tx)
        PROVE  LeavesRead(tree', ledger')
    BY <1>3, AddHashesReads
  <1>4. ASSUME NEW start \in {i \in Index : Aligned(i)}, NEW tx \in Txs \cup Known(start),
               AddCommitment(start, tx)
        PROVE  LeavesRead(tree', ledger')
    BY <1>4, AddCommitmentReads
  <1>5. ASSUME NEW index \in 0..Capacity, Rollback(index)
        PROVE  LeavesRead(tree', ledger')
    BY <1>5, RollbackReads
  <1>6. CASE Wipe
    <2>1. tree'.leaves = NoNodes
      BY <1>0, <1>6, WipedLeaves DEF Wipe
    <2> QED
      BY <2>1, EmptyReads
  <1>7. ASSUME NEW value \in {i \in 0..Capacity : Aligned(i)}, SetStableIndex(value)
        PROVE  LeavesRead(tree', ledger')
    <2>1. tree' = [tree EXCEPT !.stable = value] /\ ledger' = ledger
      BY <1>7 DEF SetStableIndex, set_last_stable_index, Last
    <2>2. tree'.leaves = tree.leaves /\ tree'.next = tree.next /\ tree'.first = tree.first
      BY <1>0, <2>1 DEF Trees
    <2> QED
      BY <1>0, <2>1, <2>2, SameReads
  <1>8. CASE Reopen
    BY <1>0, <1>8, OpenIs DEF Reopen
  <1> QED
    BY <1>1, <1>2, <1>3, <1>4, <1>5, <1>6, <1>7, <1>8 DEF Next

\* Stored leaves stay readable.
LEMMA ReadableAlways == Spec => [](IInv /\ Readable)
  <1>1. Init => Readable
    BY EmptyReads DEF Init, EmptyTree, Readable
  <1>2. IInv /\ Readable /\ [Next]_vars => Readable'
    <2>1. ASSUME IInv, Readable, Next PROVE Readable'
      BY <2>1, NextReads DEF Readable
    <2>2. ASSUME Readable, UNCHANGED vars PROVE Readable'
      BY <2>2 DEF vars, Readable
    <2> QED
      BY <2>1, <2>2
  <1> QED
    BY <1>1, <1>2, Inductive, PTL DEF Spec

\* With a node a tree knows its sibling.
LEMMA SiblingSeen ==
  ASSUME NEW first, first # None => first \in Nat, NEW a \in Node, a[1] < HEIGHT, Seen(first, a)
  PROVE  Seen(first, Sibling(a))
  <1> DEFINE s == Sibling(a)
  <1>1. /\ s \in Node /\ s[1] = a[1]
        /\ a[2] % 2 = 0 => LeftEdge(s) = RightEdge(a)
        /\ a[2] % 2 = 1 => RightEdge(s) = LeftEdge(a) /\ s[2] % 2 = 0
    BY SiblingIs
  <1> HIDE DEF s
  <1>2. OUTPLUSONELOG <= s[1]
    BY <1>1 DEF Seen
  <1> SUFFICES ASSUME first # None PROVE Seen(first, s)
    BY <1>2 DEF Seen, s
  <1>3. /\ LeftEdge(a) \in Nat /\ Width[a[1]] \in Nat /\ Width[a[1]] >= 1
        /\ RightEdge(a) = LeftEdge(a) + Width[a[1]] /\ a[2] \in Nat
        /\ LeftEdge(s) \in Nat /\ RightEdge(s) = LeftEdge(s) + Width[a[1]]
    BY <1>1, NodeIs, WidthPositive
  <1>4. first < RightEdge(a) \/ (a[2] % 2 = 0 /\ first < RightEdge(a) + Width[a[1]])
    BY DEF Seen
  <1>5. CASE a[2] % 2 = 0
    <2>1. LeftEdge(s) = RightEdge(a)
      BY <1>1, <1>5
    <2>2. first < RightEdge(s)
      BY <1>3, <1>4, <2>1
    <2> QED
      BY <1>2, <2>2 DEF Seen
  <1>6. CASE a[2] % 2 = 1
    <2>1. RightEdge(s) = LeftEdge(a) /\ s[2] % 2 = 0
      BY <1>1, <1>6
    <2>2. first < RightEdge(a)
      BY <1>4, <1>6
    <2>3. first < RightEdge(s) + Width[s[1]] /\ RightEdge(s) \in Nat
      BY <1>1, <1>3, <2>1, <2>2
    <2>4. first < RightEdge(s) \/ RightEdge(s) <= first
      BY <2>3
    <2> QED
      BY <1>2, <2>1, <2>3, <2>4 DEF Seen
  <1> QED
    BY <1>3, <1>5, <1>6

\* The proof of a stored leaf is read right: within its group because the whole
\* group is, above it because the tree knows the group.
LEMMA ProofTrue ==
  ASSUME NEW t \in Trees(Values), NEW L, Holds(t, L), LeavesRead(t, L),
         NEW n \in DOMAIN t.leaves, n[1] = 0, NEW h \in 0..(HEIGHT - 1)
  PROVE  get(t, Sibling(Above(n, h))) = HashOf(L, Sibling(Above(n, h)))
  <1> DEFINE g == Above(n, OUTPLUSONELOG)
             a == Above(n, h)
             s == Sibling(a)
  <1>1. /\ n \in Node /\ SeenTrue(t, L) /\ (t.first # None => t.first \in Nat)
    BY PartialIs DEF Holds, Trees
  <1>2. /\ g \in Node /\ g[1] = OUTPLUSONELOG /\ LeftEdge(g) <= n[2] /\ n[2] < RightEdge(g)
        /\ LeftEdge(n) = n[2] /\ RightEdge(n) = n[2] + 1 /\ n[2] \in Nat
    BY <1>1, GroupAbove
  <1>3. Seen(t.first, g) /\ GroupRead(t, L, g)
    BY DEF LeavesRead
  <1>4. /\ HEIGHT \in Nat /\ OUTPLUSONELOG \in 0..HEIGHT /\ h \in n[1]..HEIGHT /\ h \in Nat /\ h < HEIGHT
    BY SizesAssumption
  <1>5. a \in Node /\ a[1] = h /\ LeftEdge(a) <= LeftEdge(n) /\ RightEdge(n) <= RightEdge(a)
    BY <1>1, <1>4, AboveIs
  <1> HIDE DEF g, a
  <1>6. s \in Node /\ s[1] = a[1]
    BY <1>4, <1>5, SiblingIs
  <1>7. LeftEdge(a) < RightEdge(g) /\ LeftEdge(g) < RightEdge(a)
    BY <1>2, <1>5, NodeIs
  <1>8. CASE OUTPLUSONELOG <= h
    <2>1. a = Above(g, h)
      BY <1>2, <1>5, <1>7, <1>8, AboveUnique
    <2>2. Seen(t.first, a)
      <3>1. CASE OUTPLUSONELOG = h
        <4>1. a = g
          BY <1>2, <1>5, <1>7, <3>1, SameLevel
        <4> QED
          BY <1>3, <4>1
      <3>2. CASE OUTPLUSONELOG < h
        <4>1. a \in Ancestors(g)
          BY <1>2, <1>4, <2>1, <3>2 DEF Ancestors
        <4>2. t.first # None => t.first < RightEdge(a)
          BY <1>1, <1>2, <1>3, <4>1, AboveSeen
        <4> QED
          BY <1>5, <1>8, <4>2 DEF Seen
      <3> QED
        BY <1>4, <1>8, <3>1, <3>2
    <2>3. Seen(t.first, s)
      BY <1>1, <1>4, <1>5, <2>2, SiblingSeen
    <2> QED
      BY <1>1, <1>6, <2>3 DEF SeenTrue, a
  <1>9. CASE ~ OUTPLUSONELOG <= h
    <2> DEFINE p == Above(a, a[1] + 1)
    <2>1. /\ p \in Node /\ p[1] = h + 1
          /\ \/ a = LeftChild(p) /\ s = RightChild(p)
             \/ a = RightChild(p) /\ s = LeftChild(p)
      BY <1>4, <1>5, ParentIs
    <2> HIDE DEF p, s
    <2>2. /\ LeftEdge(p) <= LeftEdge(a) /\ RightEdge(a) <= RightEdge(p)
          /\ LeftEdge(p) <= LeftEdge(s) /\ RightEdge(s) <= RightEdge(p)
      <3>1. p[1] > 0 /\ p[1] - 1 = h
        BY <1>4, <2>1
      <3>2. /\ LeftEdge(LeftChild(p)) = LeftEdge(p) /\ RightEdge(RightChild(p)) = RightEdge(p)
            /\ RightEdge(LeftChild(p)) = LeftEdge(p) + Width[h]
            /\ LeftEdge(RightChild(p)) = LeftEdge(p) + Width[h]
            /\ Width[p[1]] = 2 * Width[h]
        BY <2>1, <3>1, ChildrenAre
      <3>3. /\ LeftEdge(p) \in Nat /\ RightEdge(p) = LeftEdge(p) + Width[p[1]]
            /\ Width[h] \in Nat
        BY <1>5, <2>1, NodeIs
      <3> QED
        BY <2>1, <3>2, <3>3
    <2>3. p[1] <= g[1]
      BY <1>2, <1>4, <1>9, <2>1
    <2>4. LeftEdge(g) < RightEdge(p) /\ LeftEdge(p) < RightEdge(g)
      BY <1>2, <1>5, <1>7, <2>1, <2>2, NodeIs
    <2>5. LeftEdge(g) <= LeftEdge(p) /\ RightEdge(p) <= RightEdge(g)
      BY <1>2, <2>1, <2>3, <2>4, AboveUnique
    <2>6. Within(s, g)
      BY <1>2, <1>6, <2>1, <2>2, <2>5, NodeIs DEF Within
    <2> QED
      BY <1>3, <1>6, <2>6 DEF GroupRead, s, a
  <1> QED
    BY <1>8, <1>9

\* The proofs of a good tree with readable leaves lead to its root.
LEMMA ProofsOfGood ==
  ASSUME NEW t, NEW L, Good(t, L), LeavesRead(t, L), NEW n \in DOMAIN t.leaves, n[1] = 0
  PROVE  FoldProof(t.leaves[n], n[2], get_proof_unchecked(t, n[2])) = get_root(t)
  <1> DEFINE proof == get_proof_unchecked(t, n[2])
  <1>1. /\ n \in Node /\ t.leaves[n] = HashOf(L, n) /\ L \in Vectors(Values)
    BY PartialIs DEF Good, Holds, Trees, StoredTrue
  <1>2. n = <<0, n[2]>> /\ n[2] \in 0..(Capacity - 1)
    <2>1. n[2] \in Nat /\ n[2] + 1 <= Capacity /\ Capacity \in Nat /\ n = <<n[1], n[2]>>
      BY <1>1, GroupAbove, NodeIs, GroupSizeIs
    <2> QED
      BY <2>1
  <1>3. \A h \in 0..(HEIGHT - 1) : proof[h] = HashOf(L, Sibling(Above(<<0, n[2]>>, h)))
    <2> SUFFICES ASSUME NEW h \in 0..(HEIGHT - 1)
                 PROVE  proof[h] = HashOf(L, Sibling(Above(<<0, n[2]>>, h)))
      OBVIOUS
    <2>1. proof[h] = get(t, Sibling(Above(<<0, n[2]>>, h)))
      BY DEF get_proof_unchecked
    <2>2. get(t, Sibling(Above(n, h))) = HashOf(L, Sibling(Above(n, h)))
      BY ProofTrue DEF Good
    <2> QED
      BY <1>2, <2>1, <2>2
  <1> HIDE DEF proof
  <1>4. FoldProof(HashOf(L, <<0, n[2]>>), n[2], proof) = HashOf(L, Above(<<0, n[2]>>, HEIGHT))
    BY <1>1, <1>2, <1>3, FoldTrue
  <1>5. Above(<<0, n[2]>>, HEIGHT) = Root
    <2>1. /\ Root \in Node /\ Root[1] = HEIGHT /\ LeftEdge(Root) = 0 /\ RightEdge(Root) = Capacity
          /\ <<0, n[2]>> \in Node /\ <<0, n[2]>>[1] = 0 /\ LeftEdge(<<0, n[2]>>) = n[2]
          /\ RightEdge(<<0, n[2]>>) = n[2] + 1
      BY <1>2, RootIs, LeafNode
    <2>2. HEIGHT \in Nat /\ Capacity \in Nat /\ n[2] \in Nat
      BY <1>2, SizesAssumption, GroupSizeIs
    <2>3. <<0, n[2]>>[1] <= Root[1]
      BY <2>1, <2>2
    <2>4. LeftEdge(Root) < RightEdge(<<0, n[2]>>) /\ LeftEdge(<<0, n[2]>>) < RightEdge(Root)
      BY <1>2, <2>1, <2>2
    <2> QED
      BY <2>1, <2>3, <2>4, AboveUnique
  <1>6. get_root(t) = HashOf(L, Root)
    BY RootOfGood
  <1> QED
    BY <1>1, <1>2, <1>4, <1>5, <1>6 DEF proof

-----------------------------------------------------------------------------
(***************************************************************************)
(* Virtual subtrees: what is computed for groups that are not in the tree. *)
(***************************************************************************)
\* What a descent knows is true where it comes to it, and it knows every leaf it
\* comes to.
KnownTrue(known, M) ==
  /\ \A n \in Node : n \in DOMAIN known /\ Reached(known, n) => known[n] = HashOf(M, n)
  /\ \A n \in Node : n[1] = 0 /\ Reached(known, n) => n \in DOMAIN known

\* Then what it returns is true.
LEMMA DescentTrue ==
  ASSUME NEW X, NoneIsNoHash(X), NEW M \in Vectors(X), NEW known, KnownTrue(known, M),
         NEW n \in Node, Reached(known, n)
  PROVE  hashes_above(known)[n] = HashOf(M, n)
  <1>1. \A m \in Node : HashOf(M, m) # None
    BY HashIsNotNone
  <1>2. /\ \A m \in Node : m \in DOMAIN known /\ Reached(known, m) => known[m] = HashOf(M, m)
        /\ \A m \in Node : m[1] = 0 /\ Reached(known, m) => m \in DOMAIN known
    BY DEF KnownTrue
  <1>3. \A m \in Node : Reached(known, m) =>
          /\ hashes_above(known)[m] \in {None, HashOf(M, m)}
          /\ (\A k \in Node : k[1] = 0 /\ Reached(known, k) => k \in DOMAIN known) =>
               hashes_above(known)[m] = HashOf(M, m)
    BY <1>1, <1>2, HashesAreTrue
  <1> QED
    BY <1>2, <1>3

\* So it is for an update that grows the tree.
LEMMA GrownKnown ==
  ASSUME NEW t, NEW L, NEW u, NEW M, NEW nodes, NEW b,
         Grows(t, L, u, M), GivenTrue(t, u, M, nodes, b), StoredTrue(t, L), SeenTrue(t, L)
  PROVE  KnownTrue(Settled(u, nodes, b), M)
  <1> DEFINE known == Settled(u, nodes, b)
  <1>1. \A n \in Node : n \in DOMAIN known /\ Reached(known, n) => known[n] = HashOf(M, n)
    BY SettledTrue
  <1>2. DOMAIN known = {m \in Node : Untouched(m, b) \/ Padding(m, b) \/ m \in DOMAIN nodes}
    BY SettledIs
  <1>3. b.updated_left = t.next /\ b.updated_right = u.next
    BY DEF GivenTrue
  <1> HIDE DEF known
  <1>4. ASSUME NEW n \in Node, n[1] = 0, Reached(known, n) PROVE n \in DOMAIN known
    <2>1. CASE Given(nodes, n)
      <3>1. PICK m \in DOMAIN nodes : m = n \/ m \in Ancestors(n)
        BY <2>1 DEF Given
      <3>2. m \in Node
        BY <3>1 DEF GivenTrue
      <3> QED
        BY <1>2, <1>4, <3>1, <3>2 DEF Reached
    <2>2. CASE ~Given(nodes, n)
      <3>1. Padding(n, b) \/ ~(t.next <= LeftEdge(n) /\ LeftEdge(n) < u.next)
        BY <1>4, <2>2 DEF GivenTrue
      <3>2. RightEdge(n) = LeftEdge(n) + 1 /\ LeftEdge(n) \in Nat
        BY <1>4, NodeIs, WidthIs
      <3>3. t.next \in Nat /\ u.next \in Nat
        BY DEF Grows, Whole
      <3>4. Untouched(n, b) \/ Padding(n, b)
        BY <1>3, <3>1, <3>2, <3>3 DEF Untouched
      <3> QED
        BY <1>2, <3>4
    <2> QED
      BY <2>1, <2>2
  <1> QED
    BY <1>1, <1>4 DEF KnownTrue, known

\* The tree before it grew is read in the same way.
LEMMA SettledSame ==
  ASSUME NEW t, NEW L, NEW u, NEW M, NEW nodes, NEW b, Grows(t, L, u, M),
         b.updated_left = t.next, b.updated_right = u.next
  PROVE  Settled(t, nodes, b) = Settled(u, nodes, b)
  <1>1. u.leaves = t.leaves /\ t.next \in Nat /\ u.next \in Nat /\ t.next <= u.next
    BY DEF Grows, Whole
  <1>2. ASSUME NEW n \in Node, Untouched(n, b) PROVE get(t, n) = get(u, n)
    <2>1. LeftEdge(n) \in Nat /\ RightEdge(n) \in Nat /\ LeftEdge(n) < RightEdge(n)
      BY NodeIs
    <2>2. RightEdge(n) <= t.next \/ u.next <= LeftEdge(n)
      BY <1>2 DEF Untouched
    <2>3. RightEdge(n) <= t.next <=> RightEdge(n) <= u.next
      BY <1>1, <2>1, <2>2
    <2> QED
      BY <1>1, <2>3 DEF get
  <1> QED
    BY <1>2 DEF Settled

\* A batch within the tree: nothing of it is computed.
LEMMA WithinKnown ==
  ASSUME NEW t, NEW L, Holds(t, L), NEW e \in Nat, e <= t.next, NEW nodes, NEW b,
         b.updated_left = t.next, b.updated_right = e,
         \A n \in DOMAIN nodes : nodes[n] = HashOf(L, n)
  PROVE  KnownTrue(Settled(t, nodes, b), L)
  <1> DEFINE known == Settled(t, nodes, b)
  <1>1. DOMAIN known = {m \in Node : Untouched(m, b) \/ Padding(m, b) \/ m \in DOMAIN nodes}
    BY SettledIs
  <1>2. /\ Whole(t.next) /\ t.next \in Nat /\ t.next <= Capacity /\ FilledTo(L, t.next)
        /\ StoredTrue(t, L) /\ SeenTrue(t, L)
        /\ t.first = None => t.next = 0
        /\ t.first # None => t.first \in Nat /\ t.first < t.next
    BY DEF Holds, Whole
  <1>3. ASSUME NEW n \in Node, n \in DOMAIN known, Reached(known, n)
        PROVE  known[n] = HashOf(L, n)
    <2>1. /\ LeftEdge(n) \in Nat /\ RightEdge(n) \in Nat /\ LeftEdge(n) < RightEdge(n)
          /\ n[1] \in 0..HEIGHT
      BY NodeIs
    <2>2. ~Padding(n, b)
      BY <1>2, <2>1 DEF Padding
    <2>3. known[n] = IF Untouched(n, b) THEN get(t, n)
                     ELSE IF Padding(n, b) THEN zero_note_hashes[n[1]] ELSE nodes[n]
      BY <1>3 DEF Settled
    <2>4. Untouched(n, b) \/ n \in DOMAIN nodes
      BY <1>1, <1>3, <2>2
    <2>5. \A m \in Ancestors(n) : m \in Node /\ ~Untouched(m, b)
      BY <1>1, <1>3, AboveHas DEF Reached
    <2> HIDE DEF known
    <2>6. CASE Untouched(n, b) /\ RightEdge(n) <= t.next
      <3>1. ASSUME n[1] < HEIGHT PROVE t.next < RightEdge(Above(n, n[1] + 1))
        <4>1. Above(n, n[1] + 1) \in Ancestors(n)
          BY <3>1, NodeIs, SizesAssumption DEF Ancestors
        <4>2. ~Untouched(Above(n, n[1] + 1), b) /\ Above(n, n[1] + 1) \in Node
          BY <2>5, <4>1
        <4>3. RightEdge(Above(n, n[1] + 1)) \in Nat
          BY <4>2, NodeIs
        <4> QED
          BY <1>2, <4>2, <4>3 DEF Untouched
      <3>2. t.first = None \/ (t.first \in Nat /\ t.first < t.next)
        BY <1>2
      <3>3. Seen(t.first, n)
        BY <1>2, <2>6, <3>1, <3>2, LeftOfEnd
      <3> QED
        BY <1>2, <2>3, <2>6, <3>3 DEF SeenTrue
    <2>7. CASE Untouched(n, b) /\ t.next <= LeftEdge(n)
      <3>1. n \notin DOMAIN t.leaves
        BY <1>2, <2>1, <2>7 DEF StoredTrue
      <3>2. get(t, n) = default_hashes[n[1]]
        BY <1>2, <2>1, <2>7, <3>1 DEF get
      <3> QED
        BY <1>2, <2>3, <2>7, <3>2, BeyondEnd
    <2>8. CASE Untouched(n, b) /\ LeftEdge(n) < t.next /\ t.next < RightEdge(n)
      <3>1. ~ n[1] <= OUTPLUSONELOG
        BY <1>2, <2>1, <2>8, BoundaryOutside
      <3>2. OUTPLUSONELOG <= n[1]
        BY <2>1, <3>1, SizesAssumption
      <3>3. t.first # None => t.first < RightEdge(n)
        BY <1>2, <2>1, <2>8
      <3>4. Seen(t.first, n)
        BY <3>2, <3>3 DEF Seen
      <3> QED
        BY <1>2, <2>3, <2>8, <3>4 DEF SeenTrue
    <2>9. CASE ~Untouched(n, b)
      BY <2>2, <2>3, <2>4, <2>9
    <2> QED
      BY <1>2, <2>1, <2>6, <2>7, <2>8, <2>9
  <1>4. ASSUME NEW n \in Node, n[1] = 0 PROVE n \in DOMAIN known
    <2>1. RightEdge(n) = LeftEdge(n) + 1 /\ LeftEdge(n) \in Nat
      BY <1>4, NodeIs, WidthIs
    <2>2. Untouched(n, b)
      BY <1>2, <2>1 DEF Untouched
    <2> QED
      BY <1>1, <2>2
  <1> QED
    BY <1>3, <1>4 DEF KnownTrue

\* The nodes and the range of a virtual subtree are true of the leaves M.
VirtualTrue(t, nodes, b, M) ==
  /\ b.updated_left \in Nat /\ b.updated_right \in Nat /\ b.new_left \in Nat /\ b.new_right \in Nat
  /\ KnownTrue(Settled(t, nodes, b), M)
  /\ \A n \in DOMAIN nodes : n \in Node /\ nodes[n] = HashOf(M, n)
  /\ \A n \in Node : Padding(n, b) /\ (\A a \in Ancestors(n) : a \notin DOMAIN nodes) =>
                       HashOf(M, n) = zero_note_hashes[n[1]]

\* A node whose ancestors are not given and that is not settled is computed.
LEMMA VirtualReached ==
  ASSUME NEW t, NEW nodes, NEW b,
         b.updated_left \in Nat, b.updated_right \in Nat, b.new_left \in Nat, b.new_right \in Nat,
         NEW m \in Node, \A a \in Ancestors(m) : a \notin DOMAIN nodes,
         ~Untouched(m, b), ~Padding(m, b)
  PROVE  Reached(Settled(t, nodes, b), m)
  <1>1. DOMAIN Settled(t, nodes, b)
          = {n \in Node : Untouched(n, b) \/ Padding(n, b) \/ n \in DOMAIN nodes}
    BY SettledIs
  <1>2. ASSUME NEW a \in Ancestors(m) PROVE ~Untouched(a, b) /\ ~Padding(a, b)
    <2>1. /\ LeftEdge(a) <= LeftEdge(m) /\ RightEdge(m) <= RightEdge(a)
          /\ LeftEdge(a) \in Nat /\ RightEdge(a) \in Nat
          /\ LeftEdge(m) \in Nat /\ RightEdge(m) \in Nat
      BY AboveHas, NodeIs
    <2>2. ~Untouched(a, b)
      BY <2>1 DEF Untouched
    <2>3. ~Padding(a, b)
      BY <2>1 DEF Padding
    <2> QED
      BY <2>2, <2>3
  <1> QED
    BY <1>1, <1>2 DEF Reached

\* What get_virtual_node_full computes from given nodes.
LEMMA NodeRead ==
  ASSUME NEW X, NoneIsNoHash(X), NEW M \in Vectors(X), NEW t, NEW nodes, NEW b,
         VirtualTrue(t, nodes, b, M),
         NEW m \in Node, \A a \in Ancestors(m) : a \notin DOMAIN nodes,
         Untouched(m, b) => get(t, m) = HashOf(M, m)
  PROVE  virtual_node(t, nodes, b, m) = HashOf(M, m)
  <1> DEFINE known == Settled(t, nodes, b)
  <1>1. DOMAIN known = {n \in Node : Untouched(n, b) \/ Padding(n, b) \/ n \in DOMAIN nodes}
    BY SettledIs
  <1>2. m \in DOMAIN known => known[m] = IF Untouched(m, b) THEN get(t, m)
                     ELSE IF Padding(m, b) THEN zero_note_hashes[m[1]] ELSE nodes[m]
    BY DEF Settled
  <1>3. virtual_node(t, nodes, b, m) = hashes_above(known)[m]
    BY DEF virtual_node
  <1>4. /\ b.updated_left \in Nat /\ b.updated_right \in Nat /\ b.new_left \in Nat /\ b.new_right \in Nat
        /\ KnownTrue(known, M)
        /\ m \in DOMAIN nodes => nodes[m] = HashOf(M, m)
        /\ Padding(m, b) => HashOf(M, m) = zero_note_hashes[m[1]]
    BY DEF VirtualTrue
  <1> HIDE DEF known
  <1>5. CASE m \in DOMAIN known
    <2>1. hashes_above(known)[m] = known[m]
      BY <1>5, HashesAboveIs DEF HashFrom
    <2> QED
      BY <1>1, <1>2, <1>3, <1>4, <1>5, <2>1
  <1>6. CASE m \notin DOMAIN known
    <2>1. ~Untouched(m, b) /\ ~Padding(m, b)
      BY <1>1, <1>6
    <2>2. Reached(known, m)
      BY <1>4, <2>1, VirtualReached DEF known
    <2> QED
      BY <1>3, <1>4, <2>2, DescentTrue
  <1> QED
    BY <1>5, <1>6

\* What it computes after get_virtual_subtree.
LEMMA VirtualRead ==
  ASSUME NEW X, NoneIsNoHash(X), NEW M \in Vectors(X), NEW t, NEW nodes, NEW b,
         VirtualTrue(t, nodes, b, M),
         NEW m \in Node, \A a \in Ancestors(m) : a \notin DOMAIN nodes,
         Untouched(m, b) => get(t, m) = HashOf(M, m)
  PROVE  virtual_node(t, virtual_subtree(t, nodes, b), b, m) = HashOf(M, m)
  <1> DEFINE known == Settled(t, nodes, b)
             f == hashes_above(known)
             new == virtual_subtree(t, nodes, b)
             seen == Settled(t, new, b)
  <1>1. DOMAIN known = {n \in Node : Untouched(n, b) \/ Padding(n, b) \/ n \in DOMAIN nodes}
    BY SettledIs
  <1>2. new = [n \in Visited(known) \cup DOMAIN nodes |-> IF n \in Visited(known) THEN f[n] ELSE nodes[n]]
    BY DEF virtual_subtree
  <1>3. /\ b.updated_left \in Nat /\ b.updated_right \in Nat /\ b.new_left \in Nat /\ b.new_right \in Nat
        /\ KnownTrue(known, M)
        /\ \A n \in DOMAIN nodes : nodes[n] = HashOf(M, n)
        /\ Padding(m, b) => HashOf(M, m) = zero_note_hashes[m[1]]
    BY DEF VirtualTrue
  <1>4. virtual_node(t, new, b, m) = hashes_above(seen)[m]
    BY DEF virtual_node
  <1> HIDE DEF new
  <1>5. DOMAIN seen = {n \in Node : Untouched(n, b) \/ Padding(n, b) \/ n \in DOMAIN new}
    BY DEF Settled
  <1>6. m \in DOMAIN seen => seen[m] = IF Untouched(m, b) THEN get(t, m)
                     ELSE IF Padding(m, b) THEN zero_note_hashes[m[1]] ELSE new[m]
    BY DEF Settled
  <1> HIDE DEF known, seen, f
  <1>7. \A n \in Visited(known) : f[n] = HashOf(M, n)
    <2> SUFFICES ASSUME NEW n \in Visited(known) PROVE f[n] = HashOf(M, n)
      OBVIOUS
    <2>1. n \in Node /\ Reached(known, n)
      BY DEF Visited, Reached
    <2> QED
      BY <1>3, <2>1, DescentTrue DEF f
  <1>8. DOMAIN new = Visited(known) \cup DOMAIN nodes /\ \A n \in DOMAIN new : new[n] = HashOf(M, n)
    BY <1>2, <1>3, <1>7
  <1>9. m \in DOMAIN seen
    <2> SUFFICES ASSUME ~Untouched(m, b), ~Padding(m, b), m \notin DOMAIN nodes PROVE m \in Visited(known)
      BY <1>5, <1>8
    <2>1. Reached(known, m)
      BY <1>3, VirtualReached DEF known
    <2>2. m \notin DOMAIN known
      BY <1>1
    <2> QED
      BY <2>1, <2>2 DEF Visited, Reached
  <1>10. seen[m] = HashOf(M, m)
    BY <1>3, <1>5, <1>6, <1>8, <1>9
  <1>11. hashes_above(seen)[m] = seen[m]
    BY <1>9, HashesAboveIs DEF HashFrom
  <1> QED
    BY <1>4, <1>10, <1>11 DEF new

\* The siblings of a leaf on the way to the root: what is above them is above the leaf.
LEMMA PathAbove ==
  ASSUME NEW i \in 0..(Capacity - 1), NEW h \in 0..(HEIGHT - 1)
  PROVE  LET m == Sibling(Above(<<0, i>>, h))
         IN  /\ m \in Node /\ m[1] = h
             /\ \A a \in Ancestors(m) : a \in Node /\ a[1] > h /\ LeftEdge(a) <= i /\ i < RightEdge(a)
  <1> DEFINE n == Above(<<0, i>>, h)
             m == Sibling(n)
             p == Above(n, n[1] + 1)
  <1>1. h \in 0..HEIGHT /\ h \in Nat /\ h < HEIGHT /\ HEIGHT \in Nat
    BY SizesAssumption
  <1>2. n \in Node /\ n[1] = h /\ LeftEdge(n) <= i /\ i < RightEdge(n)
    BY <1>1, LeafAbove
  <1> HIDE DEF n
  <1>3. m \in Node /\ m[1] = h
    BY <1>1, <1>2, SiblingIs
  <1>4. /\ p \in Node /\ p[1] = h + 1
        /\ n \in {LeftChild(p), RightChild(p)} /\ m \in {LeftChild(p), RightChild(p)}
    BY <1>1, <1>2, ParentIs
  <1> HIDE DEF m, p
  <1>5. p[1] > 0
    BY <1>1, <1>4
  <1>6. Ancestors(n) = {p} \cup Ancestors(p) /\ Ancestors(m) = {p} \cup Ancestors(p)
    BY <1>4, <1>5, AncestorsOfChild
  <1>7. ASSUME NEW a \in Ancestors(m)
        PROVE  a \in Node /\ a[1] > h /\ LeftEdge(a) <= i /\ i < RightEdge(a)
    <2>1. a \in Ancestors(n)
      BY <1>6
    <2>2. /\ a \in Node /\ n[1] < a[1] /\ LeftEdge(a) <= LeftEdge(n) /\ RightEdge(n) <= RightEdge(a)
          /\ LeftEdge(a) \in Nat /\ RightEdge(a) \in Nat /\ a[1] \in 0..HEIGHT
      BY <1>2, <2>1, AboveHas, NodeIs
    <2>3. LeftEdge(n) \in Nat /\ RightEdge(n) \in Nat
      BY <1>2, NodeIs
    <2> QED
      BY <1>1, <1>2, <2>2, <2>3
  <1> QED
    BY <1>3, <1>7 DEF m, n

\* Above a group that a batch tells by its leaves nothing is given.
LEMMA NotGivenAbove ==
  ASSUME NEW batch, NEW start, NEW n, IsBatch(batch, start, n), NEW i \in OfKind(batch, "leafs"),
         NEW a \in Node, a[1] > 0, LeftEdge(a) <= i, i < RightEdge(a)
  PROVE  a \notin DOMAIN GivenNodes(batch)
  <1>1. /\ i \in DOMAIN batch /\ batch[i].kind = "leafs" /\ batch[i] \in GroupTxs
        /\ i \in Nat /\ Whole(i) /\ i + GroupSize <= Capacity
    BY BatchIs DEF OfKind, IsBatch
  <1>2. GroupSize \in Nat /\ LeftEdge(a) \in Nat /\ RightEdge(a) \in Nat
    BY GroupSizeIs, NodeIs
  <1>3. ASSUME NEW c \in OfKind(batch, "commitment"), a = Above(<<0, c>>, OUTPLUSONELOG) PROVE FALSE
    <2>1. c \in DOMAIN batch /\ batch[c].kind = "commitment"
      BY DEF OfKind
    <2>2. Whole(c) /\ c \in Nat /\ c + GroupSize <= Capacity
      BY <2>1, BatchIs
    <2>3. LeftEdge(a) = c /\ RightEdge(a) = c + GroupSize
      BY <1>3, <2>2, GroupNode
    <2>4. c <= i /\ i < c + GroupSize
      BY <1>2, <2>3
    <2>5. c < i => c + GroupSize <= i
      BY <1>1, <2>2, NextWhole
    <2>6. c = i
      BY <1>1, <1>2, <2>2, <2>4, <2>5
    <2> QED
      BY <1>1, <2>1, <2>6
  <1>4. ASSUME NEW k \in OfKind(batch, "leafs"), a \in PaddingNodes(k, LastLeaf(batch, k)) PROVE FALSE
    <2>1. k \in DOMAIN batch /\ batch[k].kind = "leafs" /\ batch[k] \in GroupTxs
      BY DEF OfKind, IsBatch
    <2>2. Whole(k) /\ k \in Nat /\ k + GroupSize <= Capacity
      BY <2>1, BatchIs
    <2>3. Len(batch[k].leafs) \in 1..GroupSize
      BY <2>1, GroupTxIs
    <2>4. /\ LastLeaf(batch, k) \in Nat /\ k <= LastLeaf(batch, k)
          /\ LastLeaf(batch, k) < k + GroupSize
      BY <1>2, <2>2, <2>3 DEF LastLeaf
    <2>5. LastLeaf(batch, k) < LeftEdge(a) /\ RightEdge(a) <= k + GroupSize
      BY <1>4, <2>2, <2>4, PaddingNodeIs
    <2>6. k < i /\ i < k + GroupSize
      BY <1>1, <1>2, <2>2, <2>4, <2>5
    <2>7. k + GroupSize <= i
      BY <1>1, <2>2, <2>6, NextWhole
    <2> QED
      BY <1>1, <1>2, <2>2, <2>6, <2>7
  <1>5. ASSUME NEW k \in OfKind(batch, "leafs"), a \in {<<0, j>> : j \in k..LastLeaf(batch, k)} PROVE FALSE
    BY <1>5
  <1> QED
    BY <1>3, <1>4, <1>5 DEF GivenNodes

\* The range of get_virtual_subtree.
LEMMA VirtualBoundsAre ==
  ASSUME NEW t, NEW batch, NEW start, NEW n, IsBatch(batch, start, n), NEW e, e = start + n * GroupSize
  PROVE  /\ VirtualBounds(t, batch) = [updated_left |-> t.next, updated_right |-> e,
                                       new_left |-> start, new_right |-> LastBound(batch) + 1]
         /\ LastBound(batch) \in Nat
         /\ \A i \in DOMAIN batch : i <= LastBound(batch)
  <1>1. /\ LastBound(batch) \in Nat /\ e - GroupSize <= LastBound(batch)
        /\ calc_next_index(LastBound(batch)) = e /\ Min(DOMAIN batch) = start
    BY LastBoundIs
  <1>2. start \in DOMAIN batch /\ e \in Nat /\ GroupSize \in Nat
    BY BatchIs, GroupSizeIs
  <1>3. batch # <<>>
    BY <1>2
  <1>4. \A i \in DOMAIN batch : i \in Nat /\ i <= e - GroupSize
    BY BatchIs
  <1>5. \A i \in DOMAIN batch : i <= LastBound(batch)
    BY <1>1, <1>2, <1>4
  <1> QED
    BY <1>1, <1>3, <1>5 DEF VirtualBounds

\* An update that grows the tree computes a true virtual subtree, before or after
\* the indexes moved.
LEMMA GrownVirtual ==
  ASSUME NEW t, NEW L, NEW u, NEW M, NEW nodes, NEW b,
         Grows(t, L, u, M), GivenTrue(t, u, M, nodes, b), StoredTrue(t, L), SeenTrue(t, L),
         b.new_left \in Nat, b.new_right \in Nat
  PROVE  VirtualTrue(t, nodes, b, M)
  <1>1. KnownTrue(Settled(u, nodes, b), M)
    BY GrownKnown
  <1>2. b.updated_left = t.next /\ b.updated_right = u.next /\ t.next \in Nat /\ u.next \in Nat
    BY DEF GivenTrue, Grows, Whole
  <1>3. Settled(t, nodes, b) = Settled(u, nodes, b)
    BY <1>2, SettledSame
  <1>4. /\ \A n \in DOMAIN nodes : n \in Node /\ nodes[n] = HashOf(M, n)
        /\ \A n \in Node : Padding(n, b) /\ (\A a \in Ancestors(n) : a \notin DOMAIN nodes) =>
                             HashOf(M, n) = zero_note_hashes[n[1]]
    BY DEF GivenTrue
  <1> QED
    BY <1>1, <1>2, <1>3, <1>4 DEF VirtualTrue

\* Leaves that do not reach beyond the end are those the tree has.
LEMMA SameWithin ==
  ASSUME NEW t, NEW L \in Vectors(Values), Holds(t, L), NEW M, NEW start, NEW e \in Nat, e < t.next,
         Extends(t, L, M, start, e)
  PROVE  L = M
  <1>1. /\ M \in Vectors(Values) /\ FilledTo(M, t.next) /\ FilledTo(L, t.next) /\ t.next \in Nat
        /\ \A i \in 0..(Capacity - 1) : i < t.next => L[i] = M[i]
    BY DEF Extends, Holds, Whole
  <1>2. \A i \in 0..(Capacity - 1) : L[i] = M[i]
    BY <1>1, SameFilled
  <1>3. /\ L = [i \in 0..(Capacity - 1) |-> L[i]]
        /\ M = [i \in 0..(Capacity - 1) |-> M[i]]
    BY <1>1 DEF Vectors
  <1> QED
    BY <1>2, <1>3, Zenon

\* The virtual subtree of a batch is true, whether the tree is already beyond
\* the batch or not.
LEMMA BatchVirtual ==
  ASSUME NEW t \in Trees(Values), NEW L \in Vectors(Values), Holds(t, L), NEW M,
         NEW batch, NEW start, NEW n, IsBatch(batch, start, n), BatchIn(batch, M),
         NEW e, e = start + n * GroupSize, Extends(t, L, M, start, e),
         SiblingsTrue(t, NoSiblings, M, start)
  PROVE  VirtualTrue(t, GivenNodes(batch), VirtualBounds(t, batch), M)
  <1> DEFINE nodes == GivenNodes(batch)
             b == VirtualBounds(t, batch)
             u == Indexed(t, e, start)
  <1>1. /\ start \in Nat /\ e \in Nat /\ Whole(e) /\ Whole(start) /\ start < e /\ e <= Capacity
    BY BatchIs DEF IsBatch
  <1>2. /\ b = [updated_left |-> t.next, updated_right |-> e,
                new_left |-> start, new_right |-> LastBound(batch) + 1]
        /\ LastBound(batch) \in Nat
    BY VirtualBoundsAre
  <1>3. /\ t.next \in Nat /\ StoredTrue(t, L) /\ SeenTrue(t, L)
    BY DEF Holds, Whole
  <1>4. CASE t.next <= e
    <2>1. u.next = e
      BY <1>1, <1>3, <1>4, IndexesAre
    <2>2. GivenTrue(t, u, M, BatchNodes(batch, NoSiblings), BatchRange(t, u, batch, NoSiblings, start))
      BY AddIs
    <2>3. BatchRange(t, u, batch, NoSiblings, start) = b
      BY <1>2, <2>1 DEF BatchRange, NoSiblings, NoNodes
    <2>4. BatchNodes(batch, NoSiblings) = nodes
      BY DEF BatchNodes, NoSiblings, NoNodes, GivenNodes
    <2>5. Grows(t, L, u, M)
      BY <1>1, IndexedGrows
    <2> HIDE DEF nodes, b, u
    <2>6. GivenTrue(t, u, M, nodes, b)
      BY <2>2, <2>3, <2>4
    <2>7. b.new_left \in Nat /\ b.new_right \in Nat
      BY <1>1, <1>2
    <2>8. VirtualTrue(t, nodes, b, M)
      BY <1>3, <2>5, <2>6, <2>7, GrownVirtual
    <2> QED
      BY <2>8 DEF nodes, b
  <1>5. CASE e < t.next
    <2>1. L = M
      BY <1>1, <1>5, SameWithin
    <2>2. \A m \in DOMAIN nodes : m \in Node /\ nodes[m] = HashOf(M, m)
      BY GivenNodesTrue
    <2> HIDE DEF nodes, b
    <2>3. /\ b.updated_left = t.next /\ b.updated_right = e
          /\ b.new_left \in Nat /\ b.new_right \in Nat
      BY <1>1, <1>2
    <2>4. KnownTrue(Settled(t, nodes, b), M)
      BY <1>1, <1>3, <1>5, <2>1, <2>2, <2>3, WithinKnown
    <2>5. ASSUME NEW m \in Node PROVE ~Padding(m, b)
      <3>1. LeftEdge(m) \in Nat /\ RightEdge(m) \in Nat /\ LeftEdge(m) < RightEdge(m)
        BY NodeIs
      <3> QED
        BY <1>1, <1>3, <1>5, <2>3, <3>1 DEF Padding
    <2>6. VirtualTrue(t, nodes, b, M)
      BY <1>1, <1>3, <2>2, <2>3, <2>4, <2>5 DEF VirtualTrue
    <2> QED
      BY <2>6 DEF nodes, b
  <1> QED
    BY <1>1, <1>3, <1>4, <1>5

\* The siblings of a leaf that is new are read right: if they are untouched the
\* descent comes to them.
LEMMA NewRead ==
  ASSUME NEW t, NEW nodes, NEW b, NEW M, VirtualTrue(t, nodes, b, M),
         NEW i \in 0..(Capacity - 1), NEW h \in 0..(HEIGHT - 1),
         \A a \in Node : a[1] > 0 /\ LeftEdge(a) <= i /\ i < RightEdge(a) => a \notin DOMAIN nodes,
         b.updated_left <= i, i < b.updated_right, b.new_left <= i, i < b.new_right,
         Untouched(Sibling(Above(<<0, i>>, h)), b)
  PROVE  get(t, Sibling(Above(<<0, i>>, h))) = HashOf(M, Sibling(Above(<<0, i>>, h)))
  <1> DEFINE m == Sibling(Above(<<0, i>>, h))
             known == Settled(t, nodes, b)
  <1>1. /\ m \in Node
        /\ \A a \in Ancestors(m) : a \in Node /\ a[1] > h /\ LeftEdge(a) <= i /\ i < RightEdge(a)
    BY PathAbove
  <1>2. /\ DOMAIN known = {n \in Node : Untouched(n, b) \/ Padding(n, b) \/ n \in DOMAIN nodes}
    BY SettledIs
  <1>3. /\ b.updated_left \in Nat /\ b.updated_right \in Nat /\ b.new_left \in Nat /\ b.new_right \in Nat
        /\ KnownTrue(known, M)
    BY DEF VirtualTrue
  <1>4. Untouched(m, b)
    OBVIOUS
  <1>5. m \in DOMAIN known => known[m] = IF Untouched(m, b) THEN get(t, m)
                     ELSE IF Padding(m, b) THEN zero_note_hashes[m[1]] ELSE nodes[m]
    BY DEF Settled
  <1> HIDE DEF known, m
  <1>6. ASSUME NEW a \in Ancestors(m) PROVE a \notin DOMAIN known
    <2>1. a \in Node /\ a[1] > h /\ LeftEdge(a) <= i /\ i < RightEdge(a)
      BY <1>1
    <2>2. LeftEdge(a) \in Nat /\ RightEdge(a) \in Nat /\ a[1] \in Nat /\ h \in Nat
      BY <2>1, NodeIs, SizesAssumption
    <2>3. ~Untouched(a, b)
      BY <1>3, <2>1, <2>2 DEF Untouched
    <2>4. ~Padding(a, b)
      BY <1>3, <2>1, <2>2 DEF Padding
    <2>5. a[1] > 0
      BY <2>1, <2>2
    <2>6. a \notin DOMAIN nodes
      BY <2>1, <2>5
    <2> QED
      BY <1>2, <2>3, <2>4, <2>6
  <1>7. m \in DOMAIN known /\ Reached(known, m)
    BY <1>1, <1>2, <1>4, <1>6 DEF Reached
  <1>8. known[m] = HashOf(M, m)
    BY <1>1, <1>3, <1>7 DEF KnownTrue
  <1> QED
    BY <1>4, <1>5, <1>7, <1>8 DEF m

\* The siblings of a leaf that the tree has are read right in any case.
LEMMA OldRead ==
  ASSUME NEW t \in Trees(Values), NEW L \in Vectors(Values), Holds(t, L), LeavesRead(t, L),
         NEW M, NEW start, NEW e \in Nat, Extends(t, L, M, start, e),
         NEW b, b.updated_left = t.next, b.updated_right = e,
         NEW i \in 0..(Capacity - 1), <<0, i>> \in DOMAIN t.leaves, NEW h \in 0..(HEIGHT - 1),
         Untouched(Sibling(Above(<<0, i>>, h)), b)
  PROVE  get(t, Sibling(Above(<<0, i>>, h))) = HashOf(M, Sibling(Above(<<0, i>>, h)))
  <1> DEFINE m == Sibling(Above(<<0, i>>, h))
  <1>1. m \in Node
    BY PathAbove
  <1>2. get(t, m) = HashOf(L, m)
    <2>1. <<0, i>>[1] = 0
      BY LeafNode
    <2> QED
      BY <2>1, ProofTrue
  <1>3. Untouched(m, b)
    OBVIOUS
  <1> HIDE DEF m
  <1>4. t.next \in Nat /\ FilledTo(L, t.next)
    BY DEF Holds, Whole
  <1>5. HashOf(L, m) = HashOf(M, m)
    <2>1. CASE e < t.next
      BY <2>1, SameWithin
    <2>2. CASE t.next <= e /\ RightEdge(m) <= t.next
      <3>1. ASSUME NEW j \in Below(m) PROVE L[j] = M[j]
        <4>1. j \in Nat /\ j < RightEdge(m) /\ RightEdge(m) \in Nat /\ RightEdge(m) <= Capacity /\ Capacity \in Nat
          BY <1>1, <3>1, NodeIs, GroupSizeIs DEF Below
        <4>2. j \in 0..(Capacity - 1) /\ j < t.next
          BY <1>4, <2>2, <4>1
        <4> QED
          BY <4>2 DEF Extends
      <3> QED
        BY <1>1, <3>1, SameLeaves
    <2>3. CASE t.next <= e /\ e <= LeftEdge(m)
      <3>1. FilledTo(M, e) /\ t.next <= LeftEdge(m)
        BY <1>1, <1>4, <2>3, NodeIs DEF Extends
      <3> QED
        BY <1>1, <1>4, <2>3, <3>1, BeyondEnd
    <2> QED
      BY <1>3, <1>4, <2>1, <2>2, <2>3 DEF Untouched
  <1> QED
    BY <1>2, <1>5 DEF m

\* A leaf that is read right is stored if it is an account or a note.
LEMMA LeafStored ==
  ASSUME NEW v, NEW M, NEW i \in 0..(Capacity - 1), M[i] \in Leaf,
         get(v, <<0, i>>) = HashOf(M, <<0, i>>)
  PROVE  <<0, i>> \in DOMAIN v.leaves
  <1>1. <<0, i>> \in Node /\ <<0, i>>[1] = 0 /\ LeftEdge(<<0, i>>) = i /\ i \in Nat
    BY LeafNode
  <1>2. Width[0] = 1 /\ 0 \in 0..HEIGHT
    BY WidthIs, SizesAssumption
  <1>3. HashOf(M, <<0, i>>)[1] = M[i]
    BY <1>1, <1>2 DEF HashOf
  <1>4. zero_note_hashes[0][1] = ZeroNote /\ default_hashes[0][1] = Default
    BY <1>2 DEF zero_note_hashes, default_hashes
  <1>5. M[i] # ZeroNote /\ M[i] # Default
    BY LeafAssumption
  <1> QED
    BY <1>1, <1>3, <1>4, <1>5 DEF get

\* What a tree that grew reads is true where something was given.
LEMMA GivenRead ==
  ASSUME NEW t \in Trees(Values), NEW L, Holds(t, L), NEW M, NEW start, Whole(start),
         NEW e, Whole(e), start < e, e <= Capacity, Extends(t, L, M, start, e),
         NEW nodes, NEW b, GivenTrue(t, Indexed(t, e, start), M, nodes, b),
         NEW m \in DOMAIN nodes
  PROVE  get(Updated(Indexed(t, e, start), nodes, b), m) = HashOf(M, m)
  <1> DEFINE u == Indexed(t, e, start)
             v == put_hashes(u, virtual_subtree(u, nodes, b))
             computed == Visited(Settled(u, nodes, b)) \cup DOMAIN nodes
  <1>1. M \in Vectors(Values) /\ NoneIsNoHash(Values)
    BY NoneIsNoValue DEF Extends
  <1>2. Grows(t, L, u, M)
    BY IndexedGrows
  <1>3. u \in Trees(Values)
    BY IndexedIs DEF Whole
  <1>4. StoredTrue(t, L) /\ SeenTrue(t, L) /\ DOMAIN t.leaves \subseteq Node
    BY PartialIs DEF Holds, Trees
  <1>5. m \in Node
    BY DEF GivenTrue
  <1> HIDE DEF u
  <1>6. \A n \in Node : get(v, n) = IF n \in computed THEN HashOf(M, n) ELSE get(u, n)
    BY <1>1, <1>2, <1>3, <1>4, UpdateReads DEF u
  <1>7. m \in computed
    OBVIOUS
  <1> HIDE DEF computed, v
  <1>8. get(v, m) = HashOf(M, m)
    BY <1>5, <1>6, <1>7
  <1> QED
    BY <1>8 DEF v, u, Updated

\* The first leaf of a group that a batch tells by its leaves is stored.
LEMMA BatchStored ==
  ASSUME NEW t \in Trees(Values), NEW L, Holds(t, L), NEW M,
         NEW batch, NEW start, NEW n, IsBatch(batch, start, n), BatchIn(batch, M),
         NEW e, e = start + n * GroupSize, Extends(t, L, M, start, e),
         NEW siblings, SiblingsTrue(t, siblings, M, start), NEW i \in OfKind(batch, "leafs")
  PROVE  /\ i \in 0..(Capacity - 1)
         /\ <<0, i>> \in DOMAIN Last(add_leafs_commitments_and_siblings(t, batch, siblings)).leaves
  <1> DEFINE u == Indexed(t, e, start)
             nodes == BatchNodes(batch, siblings)
             b == BatchRange(t, u, batch, siblings, start)
             v == Last(add_leafs_commitments_and_siblings(t, batch, siblings))
  <1>1. /\ start \in Nat /\ e \in Nat /\ Whole(e) /\ Whole(start) /\ start < e /\ e <= Capacity
    BY BatchIs DEF IsBatch
  <1>2. v = Updated(u, nodes, b) /\ GivenTrue(t, u, M, nodes, b)
    BY AddIs
  <1>3. /\ i \in DOMAIN batch /\ batch[i].kind = "leafs" /\ batch[i] \in GroupTxs
        /\ i \in Nat /\ i + GroupSize <= Capacity
    BY BatchIs DEF OfKind, IsBatch
  <1>4. /\ batch[i].leafs \in Seq(Leaf) /\ Len(batch[i].leafs) \in 1..GroupSize
        /\ \A k \in 1..GroupSize :
             TxLeaves(batch[i])[k] = IF k <= Len(batch[i].leafs) THEN batch[i].leafs[k] ELSE ZeroNote
    BY <1>3, GroupTxIs
  <1>5. GroupSize \in Nat /\ GroupSize >= 1 /\ 1 \in 1..GroupSize /\ Capacity \in Nat
    BY GroupSizeIs
  <1>6. i \in 0..(Capacity - 1)
    BY <1>3, <1>5
  <1>7. M[i] \in Leaf
    <2>1. M[i + 1 - 1] = TxLeaves(batch[i])[1]
      BY <1>3, <1>5 DEF BatchIn
    <2>2. TxLeaves(batch[i])[1] = batch[i].leafs[1] /\ batch[i].leafs[1] \in Leaf
      BY <1>4, <1>5
    <2>3. i + 1 - 1 = i
      BY <1>3
    <2> QED
      BY <2>1, <2>2, <2>3
  <1>8. <<0, i>> \in DOMAIN nodes
    <2>1. i \in i..LastLeaf(batch, i)
      BY <1>3, <1>4 DEF LastLeaf
    <2>2. <<0, i>> \in DOMAIN GivenNodes(batch)
      BY <2>1 DEF GivenNodes
    <2> QED
      BY <2>2 DEF BatchNodes
  <1> HIDE DEF nodes, b, u, v
  <1>9. get(v, <<0, i>>) = HashOf(M, <<0, i>>)
    BY <1>1, <1>2, <1>8, GivenRead DEF u
  <1> QED
    BY <1>6, <1>7, <1>9, LeafStored DEF v

\* Nothing is above the root.
LEMMA AboveRoot == Ancestors(Root) = {}
  BY RootIs, SizesAssumption DEF Ancestors

\* The root computed from a true virtual subtree, before and after it is filled in.
LEMMA VirtualRoot ==
  ASSUME NEW M \in Vectors(Values), NEW t, NEW nodes, NEW b, VirtualTrue(t, nodes, b, M)
  PROVE  /\ virtual_node(t, virtual_subtree(t, nodes, b), b, Root) = HashOf(M, Root)
         /\ virtual_node(t, nodes, b, Root) = HashOf(M, Root)
  <1>1. Root \in Node
    BY RootIs
  <1>2. \A a \in Ancestors(Root) : a \notin DOMAIN nodes
    BY AboveRoot
  <1>3. ASSUME Untouched(Root, b) PROVE get(t, Root) = HashOf(M, Root)
    <2> DEFINE known == Settled(t, nodes, b)
    <2>1. Root \in DOMAIN known /\ known[Root] = get(t, Root)
      BY <1>1, <1>3 DEF Settled
    <2>2. Reached(known, Root)
      BY AboveRoot DEF Reached
    <2>3. KnownTrue(known, M)
      BY DEF VirtualTrue
    <2> HIDE DEF known
    <2> QED
      BY <1>1, <2>1, <2>2, <2>3 DEF KnownTrue
  <1>4. NoneIsNoHash(Values)
    BY NoneIsNoValue
  <1>5. virtual_node(t, virtual_subtree(t, nodes, b), b, Root) = HashOf(M, Root)
    BY <1>1, <1>2, <1>3, <1>4, VirtualRead
  <1>6. virtual_node(t, nodes, b, Root) = HashOf(M, Root)
    BY <1>1, <1>2, <1>3, <1>4, NodeRead
  <1> QED
    BY <1>5, <1>6

\* The siblings of a leaf of the batch are read right from its virtual subtree.
LEMMA OptimisticSibling ==
  ASSUME NEW t \in Trees(Values), NEW L \in Vectors(Values), Holds(t, L), LeavesRead(t, L), NEW M,
         NEW batch, NEW start, NEW n, IsBatch(batch, start, n), BatchIn(batch, M),
         RetoldLeaves(t, batch),
         NEW e, e = start + n * GroupSize, Extends(t, L, M, start, e),
         SiblingsTrue(t, NoSiblings, M, start),
         NEW i \in OfKind(batch, "leafs"), i \in 0..(Capacity - 1), NEW h \in 0..(HEIGHT - 1)
  PROVE  virtual_node(t, virtual_subtree(t, GivenNodes(batch), VirtualBounds(t, batch)),
                      VirtualBounds(t, batch), Sibling(Above(<<0, i>>, h)))
           = HashOf(M, Sibling(Above(<<0, i>>, h)))
  <1> DEFINE nodes == GivenNodes(batch)
             b == VirtualBounds(t, batch)
             m == Sibling(Above(<<0, i>>, h))
  <1>1. VirtualTrue(t, nodes, b, M)
    BY BatchVirtual
  <1>2. /\ b = [updated_left |-> t.next, updated_right |-> e,
                new_left |-> start, new_right |-> LastBound(batch) + 1]
        /\ LastBound(batch) \in Nat /\ \A j \in DOMAIN batch : j <= LastBound(batch)
    BY VirtualBoundsAre
  <1>3. /\ m \in Node
        /\ \A a \in Ancestors(m) : a \in Node /\ a[1] > h /\ LeftEdge(a) <= i /\ i < RightEdge(a)
    BY PathAbove
  <1>4. /\ i \in DOMAIN batch /\ batch[i].kind = "leafs"
        /\ i \in Nat /\ start \in Nat /\ start <= i /\ i + GroupSize <= e /\ e \in Nat
        /\ GroupSize \in Nat /\ GroupSize >= 1 /\ h \in Nat
    BY BatchIs, GroupSizeIs, SizesAssumption DEF OfKind
  <1>5. \A a \in Node : a[1] > 0 /\ LeftEdge(a) <= i /\ i < RightEdge(a) => a \notin DOMAIN nodes
    BY NotGivenAbove
  <1>6. t.next \in Nat /\ M \in Vectors(Values)
    BY DEF Holds, Whole, Extends
  <1> HIDE DEF nodes, b
  <1>7. \A a \in Ancestors(m) : a \notin DOMAIN nodes
    <2> SUFFICES ASSUME NEW a \in Ancestors(m) PROVE a \notin DOMAIN nodes
      OBVIOUS
    <2>1. a \in Node /\ a[1] > h /\ LeftEdge(a) <= i /\ i < RightEdge(a) /\ a[1] \in Nat
      BY <1>3, NodeIs
    <2>2. a[1] > 0
      BY <1>4, <2>1
    <2> QED
      BY <1>5, <2>1, <2>2
  <1>8. Untouched(m, b) => get(t, m) = HashOf(M, m)
    <2>1. b.updated_left = t.next /\ b.updated_right = e /\ b.new_left = start
          /\ b.new_right = LastBound(batch) + 1
      BY <1>2
    <2>2. CASE i < t.next
      <3>1. <<0, i>> \in DOMAIN t.leaves
        BY <1>4, <2>2 DEF RetoldLeaves
      <3> QED
        BY <1>4, <2>1, <3>1, OldRead
    <2>3. CASE t.next <= i
      <3>1. /\ b.updated_left <= i /\ i < b.updated_right
            /\ b.new_left <= i /\ i < b.new_right
        BY <1>2, <1>4, <2>1, <2>3
      <3> QED
        BY <1>1, <1>5, <3>1, NewRead
    <2> QED
      BY <1>4, <1>6, <2>2, <2>3
  <1> HIDE DEF m
  <1>9. NoneIsNoHash(Values)
    BY NoneIsNoValue
  <1>10. virtual_node(t, virtual_subtree(t, nodes, b), b, m) = HashOf(M, m)
    BY <1>1, <1>3, <1>6, <1>7, <1>8, <1>9, VirtualRead
  <1> QED
    BY <1>10 DEF nodes, b, m

\* The root and the proofs a wallet computes for a batch are those after it.
LEMMA OptimisticOfGood ==
  ASSUME IInv, Readable, NEW start \in Index, Aligned(start), Held(start), NEW n \in 1..MaxBatch,
         start + n * GroupSize <= Capacity, NEW batch \in Batches(start, n),
         NEW added, added = Last(add_leafs_and_commitments(tree, batch))
  PROVE  /\ get_root_optimistic(tree, get_virtual_subtree(tree, batch)) = get_root(added)
         /\ \A i \in OfKind(batch, "leafs") :
              get_proof_optimistic_index(tree, get_virtual_subtree(tree, batch), i)
                = get_proof_unchecked(added, i)
  <1> DEFINE e == start + n * GroupSize
             M == Extended(tree.next, batch)
             nodes == GivenNodes(batch)
             b == VirtualBounds(tree, batch)
             v == get_virtual_subtree(tree, batch)
  <1>1. /\ IsBatch(batch, start, n) /\ BatchIn(batch, M) /\ RetoldLeaves(tree, batch)
        /\ Extends(tree, ledger, M, start, e) /\ SiblingsTrue(tree, NoSiblings, M, start)
    BY BatchTold
  <1>2. /\ Good(tree, ledger) /\ tree \in Trees(Values) /\ ledger \in Vectors(Values)
        /\ Holds(tree, ledger) /\ LeavesRead(tree, ledger)
    BY DEF IInv, Good, Readable
  <1>3. added = Last(add_leafs_commitments_and_siblings(tree, batch, NoSiblings))
    BY DEF add_leafs_and_commitments
  <1>4. v.nodes = virtual_subtree(tree, nodes, b) /\ v.boundaries = b
    BY DEF get_virtual_subtree
  <1> HIDE DEF M, v
  <1>5. Good(added, M)
    BY <1>1, <1>2, <1>3, BatchKeeps
  <1>6. LeavesRead(added, M)
    <2>1. \A m \in DOMAIN NoSiblings : Seen(start, m)
      BY DEF NoSiblings, NoNodes
    <2> QED
      BY <1>1, <1>2, <1>3, <2>1, BatchLeavesRead
  <1>7. VirtualTrue(tree, nodes, b, M) /\ M \in Vectors(Values)
    BY <1>1, <1>2, BatchVirtual DEF Extends
  <1>8. get_root_optimistic(tree, v) = get_root(added)
    <2>1. virtual_node(tree, virtual_subtree(tree, nodes, b), b, Root) = HashOf(M, Root)
      BY <1>7, VirtualRoot
    <2>2. get_root(added) = HashOf(M, Root)
      BY <1>5, RootOfGood
    <2> QED
      BY <1>4, <2>1, <2>2 DEF get_root_optimistic
  <1>9. ASSUME NEW i \in OfKind(batch, "leafs")
        PROVE  get_proof_optimistic_index(tree, v, i) = get_proof_unchecked(added, i)
    <2>1. i \in 0..(Capacity - 1) /\ <<0, i>> \in DOMAIN added.leaves
      BY <1>1, <1>2, <1>3, BatchStored
    <2>2. ASSUME NEW h \in 0..(HEIGHT - 1)
          PROVE  virtual_node(tree, v.nodes, v.boundaries, Sibling(Above(<<0, i>>, h)))
                   = get(added, Sibling(Above(<<0, i>>, h)))
      <3>1. virtual_node(tree, virtual_subtree(tree, nodes, b), b, Sibling(Above(<<0, i>>, h)))
              = HashOf(M, Sibling(Above(<<0, i>>, h)))
        BY <1>1, <1>2, <2>1, OptimisticSibling
      <3>2. <<0, i>>[1] = 0 /\ added \in Trees(Values) /\ Holds(added, M)
        BY <1>5, <2>1, LeafNode DEF Good
      <3>3. get(added, Sibling(Above(<<0, i>>, h))) = HashOf(M, Sibling(Above(<<0, i>>, h)))
        BY <1>6, <2>1, <3>2, ProofTrue
      <3> QED
        BY <1>4, <3>1, <3>3
    <2> QED
      BY <2>2 DEF get_proof_optimistic_index, get_proof_unchecked
  <1> QED
    BY <1>8, <1>9 DEF v

\* The end of the tree, when it is not full, is a boundary it may go on from.
LEMMA EndIs ==
  ASSUME IInv, tree.next < Capacity
  PROVE  tree.next \in Index /\ Aligned(tree.next) /\ Held(tree.next) /\ tree.next \in Nat
  <1>1. /\ tree.next \in Nat /\ Whole(tree.next) /\ Capacity \in Nat
        /\ tree.first # None => tree.first \in Nat /\ tree.first < tree.next
    BY GroupSizeIs DEF IInv, Good, Holds, Whole
  <1> QED
    BY <1>1 DEF Index, Aligned, Held, Whole

\* The hashes of a batch of commitments, and the nodes that get_root_after_virtual
\* makes of them.
CommitmentHashes(batch, start, n) == [k \in 1..n |-> batch[start + (k - 1) * GroupSize].hash]

CommitmentNodes(start, hashes) ==
  [x \in {Above(<<0, start + (k - 1) * GroupSize>>, OUTPLUSONELOG) : k \in 1..Len(hashes)} |->
     hashes[(LeftEdge(x) - start) \div GroupSize + 1]]

\* They are those given by the batch.
LEMMA AfterNodes ==
  ASSUME NEW batch, NEW start, NEW n, IsBatch(batch, start, n), OfKind(batch, "leafs") = {},
         NEW hashes, hashes = CommitmentHashes(batch, start, n)
  PROVE  Len(hashes) = n /\ CommitmentNodes(start, hashes) = GivenNodes(batch)
  <1> DEFINE at(k) == start + (k - 1) * GroupSize
             top(i) == Above(<<0, i>>, OUTPLUSONELOG)
             S == {top(at(k)) : k \in 1..n}
             nodes == [x \in S |-> hashes[(LeftEdge(x) - start) \div GroupSize + 1]]
  <1>1. /\ n \in Nat \ {0} /\ start \in Nat /\ GroupSize \in Nat /\ GroupSize >= 1
        /\ DOMAIN batch = {start + g * GroupSize : g \in 0..(n - 1)}
        /\ \A i \in DOMAIN batch : batch[i] \in GroupTxs
        /\ hashes = [k \in 1..n |-> batch[at(k)].hash]
    BY GroupSizeIs DEF IsBatch, Whole, CommitmentHashes
  <1>2. Len(hashes) = n
    BY <1>1
  <1>3. OfKind(batch, "commitment") = DOMAIN batch
    <2>1. ASSUME NEW i \in DOMAIN batch PROVE batch[i].kind = "commitment"
      <3>1. batch[i].kind # "leafs"
        BY DEF OfKind
      <3> QED
        BY <1>1, <3>1, GroupTxIs
    <2> QED
      BY <2>1 DEF OfKind
  <1>4. GivenNodes(batch) = [x \in {top(i) : i \in DOMAIN batch} |-> batch[LeftEdge(x)].hash]
    BY <1>3 DEF GivenNodes
  <1>5. DOMAIN batch = {at(k) : k \in 1..n}
    <2>1. ASSUME NEW i \in DOMAIN batch PROVE i \in {at(k) : k \in 1..n}
      <3>1. PICK g \in 0..(n - 1) : i = start + g * GroupSize
        BY <1>1
      <3>2. g + 1 \in 1..n /\ (g + 1) - 1 = g
        BY <1>1
      <3>3. at(g + 1) = i
        BY <3>1, <3>2
      <3> QED
        BY <3>2, <3>3
    <2>2. ASSUME NEW k \in 1..n PROVE at(k) \in DOMAIN batch
      <3>1. k - 1 \in 0..(n - 1)
        BY <1>1
      <3> QED
        BY <1>1, <3>1
    <2> HIDE DEF at
    <2> QED
      BY <2>1, <2>2
  <1>6. S = {top(i) : i \in DOMAIN batch}
    BY <1>5
  <1>7. ASSUME NEW k \in 1..n
        PROVE  /\ hashes[(LeftEdge(top(at(k))) - start) \div GroupSize + 1] = batch[at(k)].hash
               /\ LeftEdge(top(at(k))) = at(k)
    <2>1. at(k) \in DOMAIN batch
      BY <1>5
    <2>2. Whole(at(k)) /\ at(k) + GroupSize <= Capacity
      BY <2>1, BatchIs
    <2>3. LeftEdge(top(at(k))) = at(k)
      BY <2>2, GroupNode
    <2>4. k - 1 \in Nat /\ k \in Nat
      BY <1>1
    <2>5. ((k - 1) * GroupSize) \div GroupSize = k - 1
      BY <1>1, <2>4, Division
    <2>6. (k - 1) * GroupSize \in Nat
      BY <1>1, <2>4, ProductFacts
    <2> HIDE DEF top
    <2>7. LeftEdge(top(at(k))) - start = (k - 1) * GroupSize
      BY <1>1, <2>3, <2>6
    <2>8. (LeftEdge(top(at(k))) - start) \div GroupSize + 1 = k
      BY <2>4, <2>5, <2>7
    <2>9. hashes[k] = batch[at(k)].hash
      BY <1>1
    <2> QED
      BY <2>3, <2>8, <2>9
  <1> HIDE DEF at, top, S
  <1>8. nodes = GivenNodes(batch)
    <2>1. ASSUME NEW x \in S
          PROVE  hashes[(LeftEdge(x) - start) \div GroupSize + 1] = batch[LeftEdge(x)].hash
      <3>1. PICK k \in 1..n : x = top(at(k))
        BY DEF S
      <3> QED
        BY <1>7, <3>1
    <2> QED
      BY <1>4, <1>6, <2>1
  <1> QED
    BY <1>2, <1>8 DEF S, at, top, CommitmentNodes

\* The root after commitments at the end is that of the tree with them.
LEMMA RootAfterOfGood ==
  ASSUME IInv, NEW n \in 1..MaxBatch, tree.next + n * GroupSize <= Capacity,
         NEW batch \in Batches(tree.next, n), OfKind(batch, "leafs") = {},
         NEW hashes, hashes = CommitmentHashes(batch, tree.next, n)
  PROVE  get_root_after_virtual(tree, hashes) = get_root(Last(add_leafs_and_commitments(tree, batch)))
  <1> DEFINE start == tree.next
             e == start + n * GroupSize
             M == Extended(tree.next, batch)
             u == Indexed(tree, e, start)
             nodes == GivenNodes(batch)
             b == VirtualRange(start, e, e)
             added == Last(add_leafs_and_commitments(tree, batch))
  <1>1. n \in Nat \ {0} /\ GroupSize \in Nat /\ GroupSize >= 1 /\ Capacity \in Nat /\ tree.next \in Nat
    BY BoundsAssumption, GroupSizeIs DEF IInv, Good, Holds, Whole
  <1>2. tree.next < Capacity
    <2>1. n * GroupSize \in Nat /\ n <= n * GroupSize
      BY <1>1, ProductFacts
    <2> QED
      BY <1>1, <2>1
  <1>3. start \in Index /\ Aligned(start) /\ Held(start)
    BY <1>2, EndIs
  <1>4. /\ IsBatch(batch, start, n) /\ BatchIn(batch, M)
        /\ Extends(tree, ledger, M, start, e) /\ SiblingsTrue(tree, NoSiblings, M, start)
    BY <1>3, BatchTold
  <1>5. /\ start \in Nat /\ e \in Nat /\ Whole(e) /\ Whole(start) /\ start < e /\ e <= Capacity
    BY <1>4, BatchIs DEF IsBatch
  <1>6. /\ Good(tree, ledger) /\ tree \in Trees(Values) /\ ledger \in Vectors(Values)
        /\ Holds(tree, ledger) /\ StoredTrue(tree, ledger) /\ SeenTrue(tree, ledger)
    BY DEF IInv, Good, Holds
  <1>7. get_root_after_virtual(tree, hashes) = virtual_node(tree, nodes, b, Root)
    <2>1. Len(hashes) = n /\ CommitmentNodes(start, hashes) = nodes
      BY <1>4, AfterNodes
    <2> HIDE DEF nodes
    <2> QED
      BY <2>1 DEF get_root_after_virtual, CommitmentNodes
  <1>8. /\ \A m \in DOMAIN nodes :
             /\ m \in Node /\ m[1] <= OUTPLUSONELOG
             /\ start <= LeftEdge(m) /\ RightEdge(m) <= start + n * GroupSize
             /\ nodes[m] = HashOf(M, m)
    BY <1>4, GivenNodesTrue
  <1>9. \A j \in Nat : start <= j /\ j < e => Given(nodes, <<0, j>>)
    BY <1>4, GivenNodesCover
  <1>10. Grows(tree, ledger, u, M)
    BY <1>4, <1>5, <1>6, IndexedGrows
  <1>11. u.next = e
    BY <1>5, <1>6, IndexesAre
  <1>12. b.updated_left = start /\ b.updated_right = e /\ b.new_left = start /\ b.new_right = e
    BY DEF VirtualRange
  <1> HIDE DEF nodes, b, u, M
  <1>13. ASSUME NEW m \in Node PROVE ~Padding(m, b)
    <2>1. LeftEdge(m) \in Nat /\ RightEdge(m) \in Nat /\ LeftEdge(m) < RightEdge(m)
      BY NodeIs
    <2> QED
      BY <1>5, <1>12, <2>1 DEF Padding
  <1>14. GivenTrue(tree, u, M, nodes, b)
    <2>1. ASSUME NEW m \in DOMAIN nodes PROVE LeftEdge(m) < u.next
      BY <1>5, <1>8, <1>11, NodeIs
    <2>2. ASSUME NEW m \in Node, m[1] = 0, start <= LeftEdge(m), LeftEdge(m) < e PROVE Given(nodes, m)
      <3>1. m = <<0, LeftEdge(m)>> /\ LeftEdge(m) \in Nat
        BY <2>2, GroupAbove, NodeIs
      <3> QED
        BY <1>9, <2>2, <3>1
    <2> QED
      BY <1>8, <1>11, <1>12, <1>13, <2>1, <2>2 DEF GivenTrue
  <1>15. VirtualTrue(tree, nodes, b, M) /\ M \in Vectors(Values)
    BY <1>4, <1>5, <1>6, <1>10, <1>12, <1>14, GrownVirtual DEF Extends
  <1>16. virtual_node(tree, nodes, b, Root) = HashOf(M, Root)
    BY <1>15, VirtualRoot
  <1>17. Good(added, M)
    <2>1. added = Last(add_leafs_commitments_and_siblings(tree, batch, NoSiblings))
      BY DEF add_leafs_and_commitments
    <2> HIDE DEF added
    <2> QED
      BY <1>4, <1>6, <2>1, BatchKeeps
  <1>18. get_root(added) = HashOf(M, Root)
    BY <1>17, RootOfGood
  <1> QED
    BY <1>7, <1>16, <1>18

\* Leaves without padding are added as they are.
LEMMA AddLeafs ==
  ASSUME NEW tx \in GroupTxs, tx.kind = "leafs", NEW t, NEW start
  PROVE  add_hashes(t, start, tx.leafs) = add_hashes(t, start, TxLeaves(tx))
  <1>1. tx.leafs \in Seq(Leaf) /\ Len(tx.leafs) \in Nat
    BY GroupTxIs, GroupSizeIs
  <1>2. \A k \in 1..Len(tx.leafs) : tx.leafs[k] \in Leaf /\ tx.leafs[k] # ZeroNote
    BY <1>1, LeafAssumption
  <1>3. NonZero(tx.leafs) = Part(tx.leafs, Len(tx.leafs), Len(tx.leafs))
    <2>1. Len(tx.leafs) \in 0..Len(tx.leafs)
      BY <1>1
    <2>2. \A k \in 1..Len(tx.leafs) : tx.leafs[k] = ZeroNote <=> Len(tx.leafs) < k
      BY <1>1, <1>2
    <2> QED
      BY <1>1, <2>1, <2>2, NonZeroIs
  <1>4. Part(tx.leafs, Len(tx.leafs), Len(tx.leafs)) = tx.leafs
    BY <1>1 DEF Part
  <1>5. NonZero(tx.leafs) = NonZero(TxLeaves(tx))
    BY <1>3, <1>4, LeavesKept
  <1> QED
    BY <1>5 DEF add_hashes

\* The ledger with one more group.
WithGroup(start, tx) == Extended(tree.next, [i \in {start} |-> tx])

\* A group at the end of the tree extends the ledger.
LEMMA EndGroup ==
  ASSUME IInv, NEW start \in Index, Aligned(start), Held(start), ~(start < tree.next), NEW tx \in Txs
  PROVE  /\ tx \in GroupTxs /\ Whole(start) /\ start + GroupSize \in Nat /\ start < start + GroupSize
         /\ Whole(start + GroupSize) /\ start + GroupSize <= Capacity
         /\ Extends(tree, ledger, WithGroup(start, tx), start, start + GroupSize)
         /\ \A k \in 1..GroupSize : WithGroup(start, tx)[start + k - 1] = TxLeaves(tx)[k]
         /\ \A j \in Nat : tree.next <= j /\ j < start => WithGroup(start, tx)[j] = ZeroNote
  <1> DEFINE M == WithGroup(start, tx)
             e == start + GroupSize
  <1>1. tx \in IF start < tree.next THEN Known(start) ELSE Txs
    OBVIOUS
  <1> HIDE DEF M, e
  <1>2. /\ tx \in GroupTxs /\ Whole(start)
        /\ start \in Nat /\ e \in Nat /\ start < e
        /\ Whole(e) /\ e <= Capacity
        /\ Extends(tree, ledger, M, start, e)
        /\ \A k \in 1..GroupSize : M[start + k - 1] = TxLeaves(tx)[k]
        /\ \A j \in Nat : tree.next <= j /\ j < start => M[j] = ZeroNote
        /\ tx.kind = "leafs" => ZerosLast(M, start)
    BY <1>1, OneGroup DEF M, e, WithGroup
  <1> QED
    BY <1>2 DEF M, e

\* The proofs of leaves that are not in the tree yet are those it gives with them.
LEMMA ProofAfterOfGood ==
  ASSUME IInv, Readable, NEW start, start = tree.next, start < Capacity,
         NEW tx \in Txs, tx.kind = "leafs",
         NEW added, added = Last(add_hashes(tree, start, tx.leafs))
  PROVE  get_proof_after_virtual(tree, tx.leafs)
           = [k \in 1..Len(tx.leafs) |-> get_proof_unchecked(added, start + k - 1)]
  <1> DEFINE e == start + GroupSize
             M == WithGroup(start, tx)
             u == Indexed(tree, e, start)
             nodes == HashNodes(tx.leafs, start)
             b == HashRange(tree, u, tx.leafs, start)
  <1>1. start \in Index /\ Aligned(start) /\ Held(start) /\ start \in Nat
    BY EndIs
  <1>2. /\ tx \in GroupTxs /\ Whole(start) /\ e \in Nat /\ start < e /\ Whole(e) /\ e <= Capacity
        /\ Extends(tree, ledger, M, start, e)
        /\ \A k \in 1..GroupSize : M[start + k - 1] = TxLeaves(tx)[k]
        /\ \A j \in Nat : tree.next <= j /\ j < start => M[j] = ZeroNote
    BY <1>1, EndGroup
  <1>3. /\ tree \in Trees(Values) /\ ledger \in Vectors(Values)
        /\ Holds(tree, ledger) /\ LeavesRead(tree, ledger)
        /\ StoredTrue(tree, ledger) /\ SeenTrue(tree, ledger)
    BY DEF IInv, Good, Holds, Readable
  <1>4. added = Last(add_hashes(tree, start, TxLeaves(tx)))
    BY <1>2, AddLeafs
  <1> HIDE DEF M, e
  <1>5. /\ Last(add_hashes(tree, start, TxLeaves(tx))) = Updated(u, nodes, b)
        /\ GivenTrue(tree, u, M, nodes, b)
    BY <1>2, <1>3, AddHashesIs DEF e
  <1>6. LeavesRead(added, M)
    <2>1. start < tree.next => <<0, start>> \in DOMAIN tree.leaves
      BY <1>1
    <2>2. LeavesRead(Last(add_hashes(tree, start, TxLeaves(tx))), M)
      BY <1>2, <1>3, <2>1, HashesLeavesRead DEF e
    <2> QED
      BY <1>4, <2>2
  <1>7. added \in Trees(Values) /\ Holds(added, M)
    BY <1>2, <1>3, <1>4, AddHashesTrue DEF e
  <1>8. Grows(tree, ledger, u, M) /\ u.next = e
    <2>1. Grows(tree, ledger, u, M)
      BY <1>2, <1>3, IndexedGrows
    <2>2. u.next = e
      BY <1>1, <1>2, <1>3, IndexesAre
    <2> QED
      BY <2>1, <2>2
  <1>9. calc_next_index(start) = e
    <2>1. start < start + GroupSize
      BY <1>2 DEF e
    <2> QED
      BY <1>1, <1>2, <2>1, GroupUnique DEF e
  <1>10. /\ tx.leafs \in Seq(Leaf) /\ Len(tx.leafs) \in 1..GroupSize /\ GroupSize \in Nat
         /\ \A k \in 1..GroupSize : TxLeaves(tx)[k] = IF k <= Len(tx.leafs) THEN tx.leafs[k] ELSE ZeroNote
    BY <1>2, GroupTxIs, GroupSizeIs
  <1>11. /\ b.updated_left = start /\ b.updated_right = e
         /\ b.new_left = start /\ b.new_right = start + Len(tx.leafs)
         /\ b = VirtualRange(start, start + Len(tx.leafs), e)
    BY <1>8 DEF HashRange, VirtualRange
  <1>12. get_proof_after_virtual(tree, tx.leafs)
           = [k \in 1..Len(tx.leafs) |->
                [h \in 0..(HEIGHT - 1) |-> virtual_node(tree, nodes, b, Sibling(Above(<<0, start + k - 1>>, h)))]]
    BY <1>9, <1>11 DEF get_proof_after_virtual, ProofAfterBound, HashNodes
  <1> HIDE DEF u, b
  <1>13. VirtualTrue(tree, nodes, b, M) /\ M \in Vectors(Values) /\ NoneIsNoHash(Values)
    <2>1. b.new_left \in Nat /\ b.new_right \in Nat
      BY <1>1, <1>10, <1>11
    <2> HIDE DEF nodes
    <2> QED
      BY <1>2, <1>3, <1>5, <1>8, <2>1, GrownVirtual, NoneIsNoValue DEF Extends
  <1>14. ASSUME NEW k \in 1..Len(tx.leafs), NEW h \in 0..(HEIGHT - 1)
         PROVE  virtual_node(tree, nodes, b, Sibling(Above(<<0, start + k - 1>>, h)))
                  = get(added, Sibling(Above(<<0, start + k - 1>>, h)))
    <2> DEFINE j == start + k - 1
               m == Sibling(Above(<<0, j>>, h))
    <2>1. /\ k \in Nat /\ k >= 1 /\ k <= Len(tx.leafs) /\ k \in 1..GroupSize /\ Capacity \in Nat
          /\ h \in Nat /\ Len(tx.leafs) \in Nat /\ Len(tx.leafs) <= GroupSize /\ GroupSize \in Nat
          /\ e = start + GroupSize /\ e <= Capacity /\ start \in Nat
      BY <1>1, <1>2, <1>10, GroupSizeIs, SizesAssumption DEF e
    <2>2. start <= j /\ j < start + Len(tx.leafs) /\ j < e /\ j \in 0..(Capacity - 1)
      <3>1. j \in Nat /\ start <= j /\ j < start + Len(tx.leafs)
        BY <2>1
      <3> HIDE DEF j
      <3>2. j < e
        BY <2>1, <3>1
      <3> QED
        BY <2>1, <3>1, <3>2
    <2>3. <<0, j>> \in DOMAIN nodes /\ \A a \in DOMAIN nodes : a[1] = 0
      BY DEF HashNodes
    <2>4. M[j] \in Leaf
      <3>1. M[j] = TxLeaves(tx)[k]
        BY <1>2, <2>1
      <3>2. TxLeaves(tx)[k] = tx.leafs[k] /\ tx.leafs[k] \in Leaf
        BY <1>10, <2>1
      <3> QED
        BY <3>1, <3>2
    <2> HIDE DEF j, nodes
    <2>5. /\ m \in Node
          /\ \A a \in Ancestors(m) : a \in Node /\ a[1] > h /\ LeftEdge(a) <= j /\ j < RightEdge(a)
      BY <2>2, PathAbove
    <2>6. get(added, <<0, j>>) = HashOf(M, <<0, j>>)
      BY <1>2, <1>3, <1>4, <1>5, <2>3, GivenRead DEF u
    <2>7. <<0, j>> \in DOMAIN added.leaves
      BY <2>2, <2>4, <2>6, LeafStored
    <2>8. get(added, m) = HashOf(M, m)
      <3>1. <<0, j>>[1] = 0
        BY <2>2, LeafNode
      <3> QED
        BY <1>6, <1>7, <2>7, <3>1, ProofTrue
    <2>9. \A a \in Node : a[1] > 0 /\ LeftEdge(a) <= j /\ j < RightEdge(a) => a \notin DOMAIN nodes
      BY <2>3
    <2>10. Untouched(m, b) => get(tree, m) = HashOf(M, m)
      BY <1>11, <1>13, <2>2, <2>9, NewRead
    <2>11. \A a \in Ancestors(m) : a \notin DOMAIN nodes
      <3> SUFFICES ASSUME NEW a \in Ancestors(m) PROVE a[1] # 0
        BY <2>3
      <3>1. a \in Node /\ a[1] > h /\ a[1] \in Nat
        BY <2>5, NodeIs
      <3> QED
        BY <2>1, <3>1
    <2> HIDE DEF m
    <2>12. virtual_node(tree, nodes, b, m) = HashOf(M, m)
      BY <1>13, <2>5, <2>10, <2>11, NodeRead
    <2> QED
      BY <2>8, <2>12 DEF m, j
  <1>15. \A k \in 1..Len(tx.leafs) :
           get_proof_unchecked(added, start + k - 1)
             = [h \in 0..(HEIGHT - 1) |-> virtual_node(tree, nodes, b, Sibling(Above(<<0, start + k - 1>>, h)))]
    BY <1>14 DEF get_proof_unchecked
  <1> QED
    BY <1>12, <1>15

-----------------------------------------------------------------------------
\* What TypeOK says follows from the invariant.
LEMMA GoodType ==
  ASSUME IInv
  PROVE  TypeOK
  <1>1. /\ tree \in Trees(Values) /\ ledger \in Vectors(Values) /\ Holds(tree, ledger)
        /\ tree.db_next = tree.next \/ (tree.next = 0 /\ tree.db_next = None)
        /\ tree.db_first = tree.first /\ tree.stable <= Capacity
    BY DEF IInv, Good
  <1>2. Capacity \in Nat /\ tree.temp = NoNodes /\ tree.stable \in Nat /\ tree.clean = 0
    BY <1>1, GroupSizeIs DEF Trees
  <1>3. DOMAIN tree.leaves \subseteq Node
    BY <1>1, PartialIs DEF Trees
  <1>4. ASSUME NEW n \in DOMAIN tree.leaves PROVE Len(tree.leaves[n]) = Width[n[1]]
    <2>1. tree.leaves[n] = HashOf(ledger, n)
      BY <1>1 DEF Holds, StoredTrue
    <2>2. HashOf(ledger, n) \in [1..Width[n[1]] -> Values] /\ Width[n[1]] \in Nat
      BY <1>1, <1>3, HashType, NodeIs
    <2> QED
      BY <2>1, <2>2
  <1>5. tree.next \in {i \in 0..Capacity : Aligned(i)}
    BY <1>1, <1>2 DEF Holds, Whole, Aligned
  <1>6. tree.first \in {i \in Index : Aligned(i)} \cup {None}
    BY <1>1, <1>2 DEF Holds, Whole, Aligned, Index
  <1>7. tree.db_next \in {tree.next} \cup IF tree.next = 0 THEN {None} ELSE {}
    BY <1>1
  <1>8. tree.stable \in 0..Capacity
    BY <1>1, <1>2 DEF Holds, Whole
  <1>9. DOMAIN ledger = Index
    BY <1>1 DEF Vectors, Index
  <1> QED
    BY <1>1, <1>2, <1>3, <1>4, <1>5, <1>6, <1>7, <1>8, <1>9 DEF TypeOK

\* Hashes are stored under nodes of their height and the indexes in memory are
\* those of the database, whatever is added, rolled back or reopened (merkle.rs).
THEOREM TypeCorrect == Spec => []TypeOK
  <1>1. IInv => TypeOK
    BY GoodType
  <1> QED
    BY <1>1, Inductive, PTL

\* The root a wallet proves against is the root of the leaves it was told
\* (merkle.rs get_root, add_leafs_commitments_and_siblings, add_hashes,
\* add_hash_at_height, rollback, wipe, new).
THEOREM RootIsTrue == Spec => []RootIsLedger
  <1>1. IInv => RootIsLedger
    BY RootOfGood DEF IInv, RootIsLedger
  <1> QED
    BY <1>1, Inductive, PTL

\* A cut, by a rollback or by the wipe that follows one that failed, clears a stable
\* index that lies beyond what it keeps and leaves another one as it is, at whatever
\* index the caller had put it (merkle.rs rollback, wipe, set_last_stable_index).
THEOREM StableFollows == Spec => StableFollowsTree
  <1> DEFINE Follows == tree'.next < tree.next =>
                          tree'.stable = IF tree.stable <= tree'.next THEN tree.stable ELSE 0
  <1>1. IInv /\ [Next]_vars => [Follows]_vars
    <2> SUFFICES ASSUME IInv, Next, tree'.next < tree.next
                 PROVE  tree'.stable = IF tree.stable <= tree'.next THEN tree.stable ELSE 0
      OBVIOUS
    <2>1. Good(tree', ledger') /\ Moves
      BY NextGood
    <2>2. tree.next \in Nat /\ tree'.next \in Nat
      BY <2>1 DEF IInv, Good, Trees
    <2>3. tree'.stable = StableBelow(tree, tree'.next)
      BY <2>1, <2>2 DEF Moves
    <2> QED
      BY <2>3 DEF StableBelow
  <1> QED
    BY <1>1, Inductive, PTL DEF Spec, StableFollowsTree

\* get_root_at answers with the root the tree had when it ended at that index,
\* or not at all; for a boundary the tree holds only behind an empty block
\* (merkle.rs get_root_at).
THEOREM RootAtIsTrue == Spec => []RootAtIsPastRoot
  <1>1. IInv => RootAtIsPastRoot
    BY RootAtOfGood
  <1> QED
    BY <1>1, Inductive, PTL

\* A rollback gives back the root the tree had, and fails, for which
\* State::rollback wipes the wallet, only behind an empty block
\* (merkle.rs rollback, client/state.rs rollback).
THEOREM RollbackKeepsTree == Spec => []RollbackNeverLosesTree
  <1>1. IInv => RollbackNeverLosesTree
    BY RollbackOfGood
  <1> QED
    BY <1>1, Inductive, PTL

\* The siblings a tree serves are true, and a partial tree started from them
\* has the root of the whole one (merkle.rs get_left_siblings,
\* add_leafs_commitments_and_siblings).
THEOREM SiblingsAreTrue == Spec => []SiblingsServePartialTree
  <1>1. IInv => SiblingsServePartialTree
    BY SiblingsServe
  <1> QED
    BY <1>1, Inductive, PTL

\* A database without index keys opens with the indexes it would have had,
\* unless empty groups are at its ends (merkle.rs new).
THEOREM LegacyReopens == Spec => []LegacyDatabaseReopens
  <1>1. IInv => LegacyDatabaseReopens
    BY LegacyOfGood
  <1> QED
    BY <1>1, Inductive, PTL

\* The proof of every leaf the wallet stores leads from that leaf to the root it
\* proves against (merkle.rs get_leaf_proof, get_proof_unchecked).
THEOREM LeafProofsAreTrue == Spec => []LeafProofsLeadToRoot
  <1>1. IInv /\ Readable => LeafProofsLeadToRoot
    <2> SUFFICES ASSUME Good(tree, ledger), LeavesRead(tree, ledger) PROVE LeafProofsLeadToRoot
      BY DEF IInv, Readable
    <2>1. \A n \in DOMAIN tree.leaves : n[1] = 0 =>
            FoldProof(tree.leaves[n], n[2], get_proof_unchecked(tree, n[2])) = get_root(tree)
      BY ProofsOfGood
    <2> QED
      BY <2>1 DEF LeafProofsLeadToRoot
  <1> QED
    BY <1>1, ReadableAlways, PTL

\* The root and the proofs a wallet computes for a batch that is not final yet are
\* those of the tree after the batch, whatever part of it the tree already has
\* (merkle.rs get_virtual_subtree, get_root_optimistic, get_proof_optimistic_index).
THEOREM OptimisticIsTrue == Spec => []OptimisticIsCommitted
  <1>1. IInv /\ Readable => OptimisticIsCommitted
    BY OptimisticOfGood DEF OptimisticIsCommitted
  <1> QED
    BY <1>1, ReadableAlways, PTL

\* The root after commitments and the proofs of leaves that are still to be added
\* are those the tree gives with them (merkle.rs get_root_after_virtual,
\* get_proof_after_virtual).
THEOREM AfterVirtualIsTrue == Spec => []AfterVirtualIsCommitted
  <1>1. IInv /\ Readable => AfterVirtualIsCommitted
    <2> SUFFICES ASSUME IInv, Readable PROVE AfterVirtualIsCommitted
      OBVIOUS
    <2>1. ASSUME NEW n \in 1..MaxBatch, tree.next + n * GroupSize <= Capacity,
                 NEW batch \in Batches(tree.next, n), OfKind(batch, "leafs") = {}
          PROVE  get_root_after_virtual(tree,
                   [k \in 1..n |-> batch[tree.next + (k - 1) * GroupSize].hash])
                     = get_root(Last(add_leafs_and_commitments(tree, batch)))
      BY <2>1, RootAfterOfGood DEF CommitmentHashes
    <2>2. ASSUME tree.next < Capacity, NEW tx \in {x \in Txs : x.kind = "leafs"}
          PROVE  get_proof_after_virtual(tree, tx.leafs)
                   = [k \in 1..Len(tx.leafs) |->
                        get_proof_unchecked(Last(add_hashes(tree, tree.next, tx.leafs)), tree.next + k - 1)]
      BY <2>2, ProofAfterOfGood
    <2> QED
      BY <2>1, <2>2 DEF AfterVirtualIsCommitted
  <1> QED
    BY <1>1, ReadableAlways, PTL

\* The same holds of a tree whose calls may be interrupted between two transactions,
\* once it is rolled back after the restart (merkle.rs new, rollback).
THEOREM CrashedRootIsTrue == CrashSpec => []RootIsLedgerUnlessCrashed
  <1>1. CrashInv => RootIsLedgerUnlessCrashed
    BY RootOfGood DEF CrashInv, RootIsLedgerUnlessCrashed, RootIsLedger
  <1> QED
    BY <1>1, CrashInductive, PTL

\* Whatever transaction was the last one written, a rollback to an index reached
\* before, interrupted as often as may be, gives back the root of that time, and fails
\* only behind an empty block (merkle.rs rollback, get_node_full_batched).
THEOREM CrashesAreRecoverable == CrashSpec => []CrashIsRecoverable
  <1>1. CrashInv => CrashIsRecoverable
    BY CrashRecovers
  <1> QED
    BY <1>1, CrashInductive, PTL

\* A step of the tree is a step of the vector of leaves, or none.
LEMMA VectorStep ==
  ASSUME Good(tree, ledger), Good(tree', ledger'), Moves
  PROVE  Vector!Next \/ UNCHANGED Vector!vars
  <1>1. [i \in Index |-> get_root(tree)[i + 1]] = ledger
    BY VectorOfGood
  <1>2. [i \in Index |-> get_root(tree')[i + 1]] = ledger'
    BY VectorOfGood
  <1>3. /\ tree.next \in Nat /\ Whole(tree.next) /\ tree.next <= Capacity /\ FilledTo(ledger, tree.next)
        /\ ledger \in Vectors(Values)
    BY DEF Good, Holds, Whole
  <1>4. /\ tree'.next \in Nat /\ Whole(tree'.next) /\ tree'.next <= Capacity
        /\ FilledTo(ledger', tree'.next) /\ ledger' \in Vectors(Values)
    BY DEF Good, Holds, Whole
  <1>5. Capacity \in Nat /\ GroupSize \in Nat
    BY GroupSizeIs
  <1>6. Vector!Position = 0..(Capacity - 1) /\ Index = 0..(Capacity - 1)
    BY DEF Vector!Position, Index
  <1>7. CASE tree.next < tree'.next
    <2>1. \A i \in Index : i < tree.next => ledger'[i] = ledger[i]
      BY <1>3, <1>4, <1>7 DEF Moves
    <2>2. tree'.next \in (tree.next + 1)..Capacity /\ tree'.next % GroupSize = 0
      BY <1>3, <1>4, <1>5, <1>7 DEF Whole
    <2>3. DOMAIN ledger' = Vector!Position
      BY <1>4, <1>6 DEF Vectors
    <2>4. ASSUME NEW i \in Vector!Position
          PROVE  /\ i < tree.next => ledger'[i] = ledger[i]
                 /\ i \in tree.next..(tree'.next - 1) => ledger'[i] # Default
                 /\ i >= tree'.next => ledger'[i] = Default
      BY <1>3, <1>4, <1>5, <1>6, <2>1 DEF FilledTo
    <2>5. Vector!Grow
      BY <1>1, <1>2, <2>2, <2>3, <2>4 DEF Vector!Grow
    <2> QED
      BY <2>5 DEF Vector!Next
  <1>8. CASE tree.next = tree'.next
    <2>1. \A i \in Index : i < tree.next => ledger'[i] = ledger[i]
      BY <1>3, <1>6, <1>8 DEF Moves, Cut
    <2>2. \A i \in 0..(Capacity - 1) : ledger[i] = ledger'[i]
      BY <1>3, <1>4, <1>6, <1>8, <2>1, SameFilled
    <2>3. ledger' = ledger
      <3>1. ledger = [i \in 0..(Capacity - 1) |-> ledger[i]]
        BY <1>3 DEF Vectors
      <3>2. ledger' = [i \in 0..(Capacity - 1) |-> ledger'[i]]
        BY <1>4 DEF Vectors
      <3> QED
        BY <2>2, <3>1, <3>2
    <2> QED
      BY <1>1, <1>2, <1>8, <2>3 DEF Vector!vars
  <1>9. CASE tree'.next < tree.next
    <2>1. ledger' = Cut(ledger, tree'.next)
      BY <1>3, <1>4, <1>9 DEF Moves
    <2>2. tree'.next \in 0..(tree.next - 1) /\ tree'.next % GroupSize = 0
      BY <1>3, <1>4, <1>5, <1>9 DEF Whole
    <2>3. ledger' = [i \in Vector!Position |-> IF i < tree'.next THEN ledger[i] ELSE Default]
      BY <1>6, <2>1 DEF Cut
    <2>4. Vector!Cut
      BY <1>1, <1>2, <2>2, <2>3 DEF Vector!Cut
    <2> QED
      BY <2>4 DEF Vector!Next
  <1> QED
    BY <1>3, <1>4, <1>7, <1>8, <1>9

\* The tree implements a vector of leaves (LeafVector): whatever its root
\* commits to is kept, extended at the end by whole groups, or cut back to a
\* group boundary.
THEOREM ImplementsLeafVector == Spec => IsLeafVector
  <1>1. Init => Vector!Init
    <2> SUFFICES ASSUME Init PROVE Vector!Init
      OBVIOUS
    <2>1. Good(tree, ledger)
      BY InitGood DEF IInv
    <2>2. [i \in Index |-> get_root(tree)[i + 1]] = ledger
      BY <2>1, VectorOfGood
    <2>3. tree.next = 0 /\ ledger = [i \in Vector!Position |-> Default]
      BY DEF Init, EmptyTree, NoLeaves, Index, Vector!Position
    <2> QED
      BY <2>2, <2>3 DEF Vector!Init
  <1>2. IInv /\ [Next]_vars => [Vector!Next]_(Vector!vars)
    <2> SUFFICES ASSUME IInv, [Next]_vars PROVE [Vector!Next]_(Vector!vars)
      OBVIOUS
    <2>1. CASE Next
      <3>1. Good(tree, ledger) /\ Good(tree', ledger') /\ Moves
        BY <2>1, NextGood DEF IInv
      <3> QED
        BY <3>1, VectorStep
    <2>2. CASE UNCHANGED vars
      BY <2>2 DEF vars, Vector!vars
    <2> QED
      BY <2>1, <2>2
  <1> QED
    BY <1>1, <1>2, Inductive, PTL DEF Spec, IsLeafVector, Vector!Spec
=============================================================================
