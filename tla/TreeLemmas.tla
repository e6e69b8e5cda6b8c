----------------------------- MODULE TreeLemmas -----------------------------
(***************************************************************************)
(* Lemmas about the operators of MerkleTree: the geometry of its nodes,    *)
(* the hashes computed on the way down from the root, what an update and   *)
(* a rollback leave stored.  A vector of leaves stands for what the tree   *)
(* should hold; the lemmas say when the tree holds it.                     *)
(***************************************************************************)
EXTENDS MerkleTree, InductionLemmas

-----------------------------------------------------------------------------
\* Doubling h times from 1: the width of a node is a function of its height.
LEMMA WidthIs ==
  /\ Width \in [0..HEIGHT -> Nat]
  /\ Width[0] = 1
  /\ \A h \in 1..HEIGHT : Width[h] = 2 * Width[h - 1]
  <1> DEFINE step == [h \in 1..HEIGHT |-> [w \in Nat |-> 2 * w]]
  <1> DEFINE Body(f) == [h \in 0..HEIGHT |-> IF h = 0 THEN 1 ELSE 2 * f[h - 1]]
  <1>1. step \in [1..HEIGHT -> [Nat -> Nat]] /\ HEIGHT \in Nat /\ 1 \in Nat
    BY SizesAssumption
  <1>2. \E f : f \in Iterations(Nat, 1, HEIGHT, step)
    <2> HIDE DEF step
    <2> QED
      BY <1>1, Iterates, Zenon
  <1>3. PICK f \in [0..HEIGHT -> Nat] :
          f[0] = 1 /\ \A h \in 1..HEIGHT : f[h] = step[h][f[h - 1]]
    BY <1>2 DEF Iterations
  <1>4. ASSUME NEW h \in 1..HEIGHT PROVE f[h] = 2 * f[h - 1] /\ h - 1 \in 0..HEIGHT
    <2>1. h - 1 \in 0..HEIGHT
      BY SizesAssumption
    <2>2. f[h - 1] \in Nat
      BY <2>1
    <2>3. step[h][f[h - 1]] = 2 * f[h - 1]
      BY <2>2
    <2> QED
      BY <1>3, <2>1, <2>3
  <1> HIDE DEF step
  <1>5. f = Body(f)
    <2>1. f = [h \in 0..HEIGHT |-> f[h]]
      OBVIOUS
    <2>2. ASSUME NEW h \in 0..HEIGHT PROVE f[h] = IF h = 0 THEN 1 ELSE 2 * f[h - 1]
      <3>1. h # 0 => h \in 1..HEIGHT
        BY SizesAssumption
      <3> QED
        BY <1>3, <1>4, <3>1
    <2> QED
      BY <2>1, <2>2
  <1> DEFINE g == CHOOSE h : h = Body(h)
  <1>6. g = Body(g)
    <2> HIDE DEF Body
    <2> QED
      BY <1>5
  <1>7. Width = [h \in 0..HEIGHT |-> g[h]]
    BY DEF Width
  <1> HIDE DEF g
  <1>8. Width = g
    BY <1>6, <1>7
  <1>9. Width[0] = 1 /\ \A h \in 1..HEIGHT : Width[h] = 2 * Width[h - 1]
    BY <1>6, <1>8, SizesAssumption
  <1>10. Width = [h \in 0..HEIGHT |-> Width[h]]
    BY <1>7, <1>8
  <1>11. \A h \in 0..HEIGHT : Width[h] \in Nat
    <2> DEFINE S == {h \in 0..HEIGHT : Width[h] \in Nat}
    <2>1. 0 \in S
      BY <1>9, SizesAssumption
    <2>2. \A h \in 1..HEIGHT : h - 1 \in S => h \in S
      BY <1>9, SizesAssumption
    <2>3. 0..HEIGHT \subseteq S
      <3> HIDE DEF S
      <3> QED
        BY <2>1, <2>2, IntervalInduction, SizesAssumption
    <2> QED
      BY <2>3
  <1> QED
    BY <1>9, <1>10, <1>11

\* Every node has at least one leaf.
LEMMA WidthPositive ==
  \A h \in 0..HEIGHT : Width[h] \in Nat /\ Width[h] >= 1
  <1> DEFINE S == {h \in 0..HEIGHT : Width[h] >= 1}
  <1>1. 0 \in S
    BY WidthIs, SizesAssumption
  <1>2. \A h \in 1..HEIGHT : h - 1 \in S => h \in S
    BY WidthIs, SizesAssumption
  <1>3. 0..HEIGHT \subseteq S
    <2> HIDE DEF S
    <2> QED
      BY <1>1, <1>2, IntervalInduction, SizesAssumption
  <1> QED
    BY <1>3, WidthIs

\* Products in which one factor is doubled.
LEMMA DoubleProduct ==
  ASSUME NEW a \in Nat, NEW b \in Nat
  PROVE  a * (2 * b) = 2 * (a * b) /\ (2 * b) * a = 2 * (b * a) /\ a * b \in Nat
  OBVIOUS

\* The widths multiply as the heights add.
LEMMA WidthSum ==
  ASSUME NEW a \in 0..HEIGHT, NEW b \in 0..HEIGHT, a + b <= HEIGHT
  PROVE  Width[a + b] = Width[a] * Width[b]
  <1> DEFINE S == {n \in 0..HEIGHT : a + n <= HEIGHT => Width[a + n] = Width[a] * Width[n]}
  <1>1. 0 \in S
    BY WidthIs, SizesAssumption
  <1>2. ASSUME NEW n \in 1..HEIGHT, n - 1 \in S PROVE n \in S
    <2> SUFFICES ASSUME a + n <= HEIGHT PROVE Width[a + n] = Width[a] * Width[n]
      BY SizesAssumption
    <2>1. /\ a + n \in 1..HEIGHT /\ (a + n) - 1 = a + (n - 1) /\ a + (n - 1) <= HEIGHT
          /\ n - 1 \in 0..HEIGHT
      BY SizesAssumption
    <2>2. Width[a + n] = 2 * Width[a + (n - 1)]
      BY <2>1, WidthIs
    <2>3. Width[a + (n - 1)] = Width[a] * Width[n - 1]
      BY <1>2, <2>1
    <2>4. Width[n] = 2 * Width[n - 1] /\ Width[a] \in Nat /\ Width[n - 1] \in Nat
      BY <2>1, WidthIs
    <2>5. Width[a] * (2 * Width[n - 1]) = 2 * (Width[a] * Width[n - 1])
      BY <2>4, DoubleProduct
    <2> QED
      BY <2>2, <2>3, <2>4, <2>5
  <1>3. 0..HEIGHT \subseteq S
    <2> HIDE DEF S
    <2> QED
      BY <1>1, <1>2, IntervalInduction, SizesAssumption
  <1> QED
    BY <1>3
-----------------------------------------------------------------------------
\* Multiplication and the order, as the provers need them.
LEMMA ProductFacts ==
  ASSUME NEW i \in Nat, NEW w \in Nat
  PROVE  /\ i * w \in Nat /\ (i + 1) * w = i * w + w
         /\ w >= 1 => i <= i * w
  OBVIOUS

\* An index of a level is below the capacity.
LEMMA LevelWithinTree ==
  ASSUME NEW h \in 0..HEIGHT, NEW i \in Nat, i < Width[HEIGHT - h]
  PROVE  i * Width[h] + Width[h] <= Capacity /\ i < Capacity
  <1>1. /\ HEIGHT - h \in 0..HEIGHT /\ (HEIGHT - h) + h = HEIGHT
        /\ Width[HEIGHT - h] \in Nat /\ Width[h] \in Nat /\ Width[h] >= 1
    BY WidthPositive, SizesAssumption
  <1>2. Capacity = Width[HEIGHT - h] * Width[h]
    BY <1>1, WidthSum DEF Capacity
  <1>3. (i + 1) * Width[h] <= Width[HEIGHT - h] * Width[h]
    BY <1>1, ProductMonotone
  <1> QED
    BY <1>1, <1>2, <1>3, ProductFacts

\* The leaves below a node are within the tree.
LEMMA NodeIs ==
  ASSUME NEW n \in Node
  PROVE  /\ n = <<n[1], n[2]>> /\ n[1] \in 0..HEIGHT /\ n[2] \in Nat
         /\ n[2] < Width[HEIGHT - n[1]]
         /\ LeftEdge(n) \in Nat /\ RightEdge(n) = LeftEdge(n) + Width[n[1]]
         /\ LeftEdge(n) < RightEdge(n) /\ RightEdge(n) <= Capacity
         /\ Width[n[1]] \in Nat
  <1>1. n \in (0..HEIGHT) \X (0..(Capacity - 1)) /\ n[2] < Width[HEIGHT - n[1]]
    BY DEF Node
  <1>2. n = <<n[1], n[2]>> /\ n[1] \in 0..HEIGHT /\ n[2] \in Nat
    BY <1>1
  <1>3. Width[n[1]] \in Nat /\ Width[n[1]] >= 1
    BY <1>2, WidthPositive
  <1>4. n[2] * Width[n[1]] + Width[n[1]] <= Capacity
    BY <1>1, <1>2, LevelWithinTree
  <1> QED
    BY <1>1, <1>2, <1>3, <1>4, ProductFacts DEF LeftEdge, RightEdge

\* The nodes of a level are those whose leaves are within the tree.
LEMMA NodeAt ==
  ASSUME NEW h \in 0..HEIGHT, NEW i \in Nat, i < Width[HEIGHT - h]
  PROVE  <<h, i>> \in Node
  <1>1. i < Capacity /\ Capacity \in Nat
    BY LevelWithinTree, WidthPositive, SizesAssumption DEF Capacity
  <1> QED
    BY <1>1 DEF Node

\* A node is where its left edge is.
LEMMA SameEdge ==
  ASSUME NEW m \in Node, NEW n \in Node, m[1] = n[1], LeftEdge(m) = LeftEdge(n)
  PROVE  m = n
  <1>1. m[2] \in Nat /\ n[2] \in Nat /\ Width[n[1]] \in Nat /\ Width[n[1]] >= 1
    BY NodeIs, WidthPositive
  <1>2. m[2] * Width[n[1]] = n[2] * Width[n[1]]
    BY DEF LeftEdge
  <1>3. ASSUME NEW a \in Nat, NEW b \in Nat, NEW w \in Nat, w >= 1, a * w = b * w, a < b PROVE FALSE
    <2>1. (a + 1) * w <= b * w
      BY <1>3, ProductMonotone
    <2> QED
      BY <1>3, <2>1, ProductFacts
  <1>4. m[2] = n[2]
    BY <1>1, <1>2, <1>3
  <1> QED
    BY <1>4, NodeIs

\* The children of a node are its two halves.
LEMMA ChildrenAre ==
  ASSUME NEW n \in Node, n[1] > 0
  PROVE  /\ LeftChild(n) \in Node /\ RightChild(n) \in Node
         /\ LeftChild(n)[1] = n[1] - 1 /\ RightChild(n)[1] = n[1] - 1
         /\ Width[n[1]] = 2 * Width[n[1] - 1]
         /\ LeftEdge(LeftChild(n)) = LeftEdge(n)
         /\ RightEdge(LeftChild(n)) = LeftEdge(n) + Width[n[1] - 1]
         /\ LeftEdge(RightChild(n)) = LeftEdge(n) + Width[n[1] - 1]
         /\ RightEdge(RightChild(n)) = RightEdge(n)
  <1>1. /\ n[1] \in 0..HEIGHT /\ n[2] \in Nat /\ n[2] < Width[HEIGHT - n[1]]
    BY NodeIs
  <1>2. /\ n[1] \in 1..HEIGHT /\ n[1] - 1 \in 0..HEIGHT /\ HEIGHT - n[1] \in 0..HEIGHT
        /\ HEIGHT - (n[1] - 1) \in 1..HEIGHT /\ (HEIGHT - (n[1] - 1)) - 1 = HEIGHT - n[1]
    BY <1>1, SizesAssumption
  <1>3. /\ Width[n[1]] = 2 * Width[n[1] - 1]
        /\ Width[HEIGHT - (n[1] - 1)] = 2 * Width[HEIGHT - n[1]]
        /\ Width[n[1] - 1] \in Nat /\ Width[HEIGHT - n[1]] \in Nat
    BY <1>2, WidthIs
  <1>4. LeftChild(n) \in Node
    BY <1>1, <1>2, <1>3, NodeAt DEF LeftChild
  <1>5. RightChild(n) \in Node
    BY <1>1, <1>2, <1>3, NodeAt DEF RightChild
  <1>6. /\ LeftChild(n)[1] = n[1] - 1 /\ LeftChild(n)[2] = 2 * n[2]
        /\ RightChild(n)[1] = n[1] - 1 /\ RightChild(n)[2] = 2 * n[2] + 1
    BY DEF LeftChild, RightChild
  <1>7. ASSUME NEW i \in Nat, NEW w \in Nat
        PROVE  /\ i * (2 * w) = (2 * i) * w
               /\ (2 * i + 1) * w = i * (2 * w) + w
               /\ ((2 * i + 1) + 1) * w = i * (2 * w) + 2 * w
               /\ (i + 1) * (2 * w) = i * (2 * w) + 2 * w
    OBVIOUS
  <1>8. LeftEdge(LeftChild(n)) = LeftEdge(n)
    BY <1>1, <1>3, <1>6, <1>7 DEF LeftEdge
  <1>9. LeftEdge(RightChild(n)) = LeftEdge(n) + Width[n[1] - 1]
    BY <1>1, <1>3, <1>6, <1>7 DEF LeftEdge
  <1>10. RightEdge(LeftChild(n)) = LeftEdge(LeftChild(n)) + Width[n[1] - 1]
    BY <1>4, <1>6, NodeIs
  <1>11. RightEdge(RightChild(n)) = LeftEdge(RightChild(n)) + Width[n[1] - 1]
    BY <1>5, <1>6, NodeIs
  <1>12. RightEdge(n) = LeftEdge(n) + Width[n[1]] /\ LeftEdge(n) \in Nat
    BY NodeIs
  <1> QED
    BY <1>3, <1>4, <1>5, <1>6, <1>8, <1>9, <1>10, <1>11, <1>12

\* The root is above all leaves.
LEMMA RootIs ==
  Root \in Node /\ Root[1] = HEIGHT /\ LeftEdge(Root) = 0 /\ RightEdge(Root) = Capacity
  <1>1. HEIGHT \in 0..HEIGHT /\ HEIGHT - HEIGHT = 0 /\ Width[0] = 1 /\ Width[HEIGHT] \in Nat
    BY SizesAssumption, WidthIs
  <1>2. <<HEIGHT, 0>> \in Node
    BY <1>1, NodeAt
  <1> QED
    BY <1>1, <1>2 DEF Root, LeftEdge, RightEdge, Capacity
-----------------------------------------------------------------------------
\* A number is its quotient and its remainder.
LEMMA Division ==
  ASSUME NEW a \in Nat, NEW g \in Nat, g >= 1
  PROVE  a \div g \in Nat /\ a % g \in 0..(g - 1) /\ a = (a \div g) * g + (a % g)
  OBVIOUS

\* Widths multiply level by level.
LEMMA ProductAssociative ==
  ASSUME NEW q \in Nat, NEW d \in Nat, NEW w \in Nat, NEW r \in Nat
  PROVE  q * (d * w) \in Nat /\ r * w \in Nat /\ (q * d + r) * w = q * (d * w) + r * w
  OBVIOUS

\* The node of a height above a node covers it.
LEMMA AboveIs ==
  ASSUME NEW n \in Node, NEW h \in n[1]..HEIGHT
  PROVE  /\ Above(n, h) \in Node /\ Above(n, h)[1] = h
         /\ LeftEdge(Above(n, h)) <= LeftEdge(n) /\ RightEdge(n) <= RightEdge(Above(n, h))
  <1> DEFINE d == h - n[1]
             D == Width[d]
             W == Width[n[1]]
             q == n[2] \div D
             r == n[2] % D
  <1>1. /\ n[1] \in 0..HEIGHT /\ n[2] \in Nat /\ n[2] < Width[HEIGHT - n[1]]
        /\ RightEdge(n) = LeftEdge(n) + W /\ LeftEdge(n) = n[2] * W
    BY NodeIs DEF LeftEdge
  <1>2. /\ h \in 0..HEIGHT /\ d \in 0..HEIGHT /\ HEIGHT - h \in 0..HEIGHT /\ HEIGHT \in Nat
        /\ HEIGHT - n[1] \in 0..HEIGHT /\ (HEIGHT - h) + d = HEIGHT - n[1] /\ d + n[1] = h
    BY <1>1, SizesAssumption
  <1> HIDE DEF d
  <1>3. /\ D \in Nat /\ D >= 1 /\ W \in Nat /\ W >= 1 /\ Width[HEIGHT - h] \in Nat
        /\ Width[h] = D * W /\ Width[HEIGHT - n[1]] = Width[HEIGHT - h] * D
    <2>1. D \in Nat /\ D >= 1 /\ W \in Nat /\ W >= 1 /\ Width[HEIGHT - h] \in Nat
      BY <1>1, <1>2, WidthPositive
    <2>2. Width[d + n[1]] = D * W
      BY <1>1, <1>2, WidthSum
    <2>3. Width[(HEIGHT - h) + d] = Width[HEIGHT - h] * D
      BY <1>1, <1>2, WidthSum
    <2> QED
      BY <1>2, <2>1, <2>2, <2>3
  <1> HIDE DEF D, W
  <1>4. q \in Nat /\ r \in 0..(D - 1) /\ n[2] = q * D + r
    BY <1>1, <1>3, Division
  <1> HIDE DEF q, r
  <1>5. q < Width[HEIGHT - h]
    <2>1. ASSUME ~ q < Width[HEIGHT - h] PROVE FALSE
      <3>1. Width[HEIGHT - h] * D <= q * D
        BY <1>3, <1>4, <2>1, ProductMonotone
      <3>2. q * D \in Nat /\ Width[HEIGHT - h] * D \in Nat
        BY <1>3, <1>4, ProductFacts
      <3> QED
        BY <1>1, <1>3, <1>4, <3>1, <3>2
    <2> QED
      BY <2>1
  <1>6. Above(n, h) = <<h, q>>
    BY DEF Above, d, D, q
  <1>7. <<h, q>> \in Node
    BY <1>2, <1>4, <1>5, NodeAt
  <1>8. /\ LeftEdge(<<h, q>>) = q * (D * W)
        /\ RightEdge(<<h, q>>) = LeftEdge(<<h, q>>) + Width[h]
    BY <1>3, <1>7, NodeIs DEF LeftEdge
  <1>9. LeftEdge(n) = q * (D * W) + r * W /\ r * W \in Nat /\ q * (D * W) \in Nat
    BY <1>1, <1>3, <1>4, ProductAssociative
  <1>10. r * W + W <= D * W
    <2>1. (r + 1) * W <= D * W
      BY <1>3, <1>4, ProductMonotone
    <2>2. (r + 1) * W = r * W + W
      BY <1>3, <1>4, ProductFacts
    <2> QED
      BY <2>1, <2>2
  <1>11. D * W \in Nat
    BY <1>3, ProductFacts
  <1> QED
    BY <1>1, <1>3, <1>6, <1>7, <1>8, <1>9, <1>10, <1>11

\* Two nodes of a level that share a leaf are one.
LEMMA SameLevel ==
  ASSUME NEW m \in Node, NEW n \in Node, m[1] = n[1],
         LeftEdge(m) < RightEdge(n), LeftEdge(n) < RightEdge(m)
  PROVE  m = n
  <1>1. /\ m[2] \in Nat /\ n[2] \in Nat /\ Width[n[1]] \in Nat
        /\ LeftEdge(m) = m[2] * Width[n[1]] /\ RightEdge(m) = (m[2] + 1) * Width[n[1]]
        /\ LeftEdge(n) = n[2] * Width[n[1]] /\ RightEdge(n) = (n[2] + 1) * Width[n[1]]
    BY NodeIs DEF LeftEdge, RightEdge
  <1>2. LeftEdge(m) \in Nat /\ LeftEdge(n) \in Nat /\ RightEdge(m) \in Nat /\ RightEdge(n) \in Nat
    BY NodeIs
  <1>3. ~ m[2] < n[2]
    <2> SUFFICES ASSUME m[2] < n[2] PROVE FALSE
      OBVIOUS
    <2>1. (m[2] + 1) * Width[n[1]] <= n[2] * Width[n[1]]
      BY <1>1, ProductMonotone
    <2> QED
      BY <1>1, <1>2, <2>1
  <1>4. ~ n[2] < m[2]
    <2> SUFFICES ASSUME n[2] < m[2] PROVE FALSE
      OBVIOUS
    <2>1. (n[2] + 1) * Width[n[1]] <= m[2] * Width[n[1]]
      BY <1>1, ProductMonotone
    <2> QED
      BY <1>1, <1>2, <2>1
  <1>5. m[2] = n[2]
    BY <1>1, <1>3, <1>4
  <1> QED
    BY <1>5, NodeIs

\* A node that shares a leaf with a lower one is above it.
LEMMA AboveUnique ==
  ASSUME NEW m \in Node, NEW n \in Node, n[1] <= m[1],
         LeftEdge(m) < RightEdge(n), LeftEdge(n) < RightEdge(m)
  PROVE  m = Above(n, m[1]) /\ LeftEdge(m) <= LeftEdge(n) /\ RightEdge(n) <= RightEdge(m)
  <1>1. /\ m[1] \in n[1]..HEIGHT /\ LeftEdge(n) \in Nat /\ LeftEdge(m) \in Nat
        /\ RightEdge(n) \in Nat /\ RightEdge(m) \in Nat
    BY NodeIs, SizesAssumption
  <1> DEFINE a == Above(n, m[1])
  <1>2. /\ a \in Node /\ a[1] = m[1]
        /\ LeftEdge(a) <= LeftEdge(n) /\ RightEdge(n) <= RightEdge(a)
        /\ LeftEdge(a) \in Nat /\ RightEdge(a) \in Nat
    BY <1>1, AboveIs, NodeIs
  <1> HIDE DEF a
  <1>3. LeftEdge(m) < RightEdge(a) /\ LeftEdge(a) < RightEdge(m)
    BY <1>1, <1>2
  <1>4. m = a
    BY <1>2, <1>3, SameLevel
  <1> QED
    BY <1>2, <1>4 DEF a

\* Nodes share no leaf or lie one above the other.
LEMMA Dyadic ==
  ASSUME NEW m \in Node, NEW n \in Node, n[1] <= m[1]
  PROVE  \/ RightEdge(n) <= LeftEdge(m)
         \/ RightEdge(m) <= LeftEdge(n)
         \/ LeftEdge(m) <= LeftEdge(n) /\ RightEdge(n) <= RightEdge(m)
  <1>1. /\ LeftEdge(n) \in Nat /\ LeftEdge(m) \in Nat
        /\ RightEdge(n) \in Nat /\ RightEdge(m) \in Nat
    BY NodeIs
  <1> QED
    BY <1>1, AboveUnique

\* The ancestors of a node are the higher nodes that have its leaves.
LEMMA AncestorsAre ==
  ASSUME NEW n \in Node
  PROVE  Ancestors(n) = {m \in Node : /\ n[1] < m[1] /\ LeftEdge(m) <= LeftEdge(n)
                                      /\ RightEdge(n) <= RightEdge(m)}
  <1>1. n[1] \in 0..HEIGHT
    BY NodeIs
  <1>2. ASSUME NEW h \in (n[1] + 1)..HEIGHT
        PROVE  /\ Above(n, h) \in Node /\ n[1] < Above(n, h)[1]
               /\ LeftEdge(Above(n, h)) <= LeftEdge(n) /\ RightEdge(n) <= RightEdge(Above(n, h))
    <2>1. h \in n[1]..HEIGHT /\ n[1] < h
      BY <1>1, SizesAssumption
    <2> QED
      BY <2>1, AboveIs
  <1>3. ASSUME NEW m \in Node, n[1] < m[1], LeftEdge(m) <= LeftEdge(n), RightEdge(n) <= RightEdge(m)
        PROVE  m \in Ancestors(n)
    <2>1. LeftEdge(m) < RightEdge(n) /\ LeftEdge(n) < RightEdge(m) /\ n[1] <= m[1]
      BY <1>3, NodeIs
    <2>2. m = Above(n, m[1])
      BY <2>1, AboveUnique
    <2>3. m[1] \in (n[1] + 1)..HEIGHT
      BY <1>1, <1>3, NodeIs, SizesAssumption
    <2> QED
      BY <2>2, <2>3 DEF Ancestors
  <1> QED
    BY <1>2, <1>3 DEF Ancestors

\* A node is a child of the node above it, its sibling is the other one.
LEMMA ParentIs ==
  ASSUME NEW n \in Node, n[1] < HEIGHT
  PROVE  LET p == Above(n, n[1] + 1)
         IN  /\ p \in Node /\ p[1] = n[1] + 1
             /\ \/ n[2] % 2 = 0 /\ n = LeftChild(p) /\ Sibling(n) = RightChild(p)
                \/ n[2] % 2 = 1 /\ n = RightChild(p) /\ Sibling(n) = LeftChild(p)
  <1> DEFINE p == Above(n, n[1] + 1)
  <1>1. n[1] \in 0..HEIGHT /\ n[1] + 1 \in n[1]..HEIGHT /\ n[2] \in Nat /\ n = <<n[1], n[2]>>
    BY NodeIs, SizesAssumption
  <1>2. /\ p \in Node /\ p[1] = n[1] + 1
        /\ LeftEdge(p) <= LeftEdge(n) /\ RightEdge(n) <= RightEdge(p)
    BY <1>1, AboveIs
  <1> HIDE DEF p
  <1>3. /\ LeftChild(p) \in Node /\ RightChild(p) \in Node
        /\ LeftChild(p)[1] = n[1] /\ RightChild(p)[1] = n[1]
        /\ LeftEdge(LeftChild(p)) = LeftEdge(p)
        /\ RightEdge(LeftChild(p)) = LeftEdge(RightChild(p))
        /\ RightEdge(RightChild(p)) = RightEdge(p)
        /\ LeftEdge(RightChild(p)) \in Nat
        /\ p[2] \in Nat
    <2>1. p[1] > 0 /\ p[1] - 1 = n[1]
      BY <1>1, <1>2
    <2>2. p[2] \in Nat /\ LeftEdge(p) \in Nat
      BY <1>2, NodeIs
    <2>3. /\ LeftChild(p) \in Node /\ RightChild(p) \in Node
          /\ LeftChild(p)[1] = n[1] /\ RightChild(p)[1] = n[1]
          /\ LeftEdge(LeftChild(p)) = LeftEdge(p)
          /\ RightEdge(LeftChild(p)) = LeftEdge(RightChild(p))
          /\ RightEdge(RightChild(p)) = RightEdge(p)
      BY <1>2, <2>1, ChildrenAre
    <2>4. LeftEdge(RightChild(p)) \in Nat
      BY <2>3, NodeIs
    <2> QED
      BY <2>2, <2>3, <2>4
  <1>4. LeftEdge(n) \in Nat /\ LeftEdge(n) < RightEdge(n) /\ RightEdge(n) \in Nat
    BY NodeIs
  <1>5. n = LeftChild(p) \/ n = RightChild(p)
    <2>1. CASE LeftEdge(n) < LeftEdge(RightChild(p))
      BY <1>2, <1>3, <1>4, <2>1, SameLevel, NodeIs
    <2>2. CASE LeftEdge(RightChild(p)) <= LeftEdge(n)
      BY <1>2, <1>3, <1>4, <2>2, SameLevel, NodeIs
    <2> QED
      BY <1>3, <1>4, <2>1, <2>2
  <1>6. p[1] - 1 = n[1]
    BY <1>1, <1>2
  <1>7. /\ n = LeftChild(p) => n[2] = 2 * p[2]
        /\ n = RightChild(p) => n[2] = 2 * p[2] + 1
    BY DEF LeftChild, RightChild
  <1>8. ASSUME NEW i \in Nat PROVE (2 * i) % 2 = 0 /\ (2 * i + 1) % 2 = 1
    OBVIOUS
  <1>9. CASE n = LeftChild(p)
    <2>1. n[2] = 2 * p[2] /\ n[2] % 2 = 0
      BY <1>3, <1>7, <1>8, <1>9
    <2>2. Sibling(n) = RightChild(p)
      BY <1>3, <1>6, <2>1 DEF Sibling, RightChild
    <2> QED
      BY <1>2, <1>9, <2>1, <2>2 DEF p
  <1>10. CASE n = RightChild(p)
    <2>1. n[2] = 2 * p[2] + 1 /\ n[2] % 2 = 1
      BY <1>3, <1>7, <1>8, <1>10
    <2>2. Sibling(n) = LeftChild(p)
      BY <1>3, <1>6, <2>1 DEF Sibling, LeftChild
    <2> QED
      BY <1>2, <1>10, <2>1, <2>2 DEF p
  <1> QED
    BY <1>5, <1>9, <1>10

\* What is above a child is its parent and what is above that.
LEMMA AncestorsOfChild ==
  ASSUME NEW n \in Node, n[1] > 0, NEW c \in {LeftChild(n), RightChild(n)}
  PROVE  /\ c \in Node /\ c[1] = n[1] - 1
         /\ LeftEdge(n) <= LeftEdge(c) /\ RightEdge(c) <= RightEdge(n)
         /\ Ancestors(c) = {n} \cup Ancestors(n)
  <1>1. /\ c \in Node /\ c[1] = n[1] - 1 /\ n[1] \in Nat
        /\ LeftEdge(n) <= LeftEdge(c) /\ RightEdge(c) <= RightEdge(n)
    BY ChildrenAre, NodeIs
  <1>2. ASSUME NEW m \in Node, c[1] < m[1], LeftEdge(m) <= LeftEdge(c), RightEdge(c) <= RightEdge(m)
        PROVE  \/ m = n
               \/ n[1] < m[1] /\ LeftEdge(m) <= LeftEdge(n) /\ RightEdge(n) <= RightEdge(m)
    <2>1. LeftEdge(m) < RightEdge(n) /\ LeftEdge(n) < RightEdge(m) /\ n[1] <= m[1]
      BY <1>1, <1>2, NodeIs
    <2>2. m = Above(n, m[1]) /\ LeftEdge(m) <= LeftEdge(n) /\ RightEdge(n) <= RightEdge(m)
      BY <2>1, AboveUnique
    <2>3. m[1] = n[1] => m = n
      BY <2>1, SameLevel
    <2> QED
      BY <2>1, <2>2, <2>3, NodeIs
  <1>3. ASSUME NEW m \in Node, n[1] < m[1], LeftEdge(m) <= LeftEdge(n), RightEdge(n) <= RightEdge(m)
        PROVE  c[1] < m[1] /\ LeftEdge(m) <= LeftEdge(c) /\ RightEdge(c) <= RightEdge(m)
    BY <1>1, <1>3, NodeIs
  <1>4. Ancestors(c) = {m \in Node : /\ c[1] < m[1] /\ LeftEdge(m) <= LeftEdge(c)
                                      /\ RightEdge(c) <= RightEdge(m)}
    BY <1>1, AncestorsAre
  <1>5. Ancestors(n) = {m \in Node : /\ n[1] < m[1] /\ LeftEdge(m) <= LeftEdge(n)
                                      /\ RightEdge(n) <= RightEdge(m)}
    BY AncestorsAre
  <1> QED
    BY <1>1, <1>2, <1>3, <1>4, <1>5

-----------------------------------------------------------------------------
\* What the descent from the root returns exists and satisfies its equation.
HashFrom(known, f, m) ==
  IF m \in DOMAIN known THEN known[m]
  ELSE IF m[1] = 0 THEN None
  ELSE hash_of_children(f[LeftChild(m)], f[RightChild(m)])

\* There is such a function: the levels are computed one after the other.
LEMMA HashesAboveExists ==
  ASSUME NEW known
  PROVE  \E f : f = [m \in Node |-> HashFrom(known, f, m)]
  <1> DEFINE Low(h) == {m \in Node : m[1] <= h}
             Body(f, h) == [m \in Low(h) |-> HashFrom(known, f, m)]
             S == {h \in 0..HEIGHT : \E f : f = Body(f, h)}
  <1>1. 0 \in S
    <2> DEFINE f == [m \in Low(0) |-> IF m \in DOMAIN known THEN known[m] ELSE None]
    <2>1. ASSUME NEW m \in Low(0) PROVE f[m] = HashFrom(known, f, m)
      <3>1. m[1] = 0
        BY NodeIs
      <3> QED
        BY <3>1 DEF HashFrom
    <2>2. f = [m \in Low(0) |-> f[m]]
      OBVIOUS
    <2> HIDE DEF f
    <2>3. f = Body(f, 0)
      BY <2>1, <2>2
    <2> HIDE DEF Body
    <2>4. \E e : e = Body(e, 0)
      BY <2>3
    <2> QED
      BY <2>4, SizesAssumption
  <1>2. ASSUME NEW h \in 1..HEIGHT, h - 1 \in S PROVE h \in S
    <2>1. PICK f : f = Body(f, h - 1)
      BY <1>2
    <2> DEFINE g == [m \in Low(h) |-> IF m[1] < h THEN f[m] ELSE HashFrom(known, f, m)]
    <2>2. \A m \in Low(h) : m[1] < h <=> m \in Low(h - 1)
      BY NodeIs
    <2>3. \A m \in Low(h) : m[1] < h => g[m] = f[m] /\ f[m] = HashFrom(known, f, m)
      BY <2>1, <2>2
    <2>4. ASSUME NEW m \in Low(h) PROVE HashFrom(known, g, m) = HashFrom(known, f, m)
      <3>1. CASE m[1] = 0
        BY <3>1 DEF HashFrom
      <3>2. CASE m[1] # 0
        <4>1. m \in Node /\ m[1] > 0 /\ m[1] \in Nat
          BY <3>2, NodeIs
        <4>2. /\ LeftChild(m) \in Node /\ RightChild(m) \in Node
              /\ LeftChild(m)[1] = m[1] - 1 /\ RightChild(m)[1] = m[1] - 1
          BY <4>1, ChildrenAre
        <4>3. LeftChild(m) \in Low(h) /\ RightChild(m) \in Low(h)
              /\ LeftChild(m)[1] < h /\ RightChild(m)[1] < h
          BY <4>1, <4>2
        <4>4. g[LeftChild(m)] = f[LeftChild(m)] /\ g[RightChild(m)] = f[RightChild(m)]
          BY <2>3, <4>3
        <4> QED
          BY <4>4 DEF HashFrom
      <3> QED
        BY <3>1, <3>2
    <2>5. ASSUME NEW m \in Low(h) PROVE g[m] = HashFrom(known, g, m)
      BY <2>3, <2>4
    <2>6. g = [m \in Low(h) |-> g[m]]
      OBVIOUS
    <2> HIDE DEF g
    <2>7. g = Body(g, h)
      BY <2>5, <2>6
    <2> HIDE DEF Body
    <2>8. \E e : e = Body(e, h)
      BY <2>7
    <2>9. h \in 0..HEIGHT
      BY SizesAssumption
    <2> QED
      BY <2>8, <2>9
  <1>3. 0..HEIGHT \subseteq S
    <2> HIDE DEF S
    <2> QED
      BY <1>1, <1>2, IntervalInduction, SizesAssumption
  <1>4. HEIGHT \in S
    BY <1>3, SizesAssumption
  <1>5. Low(HEIGHT) = Node
    BY NodeIs, SizesAssumption
  <1> QED
    BY <1>4, <1>5

\* hashes_above is that function.
LEMMA HashesAboveIs ==
  ASSUME NEW known
  PROVE  hashes_above(known) = [m \in Node |-> HashFrom(known, hashes_above(known), m)]
  <1> DEFINE Body(f) == [m \in Node |-> HashFrom(known, f, m)]
             g == CHOOSE f : f = Body(f)
  <1>1. \E f : f = Body(f)
    BY HashesAboveExists
  <1>2. g = Body(g)
    <2> HIDE DEF Body
    <2> QED
      BY <1>1
  <1>3. hashes_above(known) = g
    BY DEF hashes_above, HashFrom
  <1> QED
    BY <1>2, <1>3
-----------------------------------------------------------------------------
\* A sequence of two halves.
Rows(w, X) == [1..w -> X]
\* Their concatenation, position by position.
Joined(w, f, g) == [k \in 1..(2 * w) |-> IF k <= w THEN f[k] ELSE g[k - w]]

\* Two sequences of the same length, one after the other.
LEMMA ConcatHalves ==
  ASSUME NEW X, NEW w \in Nat, NEW f \in Rows(w, X), NEW g \in Rows(w, X)
  PROVE  f \o g = Joined(w, f, g)
  <1>1. f \in Seq(X) /\ g \in Seq(X) /\ Len(f) = w /\ Len(g) = w
    BY DEF Rows
  <1>2. f \o g \in Seq(X) /\ Len(f \o g) = 2 * w
    BY <1>1
  <1>3. DOMAIN (f \o g) = 1..(2 * w)
    BY <1>2
  <1>4. ASSUME NEW k \in 1..(2 * w) PROVE (f \o g)[k] = IF k <= w THEN f[k] ELSE g[k - w]
    BY <1>1
  <1>5. f \o g = [k \in 1..(2 * w) |-> (f \o g)[k]]
    <2>1. ASSUME NEW q \in Seq(X), DOMAIN q = 1..(2 * w) PROVE q = [k \in 1..(2 * w) |-> q[k]]
      BY <2>1
    <2> QED
      BY <1>2, <1>3, <2>1
  <1> QED
    BY <1>4, <1>5 DEF Joined

\* The leaves of a tree are given by their positions.
Vectors(X) == [0..(Capacity - 1) -> X]

\* A hash is a sequence of leaf values, as long as the node is wide.
LEMMA HashType ==
  ASSUME NEW X, NEW L \in Vectors(X), NEW n \in Node
  PROVE  HashOf(L, n) \in [1..Width[n[1]] -> X]
  <1>1. ASSUME NEW k \in 1..Width[n[1]] PROVE LeftEdge(n) + k - 1 \in 0..(Capacity - 1)
    BY NodeIs, WidthPositive, SizesAssumption DEF Capacity
  <1> QED
    BY <1>1 DEF HashOf, Vectors

\* The hash of a node is made of those of its children.
LEMMA HashOfChildren ==
  ASSUME NEW X, NEW L \in Vectors(X), NEW n \in Node, n[1] > 0
  PROVE  poseidon(HashOf(L, LeftChild(n)), HashOf(L, RightChild(n))) = HashOf(L, n)
  <1> DEFINE w == Width[n[1] - 1]
             l == HashOf(L, LeftChild(n))
             r == HashOf(L, RightChild(n))
             e == LeftEdge(n)
  <1>1. /\ LeftChild(n) \in Node /\ RightChild(n) \in Node
        /\ LeftChild(n)[1] = n[1] - 1 /\ RightChild(n)[1] = n[1] - 1
        /\ Width[n[1]] = 2 * w /\ LeftEdge(LeftChild(n)) = e /\ LeftEdge(RightChild(n)) = e + w
    BY ChildrenAre
  <1>2. w \in Nat /\ e \in Nat
    BY <1>1, NodeIs
  <1>3. l = [k \in 1..w |-> L[e + k - 1]] /\ r = [k \in 1..w |-> L[(e + w) + k - 1]]
    BY <1>1 DEF HashOf
  <1>4. l \in [1..w -> X] /\ r \in [1..w -> X]
    BY <1>1, HashType
  <1> HIDE DEF l, r, w, e
  <1>5. l \o r = Joined(w, l, r)
    <2>1. l \in Rows(w, X) /\ r \in Rows(w, X) /\ w \in Nat
      BY <1>2, <1>4 DEF Rows
    <2> QED
      BY <2>1, ConcatHalves, Zenon
  <1>6. ASSUME NEW k \in 1..(2 * w)
        PROVE  (IF k <= w THEN l[k] ELSE r[k - w]) = L[e + k - 1]
    <2>1. CASE k <= w
      BY <1>2, <1>3, <2>1
    <2>2. CASE ~ k <= w
      <3>1. k - w \in 1..w /\ (e + w) + (k - w) - 1 = e + k - 1
        BY <1>2, <2>2
      <3> QED
        BY <1>3, <2>2, <3>1
    <2> QED
      BY <2>1, <2>2
  <1>7. HashOf(L, n) = [k \in 1..(2 * w) |-> L[e + k - 1]]
    BY <1>1 DEF HashOf, w, e
  <1> QED
    BY <1>5, <1>6, <1>7 DEF poseidon, l, r, Joined

-----------------------------------------------------------------------------
\* The descent comes to a node if it knows none of its ancestors.
Reached(known, n) == \A m \in Ancestors(n) : m \notin DOMAIN known

\* The descent reaches a child exactly when it goes on at its parent.
LEMMA ChildReached ==
  ASSUME NEW known, NEW n \in Node, n[1] > 0, NEW c \in {LeftChild(n), RightChild(n)}
  PROVE  Reached(known, c) <=> Reached(known, n) /\ n \notin DOMAIN known
  BY AncestorsOfChild DEF Reached

\* If what the descent knows are the hashes over L, so is what it returns, if it
\* returns a hash; it does if it knows every leaf it comes to.
LEMMA HashesAreTrue ==
  ASSUME NEW X, NEW L \in Vectors(X), NEW known,
         \A n \in Node : HashOf(L, n) # None,
         \A n \in Node : n \in DOMAIN known /\ Reached(known, n) => known[n] = HashOf(L, n)
  PROVE  \A n \in Node : Reached(known, n) =>
           /\ hashes_above(known)[n] \in {None, HashOf(L, n)}
           /\ (\A m \in Node : m[1] = 0 /\ Reached(known, m) => m \in DOMAIN known) =>
                hashes_above(known)[n] = HashOf(L, n)
  <1> DEFINE f == hashes_above(known)
             NoGap == \A m \in Node : m[1] = 0 /\ Reached(known, m) => m \in DOMAIN known
             True(n) == /\ f[n] \in {None, HashOf(L, n)}
                        /\ NoGap => f[n] = HashOf(L, n)
             S == {h \in 0..HEIGHT : \A n \in Node : n[1] = h /\ Reached(known, n) => True(n)}
  <1>1. \A n \in Node : f[n] = HashFrom(known, f, n)
    BY HashesAboveIs
  <1> HIDE DEF f
  <1>2. ASSUME NEW n \in Node, n \in DOMAIN known, Reached(known, n) PROVE True(n)
    BY <1>1, <1>2 DEF HashFrom
  <1>3. ASSUME NEW n \in Node, n[1] = 0, Reached(known, n) PROVE True(n)
    <2>1. CASE n \in DOMAIN known
      BY <1>2, <1>3, <2>1
    <2>2. CASE n \notin DOMAIN known
      <3>1. f[n] = None /\ ~NoGap
        BY <1>1, <1>3, <2>2 DEF HashFrom
      <3> QED
        BY <3>1
    <2> QED
      BY <2>1, <2>2
  <1>4. ASSUME NEW h \in 1..HEIGHT, h - 1 \in S, NEW n \in Node, n[1] = h, Reached(known, n)
        PROVE  True(n)
    <2>1. CASE n \in DOMAIN known
      BY <1>2, <1>4, <2>1
    <2>2. CASE n \notin DOMAIN known
      <3> DEFINE l == LeftChild(n)
                 r == RightChild(n)
      <3>1. n[1] > 0 /\ n[1] # 0
        BY <1>4
      <3>2. l \in Node /\ r \in Node /\ l[1] = h - 1 /\ r[1] = h - 1
        BY <1>4, <3>1, ChildrenAre
      <3>3. Reached(known, l) /\ Reached(known, r)
        BY <1>4, <2>2, <3>1, ChildReached
      <3>4. True(l) /\ True(r)
        BY <1>4, <3>2, <3>3
      <3>5. f[n] = hash_of_children(f[l], f[r])
        BY <1>1, <2>2, <3>1 DEF HashFrom
      <3>6. poseidon(HashOf(L, l), HashOf(L, r)) = HashOf(L, n)
        BY <3>1, HashOfChildren
      <3>7. HashOf(L, l) # None /\ HashOf(L, r) # None
        BY <3>2
      <3> HIDE DEF l, r
      <3>8. CASE f[l] = None \/ f[r] = None
        BY <3>4, <3>5, <3>7, <3>8 DEF hash_of_children
      <3>9. CASE f[l] = HashOf(L, l) /\ f[r] = HashOf(L, r)
        BY <3>5, <3>6, <3>7, <3>9 DEF hash_of_children
      <3> QED
        BY <3>4, <3>8, <3>9
    <2> QED
      BY <2>1, <2>2
  <1>5. 0 \in S
    BY <1>3, SizesAssumption
  <1>6. \A h \in 1..HEIGHT : h - 1 \in S => h \in S
    <2> SUFFICES ASSUME NEW h \in 1..HEIGHT, h - 1 \in S PROVE h \in S
      OBVIOUS
    <2>1. h \in 0..HEIGHT
      BY SizesAssumption
    <2>2. \A n \in Node : n[1] = h /\ Reached(known, n) => True(n)
      BY <1>4
    <2> QED
      BY <2>1, <2>2
  <1>7. 0..HEIGHT \subseteq S
    <2> HIDE DEF S
    <2> QED
      BY <1>5, <1>6, IntervalInduction, SizesAssumption
  <1>8. ASSUME NEW n \in Node, Reached(known, n) PROVE True(n)
    <2>1. n[1] \in S
      BY <1>7, NodeIs
    <2> QED
      BY <1>8, <2>1
  <1> QED
    BY <1>8 DEF f

\* If the root has a hash, so has every node the descent comes to.
LEMMA HashesBelowRoot ==
  ASSUME NEW known, hashes_above(known)[Root] # None
  PROVE  \A n \in Node : Reached(known, n) => hashes_above(known)[n] # None
  <1> DEFINE f == hashes_above(known)
             S == {d \in 0..HEIGHT :
                     \A n \in Node : n[1] = HEIGHT - d /\ Reached(known, n) => f[n] # None}
  <1>1. \A n \in Node : f[n] = HashFrom(known, f, n)
    BY HashesAboveIs
  <1>2. f[Root] # None
    OBVIOUS
  <1> HIDE DEF f
  <1>3. 0 \in S
    <2>1. ASSUME NEW n \in Node, n[1] = HEIGHT PROVE n = Root
      BY <2>1, RootIs, NodeIs, SameLevel
    <2>2. HEIGHT - 0 = HEIGHT /\ 0 \in 0..HEIGHT
      BY SizesAssumption
    <2> QED
      BY <1>2, <2>1, <2>2
  <1>4. ASSUME NEW d \in 1..HEIGHT, d - 1 \in S PROVE d \in S
    <2>1. ASSUME NEW n \in Node, n[1] = HEIGHT - d, Reached(known, n) PROVE f[n] # None
      <3> DEFINE p == Above(n, n[1] + 1)
      <3>1. n[1] < HEIGHT
        BY <2>1, SizesAssumption
      <3>2. p \in Node /\ p[1] = n[1] + 1 /\ (n = LeftChild(p) \/ n = RightChild(p))
        BY <3>1, ParentIs
      <3> HIDE DEF p
      <3>3. p[1] > 0 /\ p[1] = HEIGHT - (d - 1) /\ p[1] # 0
        BY <2>1, <3>2, NodeIs, SizesAssumption
      <3>4. Reached(known, p) /\ p \notin DOMAIN known
        BY <2>1, <3>2, <3>3, ChildReached
      <3>5. f[p] # None
        BY <1>4, <3>2, <3>3, <3>4
      <3>6. f[p] = hash_of_children(f[LeftChild(p)], f[RightChild(p)])
        BY <1>1, <3>2, <3>3, <3>4 DEF HashFrom
      <3> QED
        BY <3>2, <3>5, <3>6 DEF hash_of_children
    <2>2. d \in 0..HEIGHT
      BY SizesAssumption
    <2> QED
      BY <2>1, <2>2
  <1>5. 0..HEIGHT \subseteq S
    <2> HIDE DEF S
    <2> QED
      BY <1>3, <1>4, IntervalInduction, SizesAssumption
  <1>6. ASSUME NEW n \in Node, Reached(known, n) PROVE f[n] # None
    <2>1. HEIGHT - n[1] \in S /\ n[1] = HEIGHT - (HEIGHT - n[1])
      BY <1>5, NodeIs, SizesAssumption
    <2> QED
      BY <1>6, <2>1
  <1> QED
    BY <1>6 DEF f
-----------------------------------------------------------------------------
\* Trees without temporary leaves, as wallets have them, over leaf values X.
PartialHashes(X) == UNION {[S -> Seq(X)] : S \in SUBSET Node}
\* The tree values, with the types their fields have.
Trees(X) ==
  [leaves : PartialHashes(X), temp : {NoNodes}, db_next : Nat \cup {None},
   db_first : Nat \cup {None}, stable : Nat, clean : {0}, next : Nat,
   first : Nat \cup {None}]

\* A function from some of the nodes to sequences.
LEMMA PartialIs ==
  ASSUME NEW X, NEW f \in PartialHashes(X)
  PROVE  /\ DOMAIN f \subseteq Node /\ f = [n \in DOMAIN f |-> f[n]]
         /\ \A n \in DOMAIN f : f[n] \in Seq(X)
  <1>1. PICK S \in SUBSET Node : f \in [S -> Seq(X)]
    BY DEF PartialHashes
  <1> QED
    BY <1>1

\* Such a function, given by its domain.
LEMMA PartialMake ==
  ASSUME NEW X, NEW S \in SUBSET Node, NEW f \in [S -> Seq(X)]
  PROVE  f \in PartialHashes(X)
  BY DEF PartialHashes

\* The one without nodes.
LEMMA NoNodesPartial == ASSUME NEW X PROVE NoNodes \in PartialHashes(X)
  <1>1. NoNodes \in [{} -> Seq(X)]
    BY DEF NoNodes
  <1> QED
    BY <1>1, PartialMake

\* What put_hashes stores: the hashes that are not those of zero notes.
Stored(hashes) == {n \in DOMAIN hashes : hashes[n] # zero_note_hashes[n[1]]}
\* The column of leaves after put_hashes.
PutLeaves(leaves, hashes) ==
  [n \in (DOMAIN leaves \ DOMAIN hashes) \cup Stored(hashes) |->
     IF n \in Stored(hashes) THEN hashes[n] ELSE leaves[n]]

\* The other columns of a tree.
SameIndexes(t, u) ==
  /\ u.next = t.next /\ u.db_next = t.db_next /\ u.first = t.first /\ u.db_first = t.db_first
  /\ u.stable = t.stable

\* put_hashes changes that column and nothing else.
LEMMA PutHashesIs ==
  ASSUME NEW X, NEW t \in Trees(X), NEW hashes \in PartialHashes(X)
  PROVE  /\ put_hashes(t, hashes) \in Trees(X)
         /\ put_hashes(t, hashes).leaves = PutLeaves(t.leaves, hashes)
         /\ SameIndexes(t, put_hashes(t, hashes))
  <1> DEFINE new == PutLeaves(t.leaves, hashes)
             keep == (DOMAIN t.leaves \ DOMAIN hashes) \cup Stored(hashes)
             counts == [n \in DOMAIN hashes |-> 0]
             counted == {n \in DOMAIN hashes : counts[n] > 0}
             temp == [n \in (DOMAIN t.temp \ DOMAIN hashes) \cup counted |->
                        IF n \in counted THEN counts[n] ELSE t.temp[n]]
  <1>1. t.leaves \in PartialHashes(X) /\ t.temp = NoNodes
    BY DEF Trees
  <1>2. /\ DOMAIN t.leaves \subseteq Node /\ \A n \in DOMAIN t.leaves : t.leaves[n] \in Seq(X)
        /\ DOMAIN hashes \subseteq Node /\ \A n \in DOMAIN hashes : hashes[n] \in Seq(X)
    BY <1>1, PartialIs
  <1>3. new \in [keep -> Seq(X)] /\ keep \in SUBSET Node
    BY <1>2 DEF PutLeaves, Stored
  <1>4. new \in PartialHashes(X)
    BY <1>3, PartialMake
  <1>5. counted = {} /\ DOMAIN t.temp = {}
    BY <1>1 DEF NoNodes
  <1>6. temp = NoNodes
    BY <1>5 DEF NoNodes
  <1>7. put_hashes(t, hashes) = [t EXCEPT !.leaves = new, !.temp = temp]
    BY DEF put_hashes, set_batched, PutLeaves, Stored
  <1> HIDE DEF new, temp
  <1>8. put_hashes(t, hashes) = [t EXCEPT !.leaves = new, !.temp = NoNodes]
    BY <1>6, <1>7
  <1> QED
    BY <1>4, <1>8 DEF Trees, SameIndexes, new
-----------------------------------------------------------------------------
\* The leaves below a node, and what their values say of its hash.
Below(n) == {i \in Nat : LeftEdge(n) <= i /\ i < RightEdge(n)}

\* A leaf below a node is in the tree, and its value in the hash of the node.
LEMMA BelowIs ==
  ASSUME NEW n \in Node, NEW i \in Below(n)
  PROVE  /\ i \in 0..(Capacity - 1) /\ (i - LeftEdge(n)) + 1 \in 1..Width[n[1]]
         /\ LeftEdge(n) + ((i - LeftEdge(n)) + 1) - 1 = i
  BY NodeIs, WidthPositive, SizesAssumption DEF Below, Capacity

\* A value in the hash of a node is that of a leaf below it.
LEMMA BelowHas ==
  ASSUME NEW n \in Node, NEW k \in 1..Width[n[1]]
  PROVE  LeftEdge(n) + k - 1 \in Below(n)
  BY NodeIs DEF Below

\* Equal leaves, equal hashes.
LEMMA SameLeaves ==
  ASSUME NEW n \in Node, NEW L, NEW M, \A i \in Below(n) : L[i] = M[i]
  PROVE  HashOf(L, n) = HashOf(M, n)
  BY BelowHas DEF HashOf

\* The hash of leaves that are all the same.
LEMMA EqualLeaves ==
  ASSUME NEW n \in Node, NEW L, NEW v, \A i \in Below(n) : L[i] = v
  PROVE  HashOf(L, n) = [k \in 1..Width[n[1]] |-> v]
  BY BelowHas DEF HashOf

\* The leaves of such a hash.
LEMMA LeavesOfEqual ==
  ASSUME NEW n \in Node, NEW L, NEW v, HashOf(L, n) = [k \in 1..Width[n[1]] |-> v],
         NEW i \in Below(n)
  PROVE  L[i] = v
  <1> DEFINE k == (i - LeftEdge(n)) + 1
  <1>1. k \in 1..Width[n[1]] /\ LeftEdge(n) + k - 1 = i
    BY BelowIs
  <1> HIDE DEF k
  <1>2. HashOf(L, n)[k] = L[LeftEdge(n) + k - 1]
    BY <1>1 DEF HashOf
  <1> QED
    BY <1>1, <1>2

\* The hashes of empty subtrees, given leaf by leaf.
LEMMA EmptyHashes ==
  ASSUME NEW n \in Node
  PROVE  /\ zero_note_hashes[n[1]] = [k \in 1..Width[n[1]] |-> ZeroNote]
         /\ default_hashes[n[1]] = [k \in 1..Width[n[1]] |-> Default]
  BY NodeIs DEF zero_note_hashes, default_hashes

\* A vector of leaves that is filled up to an index.
FilledTo(L, e) == \A i \in 0..(Capacity - 1) : L[i] = Default <=> e <= i

\* Beyond the end there are no leaves, before it there are some: of zero notes at
\* least.
LEMMA BeyondEnd ==
  ASSUME NEW n \in Node, NEW L, NEW e \in Nat, FilledTo(L, e), e <= LeftEdge(n)
  PROVE  HashOf(L, n) = default_hashes[n[1]]
  <1>1. \A i \in Below(n) : L[i] = Default
    <2> SUFFICES ASSUME NEW i \in Below(n) PROVE L[i] = Default
      OBVIOUS
    <2>1. i \in 0..(Capacity - 1) /\ LeftEdge(n) <= i /\ LeftEdge(n) \in Nat
      BY BelowIs, NodeIs DEF Below
    <2> QED
      BY <2>1 DEF FilledTo
  <1>2. HashOf(L, n) = [k \in 1..Width[n[1]] |-> Default]
    BY <1>1, BelowHas DEF HashOf
  <1>3. default_hashes[n[1]] = [k \in 1..Width[n[1]] |-> Default]
    BY EmptyHashes
  <1> QED
    BY <1>2, <1>3

\* Zero notes are found only before the end.
LEMMA ZeroIsFilled ==
  ASSUME NEW n \in Node, NEW L, NEW e \in Nat, FilledTo(L, e),
         HashOf(L, n) = zero_note_hashes[n[1]]
  PROVE  RightEdge(n) <= e
  <1> DEFINE i == RightEdge(n) - 1
  <1>1. i \in Below(n) /\ RightEdge(n) = i + 1
    BY NodeIs DEF Below
  <1> HIDE DEF i
  <1>2. L[i] = ZeroNote
    <2>1. zero_note_hashes[n[1]] = [k \in 1..Width[n[1]] |-> ZeroNote]
      BY EmptyHashes
    <2>2. HashOf(L, n) = [k \in 1..Width[n[1]] |-> ZeroNote]
      BY <2>1
    <2> QED
      BY <1>1, <2>2, LeavesOfEqual
  <1>3. i \in 0..(Capacity - 1)
    BY <1>1, BelowIs
  <1>4. ~ e <= i
    BY <1>2, <1>3, SentinelsAssumption DEF FilledTo
  <1> QED
    BY <1>1, <1>3, <1>4

\* Two vectors that are filled to the same end and equal before it are equal.
LEMMA SameFilled ==
  ASSUME NEW L, NEW M, NEW e \in Nat, FilledTo(L, e), FilledTo(M, e),
         \A i \in 0..(Capacity - 1) : i < e => L[i] = M[i]
  PROVE  \A i \in 0..(Capacity - 1) : L[i] = M[i]
  BY WidthPositive, SizesAssumption DEF FilledTo, Capacity

-----------------------------------------------------------------------------
\* The groups of a tree.
Whole(i) == i \in Nat /\ i % GroupSize = 0

\* Groups fit in the tree, a whole number of them.
LEMMA GroupSizeIs ==
  /\ GroupSize \in Nat /\ GroupSize >= 1 /\ GroupSize <= Capacity
  /\ Capacity \in Nat /\ OUTPLUSONELOG \in 0..HEIGHT /\ Capacity % GroupSize = 0
  <1>1. OUTPLUSONELOG \in 0..HEIGHT /\ HEIGHT \in 0..HEIGHT
    BY SizesAssumption
  <1>2. GroupSize \in Nat /\ GroupSize >= 1 /\ Capacity \in Nat /\ Capacity >= 1
    BY <1>1, WidthPositive DEF GroupSize, Capacity
  <1>3. /\ HEIGHT - OUTPLUSONELOG \in 0..HEIGHT /\ (HEIGHT - OUTPLUSONELOG) + OUTPLUSONELOG = HEIGHT
    BY SizesAssumption
  <1>4. Capacity = Width[HEIGHT - OUTPLUSONELOG] * GroupSize
    BY <1>1, <1>3, WidthSum DEF GroupSize, Capacity
  <1>5. Width[HEIGHT - OUTPLUSONELOG] \in Nat /\ Width[HEIGHT - OUTPLUSONELOG] >= 1
    BY <1>3, WidthPositive
  <1>6. 1 * GroupSize <= Width[HEIGHT - OUTPLUSONELOG] * GroupSize
    BY <1>2, <1>5, ProductMonotone
  <1>7. (Width[HEIGHT - OUTPLUSONELOG] * GroupSize + 0) % GroupSize = 0
    BY <1>2, <1>5, DivisionUnique
  <1>8. Width[HEIGHT - OUTPLUSONELOG] * GroupSize \in Nat
    BY <1>2, <1>5, ProductFacts
  <1> QED
    BY <1>1, <1>2, <1>4, <1>6, <1>7, <1>8

\* Between two boundaries in a row there is none.
LEMMA NoneBetween ==
  ASSUME NEW q \in Nat, NEW p \in Nat, NEW g \in Nat
  PROVE  ~ (q * g < p * g /\ p * g < q * g + g)
  <1> SUFFICES ASSUME q * g < p * g, p * g < q * g + g PROVE FALSE
    OBVIOUS
  <1>1. q * g \in Nat /\ p * g \in Nat /\ (q + 1) * g = q * g + g
    BY ProductFacts
  <1>2. CASE p <= q
    <2>1. p * g <= q * g
      BY <1>2, ProductMonotone
    <2> QED
      BY <1>1, <2>1
  <1>3. CASE q + 1 <= p
    <2>1. (q + 1) * g <= p * g
      BY <1>3, ProductMonotone
    <2> QED
      BY <1>1, <2>1
  <1> QED
    BY <1>2, <1>3

\* A group boundary is a multiple of the size of a group.
LEMMA WholeProduct ==
  ASSUME NEW i, Whole(i)
  PROVE  i \div GroupSize \in Nat /\ i = (i \div GroupSize) * GroupSize
  BY GroupSizeIs, Division DEF Whole

\* A boundary is not inside a node of the height of a group or below.
LEMMA BoundaryOutside ==
  ASSUME NEW n \in Node, n[1] <= OUTPLUSONELOG, NEW i, Whole(i)
  PROVE  i <= LeftEdge(n) \/ RightEdge(n) <= i
  <1>1. OUTPLUSONELOG \in n[1]..HEIGHT
    BY NodeIs, SizesAssumption
  <1> DEFINE g == Above(n, OUTPLUSONELOG)
  <1>2. /\ g \in Node /\ g[1] = OUTPLUSONELOG
        /\ LeftEdge(g) <= LeftEdge(n) /\ RightEdge(n) <= RightEdge(g)
    BY <1>1, AboveIs
  <1> HIDE DEF g
  <1>3. /\ LeftEdge(g) = g[2] * GroupSize /\ RightEdge(g) = LeftEdge(g) + GroupSize
        /\ g[2] \in Nat /\ LeftEdge(g) \in Nat
    BY <1>2, NodeIs DEF LeftEdge, GroupSize
  <1>4. i = (i \div GroupSize) * GroupSize /\ i \div GroupSize \in Nat /\ i \in Nat
    BY WholeProduct DEF Whole
  <1>5. ~ (LeftEdge(g) < i /\ i < LeftEdge(g) + GroupSize)
    BY <1>3, <1>4, GroupSizeIs, NoneBetween
  <1>6. LeftEdge(n) \in Nat /\ RightEdge(n) \in Nat
    BY NodeIs
  <1> QED
    BY <1>2, <1>3, <1>4, <1>5, <1>6, GroupSizeIs

\* None is not a hash over X.
NoneIsNoHash(X) == \A h \in 0..HEIGHT : None \notin [1..Width[h] -> X]

\* A hash is never None.
LEMMA HashIsNotNone ==
  ASSUME NEW X, NoneIsNoHash(X), NEW L \in Vectors(X)
  PROVE  \A n \in Node : HashOf(L, n) # None
  <1> SUFFICES ASSUME NEW n \in Node PROVE HashOf(L, n) # None
    OBVIOUS
  <1>1. HashOf(L, n) \in [1..Width[n[1]] -> X]
    BY HashType
  <1>2. n[1] \in 0..HEIGHT
    BY NodeIs
  <1>3. None \notin [1..Width[n[1]] -> X]
    BY <1>2 DEF NoneIsNoHash
  <1> QED
    BY <1>1, <1>3

\* What is stored are hashes of the leaves, never those of zero notes only.
StoredTrue(t, L) ==
  \A n \in DOMAIN t.leaves :
     /\ t.leaves[n] = HashOf(L, n) /\ LeftEdge(n) < t.next
     /\ t.leaves[n] # zero_note_hashes[n[1]]

\* The nodes a tree that starts at first knows: those of whole groups that reach
\* beyond first, and the left siblings on the way from first to the root.
Seen(first, n) ==
  /\ OUTPLUSONELOG <= n[1]
  /\ \/ first = None
     \/ first < RightEdge(n)
     \/ n[2] % 2 = 0 /\ RightEdge(n) <= first /\ first < RightEdge(n) + Width[n[1]]

\* What the code reads of the nodes that matter is their hash.
SeenTrue(t, L) == \A n \in Node : Seen(t.first, n) => get(t, n) = HashOf(L, n)

\* Node n is given in nodes, or a node above it.
Given(nodes, n) == \E m \in DOMAIN nodes : m = n \/ m \in Ancestors(n)

\* The tree t with leaves L grows to the indexes of u and the leaves M.
Grows(t, L, u, M) ==
  /\ u.leaves = t.leaves
  /\ Whole(t.next) /\ Whole(u.next) /\ t.next <= u.next /\ u.next <= Capacity
  /\ t.first = None => t.next = 0
  /\ t.first # None => t.first \in Nat /\ t.first < t.next /\ u.first = t.first
  /\ u.first # None => u.first \in Nat /\ u.first < u.next
  /\ FilledTo(L, t.next) /\ FilledTo(M, u.next)
  /\ \A i \in 0..(Capacity - 1) : i < t.next => L[i] = M[i]

\* The nodes given for the update are true, those above a group are left of the
\* tree; what is not given is padding.
GivenTrue(t, u, M, nodes, b) ==
  /\ b.updated_left = t.next /\ b.updated_right = u.next
  /\ \A n \in DOMAIN nodes :
        /\ n \in Node /\ nodes[n] = HashOf(M, n) /\ LeftEdge(n) < u.next
        /\ \/ n[1] <= OUTPLUSONELOG
           \/ t.next = 0 /\ u.first # None /\ RightEdge(n) <= u.first
  /\ \A n \in Node : Padding(n, b) /\ (\A m \in Ancestors(n) : m \notin DOMAIN nodes) =>
                       HashOf(M, n) = zero_note_hashes[n[1]]
  /\ \A n \in Node : n[1] = 0 /\ t.next <= LeftEdge(n) /\ LeftEdge(n) < u.next =>
                       Padding(n, b) \/ Given(nodes, n)

\* The hashes get_virtual_node_full takes without descending.
LEMMA SettledIs ==
  ASSUME NEW t, NEW nodes, NEW b
  PROVE  /\ DOMAIN Settled(t, nodes, b)
              = {m \in Node : Untouched(m, b) \/ Padding(m, b) \/ m \in DOMAIN nodes}
         /\ \A n \in DOMAIN Settled(t, nodes, b) :
              Settled(t, nodes, b)[n] =
                IF Untouched(n, b) THEN get(t, n)
                ELSE IF Padding(n, b) THEN zero_note_hashes[n[1]]
                ELSE nodes[n]
  BY DEF Settled

\* The nodes above a node have its leaves.
LEMMA AboveHas ==
  ASSUME NEW n \in Node, NEW m \in Ancestors(n)
  PROVE  /\ m \in Node /\ n[1] < m[1] /\ LeftEdge(m) <= LeftEdge(n) /\ RightEdge(n) <= RightEdge(m)
         /\ LeftEdge(m) \in Nat /\ RightEdge(m) \in Nat
  BY AncestorsAre, NodeIs

\* What is above an ancestor is above the node.
LEMMA AboveTransitive ==
  ASSUME NEW n \in Node, NEW m \in Ancestors(n)
  PROVE  Ancestors(m) \subseteq Ancestors(n)
  <1> SUFFICES ASSUME NEW k \in Ancestors(m) PROVE k \in Ancestors(n)
    OBVIOUS
  <1>1. /\ m \in Node /\ n[1] < m[1] /\ LeftEdge(m) <= LeftEdge(n) /\ RightEdge(n) <= RightEdge(m)
        /\ LeftEdge(m) \in Nat /\ RightEdge(m) \in Nat
    BY AboveHas
  <1>2. /\ k \in Node /\ m[1] < k[1] /\ LeftEdge(k) <= LeftEdge(m) /\ RightEdge(m) <= RightEdge(k)
        /\ LeftEdge(k) \in Nat /\ RightEdge(k) \in Nat
    BY <1>1, AboveHas
  <1>3. /\ n[1] < k[1] /\ LeftEdge(k) <= LeftEdge(n) /\ RightEdge(n) <= RightEdge(k)
    BY <1>1, <1>2, NodeIs
  <1> QED
    BY <1>2, <1>3, AncestorsAre

\* The descent comes to every node across the old or the new end of the tree.
LEMMA AcrossEnd ==
  ASSUME NEW t, NEW L, NEW u, NEW M, NEW nodes, NEW b,
         Grows(t, L, u, M), GivenTrue(t, u, M, nodes, b),
         NEW e \in {t.next, u.next}, NEW n \in Node, LeftEdge(n) < e, e < RightEdge(n)
  PROVE  n \in Visited(Settled(u, nodes, b))
  <1>1. /\ t.next \in Nat /\ u.next \in Nat /\ e \in Nat /\ Whole(e)
        /\ t.next <= u.next /\ (u.first # None => u.first \in Nat /\ u.first < u.next)
    BY DEF Grows, Whole
  <1>2. b.updated_left = t.next /\ b.updated_right = u.next
    BY DEF GivenTrue
  <1>3. ASSUME NEW m \in Node, LeftEdge(m) < e, e < RightEdge(m)
        PROVE  ~Untouched(m, b) /\ ~Padding(m, b) /\ m \notin DOMAIN nodes
    <2>1. LeftEdge(m) \in Nat /\ RightEdge(m) \in Nat
      BY NodeIs
    <2>2. ~Untouched(m, b) /\ ~Padding(m, b)
      BY <1>1, <1>2, <1>3, <2>1 DEF Untouched, Padding
    <2>3. ~ m[1] <= OUTPLUSONELOG
      BY <1>1, <1>3, <2>1, BoundaryOutside
    <2>4. m \in DOMAIN nodes => t.next = 0 /\ u.first # None /\ RightEdge(m) <= u.first
      BY <2>3 DEF GivenTrue
    <2> QED
      BY <1>1, <1>3, <2>1, <2>2, <2>4
  <1>0. DOMAIN Settled(u, nodes, b)
          = {m \in Node : Untouched(m, b) \/ Padding(m, b) \/ m \in DOMAIN nodes}
    BY SettledIs
  <1>4. ASSUME NEW m \in Ancestors(n) PROVE m \notin DOMAIN Settled(u, nodes, b)
    <2>1. m \in Node /\ LeftEdge(m) < e /\ e < RightEdge(m)
      BY <1>1, AboveHas, NodeIs
    <2> QED
      BY <1>0, <1>3, <2>1
  <1>5. n \notin DOMAIN Settled(u, nodes, b)
    BY <1>0, <1>3
  <1> QED
    BY <1>4, <1>5 DEF Visited

\* A subtree left of the end whose parent is not has its parent across the end: it
\* is a left child that the tree knows.
LEMMA LeftOfEnd ==
  ASSUME NEW n \in Node, NEW e, Whole(e), NEW first, first = None \/ (first \in Nat /\ first < e),
         RightEdge(n) <= e, n[1] < HEIGHT => e < RightEdge(Above(n, n[1] + 1)),
         e <= Capacity
  PROVE  Seen(first, n)
  <1>1. /\ n[1] \in 0..HEIGHT /\ LeftEdge(n) \in Nat /\ RightEdge(n) \in Nat /\ e \in Nat
        /\ RightEdge(n) = LeftEdge(n) + Width[n[1]] /\ Width[n[1]] \in Nat
        /\ LeftEdge(n) < RightEdge(n)
    BY NodeIs DEF Whole
  <1>2. CASE n[1] = HEIGHT
    <2>1. RightEdge(n) = Capacity
      BY <1>2, RootIs, NodeIs, SameLevel
    <2> QED
      BY <1>1, <1>2, <2>1, SizesAssumption, GroupSizeIs DEF Seen
  <1>3. CASE n[1] # HEIGHT
    <2> DEFINE p == Above(n, n[1] + 1)
    <2>1. n[1] < HEIGHT
      BY <1>1, <1>3, SizesAssumption
    <2>2. /\ p \in Node /\ p[1] = n[1] + 1 /\ e < RightEdge(p)
          /\ \/ n[2] % 2 = 0 /\ n = LeftChild(p)
             \/ n[2] % 2 = 1 /\ n = RightChild(p)
      BY <2>1, ParentIs
    <2> HIDE DEF p
    <2>3. /\ LeftEdge(LeftChild(p)) = LeftEdge(p)
          /\ RightEdge(RightChild(p)) = RightEdge(p)
          /\ Width[p[1]] = 2 * Width[n[1]] /\ p[1] - 1 = n[1]
      <3>1. p[1] > 0 /\ p[1] - 1 = n[1]
        BY <1>1, <2>2
      <3> QED
        BY <2>2, <3>1, ChildrenAre
    <2>4. n[2] % 2 = 0 /\ LeftEdge(n) = LeftEdge(p)
      BY <1>1, <2>2, <2>3
    <2>5. RightEdge(p) = LeftEdge(p) + Width[p[1]] /\ LeftEdge(p) \in Nat
      BY <2>2, NodeIs
    <2>6. RightEdge(p) = RightEdge(n) + Width[n[1]]
      BY <1>1, <2>3, <2>4, <2>5
    <2>7. ~ p[1] <= OUTPLUSONELOG
      BY <1>1, <2>2, <2>4, <2>5, <2>6, BoundaryOutside
    <2>8. OUTPLUSONELOG <= n[1]
      BY <1>1, <2>2, <2>7, SizesAssumption
    <2> QED
      BY <1>1, <2>2, <2>4, <2>6, <2>8 DEF Seen
  <1> QED
    BY <1>2, <1>3
\* What a tree reads left of its end does not change when it grows.
LEMMA GetLeftOfEnd ==
  ASSUME NEW t, NEW L, NEW u, NEW M, Grows(t, L, u, M), SeenTrue(t, L),
         NEW n \in Node, RightEdge(n) <= t.next, Seen(t.first, n)
  PROVE  get(u, n) = HashOf(M, n)
  <1>1. u.leaves = t.leaves /\ t.next \in Nat /\ u.next \in Nat /\ t.next <= u.next
    BY DEF Grows, Whole
  <1>2. LeftEdge(n) \in Nat /\ RightEdge(n) \in Nat
    BY NodeIs
  <1>3. get(u, n) = get(t, n)
    BY <1>1, <1>2 DEF get
  <1>4. \A i \in Below(n) : L[i] = M[i]
    <2> SUFFICES ASSUME NEW i \in Below(n) PROVE L[i] = M[i]
      OBVIOUS
    <2>1. i \in 0..(Capacity - 1) /\ i < t.next
      BY <1>1, <1>2, BelowIs DEF Below
    <2> QED
      BY <2>1 DEF Grows
  <1>5. HashOf(L, n) = HashOf(M, n)
    BY <1>4, SameLeaves
  <1> QED
    BY <1>3, <1>5 DEF SeenTrue

\* What a tree reads right of its end is the default.
LEMMA GetRightOfEnd ==
  ASSUME NEW t, NEW L, NEW u, NEW M, Grows(t, L, u, M), StoredTrue(t, L),
         NEW n \in Node, u.next <= LeftEdge(n)
  PROVE  get(u, n) = HashOf(M, n)
  <1>1. u.leaves = t.leaves /\ t.next \in Nat /\ u.next \in Nat /\ t.next <= u.next
    BY DEF Grows, Whole
  <1>2. LeftEdge(n) \in Nat /\ RightEdge(n) \in Nat /\ LeftEdge(n) < RightEdge(n)
    BY NodeIs
  <1>3. n \notin DOMAIN t.leaves
    BY <1>1, <1>2 DEF StoredTrue
  <1>4. get(u, n) = default_hashes[n[1]]
    BY <1>1, <1>2, <1>3 DEF get
  <1>5. FilledTo(M, u.next)
    BY DEF Grows
  <1> QED
    BY <1>1, <1>4, <1>5, BeyondEnd

\* They are the hashes of the new leaves wherever the descent reaches them.
LEMMA SettledTrue ==
  ASSUME NEW t, NEW L, NEW u, NEW M, NEW nodes, NEW b,
         Grows(t, L, u, M), GivenTrue(t, u, M, nodes, b), StoredTrue(t, L), SeenTrue(t, L),
         NEW n \in Node, n \in DOMAIN Settled(u, nodes, b), Reached(Settled(u, nodes, b), n)
  PROVE  Settled(u, nodes, b)[n] = HashOf(M, n)
  <1>1. /\ Settled(u, nodes, b)[n] =
             IF Untouched(n, b) THEN get(u, n)
             ELSE IF Padding(n, b) THEN zero_note_hashes[n[1]] ELSE nodes[n]
        /\ Untouched(n, b) \/ Padding(n, b) \/ n \in DOMAIN nodes
    <2>1. DOMAIN Settled(u, nodes, b)
            = {m \in Node : Untouched(m, b) \/ Padding(m, b) \/ m \in DOMAIN nodes}
      BY SettledIs
    <2>2. Settled(u, nodes, b)[n] =
             IF Untouched(n, b) THEN get(u, n)
             ELSE IF Padding(n, b) THEN zero_note_hashes[n[1]] ELSE nodes[n]
      BY DEF Settled
    <2> QED
      BY <2>1, <2>2
  <1>10. DOMAIN Settled(u, nodes, b)
             = {m \in Node : Untouched(m, b) \/ Padding(m, b) \/ m \in DOMAIN nodes}
    BY SettledIs
  <1>2. b.updated_left = t.next /\ b.updated_right = u.next
    BY DEF GivenTrue
  <1>3. \A m \in Ancestors(n) : m \in Node /\ ~Untouched(m, b) /\ m \notin DOMAIN nodes
    BY <1>10, AboveHas DEF Reached
  <1>4. CASE Untouched(n, b) /\ RightEdge(n) <= t.next
    <2>1. /\ Whole(t.next) /\ t.next <= Capacity
          /\ t.first = None \/ (t.first \in Nat /\ t.first < t.next)
      BY GroupSizeIs DEF Grows, Whole
    <2>2. ASSUME n[1] < HEIGHT PROVE t.next < RightEdge(Above(n, n[1] + 1))
      <3>1. Above(n, n[1] + 1) \in Ancestors(n)
        BY <2>2, NodeIs, SizesAssumption DEF Ancestors
      <3>2. ~Untouched(Above(n, n[1] + 1), b) /\ Above(n, n[1] + 1) \in Node
        BY <1>3, <3>1
      <3>3. RightEdge(Above(n, n[1] + 1)) \in Nat
        BY <3>2, NodeIs
      <3> QED
        BY <1>2, <2>1, <3>2, <3>3 DEF Untouched, Whole
    <2>3. Seen(t.first, n)
      BY <1>4, <2>1, <2>2, LeftOfEnd
    <2> QED
      BY <1>1, <1>4, <2>3, GetLeftOfEnd
  <1>5. CASE Untouched(n, b) /\ u.next <= LeftEdge(n)
    BY <1>1, <1>5, GetRightOfEnd
  <1>6. CASE ~Untouched(n, b) /\ Padding(n, b)
    BY <1>1, <1>3, <1>6 DEF GivenTrue
  <1>7. CASE ~Untouched(n, b) /\ ~Padding(n, b)
    BY <1>1, <1>7 DEF GivenTrue
  <1> QED
    BY <1>2, <1>4, <1>5, <1>6, <1>7 DEF Untouched

\* virtual_subtree returns the hashes of the new leaves, and for every node it comes
\* to without knowing it.
LEMMA SubtreeTrue ==
  ASSUME NEW X, NoneIsNoHash(X), NEW M \in Vectors(X),
         NEW t, NEW L, NEW u, NEW nodes, NEW b,
         Grows(t, L, u, M), GivenTrue(t, u, M, nodes, b), StoredTrue(t, L), SeenTrue(t, L)
  PROVE  LET known == Settled(u, nodes, b)
             new == virtual_subtree(u, nodes, b)
         IN  /\ DOMAIN new = Visited(known) \cup DOMAIN nodes
             /\ DOMAIN new \subseteq Node
             /\ \A n \in DOMAIN new : new[n] = HashOf(M, n)
             /\ \A n \in Visited(known) : n[1] # 0 /\ ~Untouched(n, b)
  <1> DEFINE known == Settled(u, nodes, b)
             new == virtual_subtree(u, nodes, b)
             f == hashes_above(known)
  <1>1. \A n \in Node : HashOf(M, n) # None
    BY HashIsNotNone
  <1>2. \A n \in Node : n \in DOMAIN known /\ Reached(known, n) => known[n] = HashOf(M, n)
    BY SettledTrue
  <1>3. DOMAIN known = {m \in Node : Untouched(m, b) \/ Padding(m, b) \/ m \in DOMAIN nodes}
    BY SettledIs
  <1>4. b.updated_left = t.next /\ b.updated_right = u.next
    BY DEF GivenTrue
  <1>5. ASSUME NEW n \in Node, n[1] = 0, Reached(known, n) PROVE n \in DOMAIN known
    <2>1. CASE Given(nodes, n)
      <3>1. PICK m \in DOMAIN nodes : m = n \/ m \in Ancestors(n)
        BY <2>1 DEF Given
      <3>2. m \in Node
        BY <3>1 DEF GivenTrue
      <3> QED
        BY <1>3, <1>5, <3>1, <3>2 DEF Reached
    <2>2. CASE ~Given(nodes, n)
      <3>1. Padding(n, b) \/ ~(t.next <= LeftEdge(n) /\ LeftEdge(n) < u.next)
        BY <1>5, <2>2 DEF GivenTrue
      <3>2. RightEdge(n) = LeftEdge(n) + 1 /\ LeftEdge(n) \in Nat
        BY <1>5, NodeIs, WidthIs
      <3>3. t.next \in Nat /\ u.next \in Nat
        BY DEF Grows, Whole
      <3>4. Untouched(n, b) \/ Padding(n, b)
        BY <1>4, <3>1, <3>2, <3>3 DEF Untouched
      <3> QED
        BY <1>3, <3>4
    <2> QED
      BY <2>1, <2>2
  <1>6. \A n \in Node : Reached(known, n) => f[n] = HashOf(M, n)
    <2> HIDE DEF known
    <2>1. \A n \in Node : Reached(known, n) =>
             /\ hashes_above(known)[n] \in {None, HashOf(M, n)}
             /\ (\A m \in Node : m[1] = 0 /\ Reached(known, m) => m \in DOMAIN known) =>
                  hashes_above(known)[n] = HashOf(M, n)
      BY <1>1, <1>2, HashesAreTrue
    <2> QED
      BY <1>5, <2>1
  <1>7. \A n \in Visited(known) : n \in Node /\ n \notin DOMAIN known /\ Reached(known, n)
    BY DEF Visited, Reached
  <1>8. new = [n \in Visited(known) \cup DOMAIN nodes |-> IF n \in Visited(known) THEN f[n] ELSE nodes[n]]
    BY DEF virtual_subtree
  <1>9. \A n \in DOMAIN nodes : n \in Node /\ nodes[n] = HashOf(M, n)
    BY DEF GivenTrue
  <1>10. \A n \in Visited(known) : n[1] # 0 /\ ~Untouched(n, b)
    BY <1>3, <1>5, <1>7
  <1> HIDE DEF known, new, f
  <1>11. DOMAIN new = Visited(known) \cup DOMAIN nodes
    BY <1>8
  <1>12. \A n \in DOMAIN new : n \in Node /\ new[n] = HashOf(M, n)
    BY <1>6, <1>7, <1>8, <1>9
  <1> QED
    BY <1>10, <1>11, <1>12 DEF known, new
\* A node above one the tree knows reaches beyond the start of the tree.
LEMMA AboveSeen ==
  ASSUME NEW first \in Nat, NEW n \in Node, Seen(first, n), NEW a \in Ancestors(n), first # None
  PROVE  first < RightEdge(a)
  <1>1. /\ a \in Node /\ n[1] < a[1] /\ RightEdge(n) <= RightEdge(a)
        /\ RightEdge(a) \in Nat /\ RightEdge(n) \in Nat /\ n[1] \in 0..HEIGHT
        /\ a[1] \in 0..HEIGHT /\ LeftEdge(n) \in Nat
    BY AboveHas, NodeIs
  <1>2. CASE first < RightEdge(n)
    BY <1>1, <1>2
  <1>3. CASE n[2] % 2 = 0 /\ RightEdge(n) <= first /\ first < RightEdge(n) + Width[n[1]]
    <2> DEFINE p == Above(n, n[1] + 1)
    <2>1. n[1] < HEIGHT
      BY <1>1, SizesAssumption
    <2>2. p \in Node /\ p[1] = n[1] + 1 /\ n = LeftChild(p)
      BY <1>3, <2>1, ParentIs
    <2> HIDE DEF p
    <2>3. p[1] > 0 /\ p[1] - 1 = n[1]
      BY <1>1, <2>2
    <2>4. Ancestors(n) = {p} \cup Ancestors(p)
      BY <2>2, <2>3, AncestorsOfChild
    <2>5. RightEdge(p) = LeftEdge(p) + Width[p[1]] /\ RightEdge(p) \in Nat /\ LeftEdge(p) \in Nat
      BY <2>2, NodeIs
    <2>6. Width[p[1]] = 2 * Width[n[1]] /\ LeftEdge(n) = LeftEdge(p)
      BY <2>2, <2>3, ChildrenAre
    <2>7. RightEdge(n) = LeftEdge(n) + Width[n[1]] /\ Width[n[1]] \in Nat
      BY NodeIs
    <2>8. RightEdge(p) = RightEdge(n) + Width[n[1]]
      BY <2>5, <2>6, <2>7
    <2>9. RightEdge(p) <= RightEdge(a)
      <3>1. CASE a = p
        BY <2>5, <3>1
      <3>2. CASE a \in Ancestors(p)
        BY <2>2, <3>2, AboveHas
      <3> QED
        BY <2>4, <3>1, <3>2
    <2> QED
      BY <1>1, <1>3, <2>5, <2>8, <2>9
  <1> QED
    BY <1>2, <1>3 DEF Seen

\* Below a hash of zero notes there are only zero notes.
LEMMA ZeroBelow ==
  ASSUME NEW n \in Node, NEW a \in Node, NEW L, LeftEdge(a) <= LeftEdge(n), RightEdge(n) <= RightEdge(a),
         HashOf(L, a) = zero_note_hashes[a[1]]
  PROVE  HashOf(L, n) = zero_note_hashes[n[1]]
  <1>1. HashOf(L, a) = [k \in 1..Width[a[1]] |-> ZeroNote]
    BY EmptyHashes
  <1>2. \A i \in Below(n) : L[i] = ZeroNote
    <2> SUFFICES ASSUME NEW i \in Below(n) PROVE L[i] = ZeroNote
      OBVIOUS
    <2>1. i \in Below(a)
      BY NodeIs DEF Below
    <2> QED
      BY <1>1, <2>1, LeavesOfEqual
  <1>3. HashOf(L, n) = [k \in 1..Width[n[1]] |-> ZeroNote]
    BY <1>2, BelowHas DEF HashOf
  <1>4. zero_note_hashes[n[1]] = [k \in 1..Width[n[1]] |-> ZeroNote]
    BY EmptyHashes
  <1> QED
    BY <1>3, <1>4

\* Inside the update, a node of a whole group that is neither given nor computed is
\* padding.
LEMMA InsideUpdate ==
  ASSUME NEW t, NEW L, NEW u, NEW M, NEW nodes, NEW b,
         Grows(t, L, u, M), GivenTrue(t, u, M, nodes, b),
         NEW n \in Node, Seen(u.first, n), t.next <= LeftEdge(n), RightEdge(n) <= u.next,
         n \notin Visited(Settled(u, nodes, b)), n \notin DOMAIN nodes
  PROVE  HashOf(M, n) = zero_note_hashes[n[1]]
  <1> DEFINE known == Settled(u, nodes, b)
  <1>1. DOMAIN known = {m \in Node : Untouched(m, b) \/ Padding(m, b) \/ m \in DOMAIN nodes}
    BY SettledIs
  <1>2. b.updated_left = t.next /\ b.updated_right = u.next /\ t.next \in Nat /\ u.next \in Nat
    BY DEF GivenTrue, Grows, Whole
  <1>3. ASSUME NEW a \in Ancestors(n), a \in DOMAIN nodes PROVE FALSE
    <2>1. a \in Node /\ n[1] < a[1] /\ n[1] \in Nat /\ a[1] \in Nat /\ RightEdge(a) \in Nat
      BY AboveHas, NodeIs
    <2>2. ~ a[1] <= OUTPLUSONELOG
      BY <2>1, SizesAssumption DEF Seen
    <2>3. u.first # None /\ RightEdge(a) <= u.first
      BY <1>3, <2>2 DEF GivenTrue
    <2>4. u.first \in Nat
      BY <2>3 DEF Grows
    <2>5. u.first < RightEdge(a)
      BY <2>3, <2>4, AboveSeen
    <2> QED
      BY <2>1, <2>3, <2>4, <2>5
  <1>4. PICK a : (a = n \/ a \in Ancestors(n)) /\ a \in DOMAIN known
    BY DEF Visited
  <1>5. /\ a \in Node /\ LeftEdge(a) <= LeftEdge(n) /\ RightEdge(n) <= RightEdge(a)
        /\ LeftEdge(a) \in Nat /\ RightEdge(a) \in Nat /\ LeftEdge(n) \in Nat /\ RightEdge(n) \in Nat
        /\ LeftEdge(n) < RightEdge(n)
    BY <1>4, AboveHas, NodeIs
  <1>6. ~Untouched(a, b)
    BY <1>2, <1>5 DEF Untouched
  <1>7. Padding(a, b)
    BY <1>1, <1>3, <1>4, <1>6
  <1>8. \A m \in Ancestors(a) : m \notin DOMAIN nodes
    BY <1>3, <1>4, AboveTransitive
  <1>9. HashOf(M, a) = zero_note_hashes[a[1]]
    BY <1>5, <1>7, <1>8 DEF GivenTrue
  <1> QED
    BY <1>5, <1>9, ZeroBelow

\* An update keeps the tree true: what it stores and what it leaves.
LEMMA UpdateTrue ==
  ASSUME NEW X, NoneIsNoHash(X), NEW M \in Vectors(X), NEW L,
         NEW t, NEW u \in Trees(X), NEW nodes, NEW b,
         Grows(t, L, u, M), GivenTrue(t, u, M, nodes, b), StoredTrue(t, L), SeenTrue(t, L),
         DOMAIN t.leaves \subseteq Node
  PROVE  LET v == put_hashes(u, virtual_subtree(u, nodes, b))
         IN  /\ v \in Trees(X) /\ SameIndexes(u, v) /\ StoredTrue(v, M) /\ SeenTrue(v, M)
             /\ \A n \in DOMAIN v.leaves : n[1] = 0 => n \in DOMAIN t.leaves \/ n \in DOMAIN nodes
  <1> DEFINE known == Settled(u, nodes, b)
             new == virtual_subtree(u, nodes, b)
             v == put_hashes(u, new)
  <1>1. /\ DOMAIN new = Visited(known) \cup DOMAIN nodes
        /\ DOMAIN new \subseteq Node
        /\ \A n \in DOMAIN new : new[n] = HashOf(M, n)
        /\ \A n \in Visited(known) : n[1] # 0 /\ ~Untouched(n, b)
    BY SubtreeTrue, Zenon
  <1>2. \A n \in Node : LeftEdge(n) < t.next /\ t.next < RightEdge(n) => n \in Visited(known)
    BY AcrossEnd
  <1>3. \A n \in Node : LeftEdge(n) < u.next /\ u.next < RightEdge(n) => n \in Visited(known)
    BY AcrossEnd
  <1>4. /\ \A n \in DOMAIN nodes : LeftEdge(n) < u.next
        /\ b.updated_left = t.next /\ b.updated_right = u.next
    BY DEF GivenTrue
  <1>5. /\ t.next \in Nat /\ u.next \in Nat /\ t.next <= u.next /\ u.leaves = t.leaves
        /\ FilledTo(M, u.next) /\ (t.first # None => u.first = t.first)
    BY DEF Grows, Whole
  <1>6. new \in PartialHashes(X)
    <2>1. \A n \in DOMAIN new : new[n] \in Seq(X)
      <3> SUFFICES ASSUME NEW n \in DOMAIN new PROVE new[n] \in Seq(X)
        OBVIOUS
      <3>1. n \in Node /\ new[n] = HashOf(M, n)
        BY <1>1, Zenon
      <3> HIDE DEF new
      <3>2. new[n] \in [1..Width[n[1]] -> X] /\ Width[n[1]] \in Nat
        BY <3>1, HashType, NodeIs
      <3> QED
        BY <3>2
    <2>2. new = [n \in DOMAIN new |-> new[n]]
      BY DEF virtual_subtree
    <2> HIDE DEF new
    <2>3. new \in [DOMAIN new -> Seq(X)]
      BY <2>1, <2>2
    <2> QED
      BY <1>1, <2>3, PartialMake
  <1> HIDE DEF new
  <1>7. /\ v \in Trees(X) /\ SameIndexes(u, v)
        /\ v.leaves = PutLeaves(t.leaves, new)
    BY <1>5, <1>6, PutHashesIs
  <1>8. v.next = u.next /\ v.first = u.first
    BY <1>7 DEF SameIndexes
  <1> HIDE DEF v
  <1>9. /\ DOMAIN v.leaves = (DOMAIN t.leaves \ DOMAIN new) \cup Stored(new)
        /\ \A n \in Stored(new) : v.leaves[n] = new[n]
        /\ \A n \in DOMAIN t.leaves \ DOMAIN new : v.leaves[n] = t.leaves[n]
    BY <1>7 DEF PutLeaves, Stored
  <1>10. \A n \in Stored(new) : n \in DOMAIN new /\ new[n] # zero_note_hashes[n[1]]
    BY DEF Stored
  <1> HIDE DEF known
  <1>11. ASSUME NEW n \in DOMAIN v.leaves
         PROVE  /\ v.leaves[n] = HashOf(M, n) /\ LeftEdge(n) < v.next
                /\ v.leaves[n] # zero_note_hashes[n[1]]
    <2>1. CASE n \in Stored(new)
      <3>1. n \in DOMAIN new /\ v.leaves[n] = new[n] /\ new[n] # zero_note_hashes[n[1]]
        BY <1>9, <1>10, <2>1
      <3>2. new[n] = HashOf(M, n)
        BY <1>1, <3>1
      <3>3. LeftEdge(n) < u.next
        <4>1. CASE n \in DOMAIN nodes
          BY <1>4, <4>1
        <4>2. CASE n \in Visited(known)
          <5>1. ~Untouched(n, b) /\ n \in Node
            BY <1>1, <3>1, <4>2
          <5> QED
            BY <1>4, <1>5, <5>1, NodeIs DEF Untouched
        <4> QED
          BY <1>1, <3>1, <4>1, <4>2
      <3> QED
        BY <1>8, <3>1, <3>2, <3>3
    <2>2. CASE n \notin Stored(new)
      <3>1. n \in DOMAIN t.leaves \ DOMAIN new /\ v.leaves[n] = t.leaves[n]
        BY <1>9, <2>2
      <3>2. /\ n \in Node /\ t.leaves[n] = HashOf(L, n) /\ LeftEdge(n) < t.next
            /\ t.leaves[n] # zero_note_hashes[n[1]]
        BY <3>1 DEF StoredTrue
      <3>3. LeftEdge(n) \in Nat /\ RightEdge(n) \in Nat
        BY <3>2, NodeIs
      <3>4. RightEdge(n) <= t.next
        BY <1>1, <1>2, <1>5, <3>1, <3>2, <3>3
      <3>5. \A i \in Below(n) : L[i] = M[i]
        <4> SUFFICES ASSUME NEW i \in Below(n) PROVE L[i] = M[i]
          OBVIOUS
        <4>1. i \in 0..(Capacity - 1) /\ i < t.next
          BY <1>5, <3>2, <3>3, <3>4, BelowIs DEF Below
        <4> QED
          BY <4>1 DEF Grows
      <3>6. HashOf(L, n) = HashOf(M, n)
        BY <3>2, <3>5, SameLeaves
      <3> QED
        BY <1>5, <1>8, <3>1, <3>2, <3>3, <3>6
    <2> QED
      BY <2>1, <2>2
  <1>12. ASSUME NEW n \in Node, Seen(u.first, n) PROVE get(v, n) = HashOf(M, n)
    <2>1. LeftEdge(n) \in Nat /\ RightEdge(n) \in Nat /\ LeftEdge(n) < RightEdge(n)
      BY NodeIs
    <2>2. CASE n \in DOMAIN new
      <3>1. new[n] = HashOf(M, n)
        BY <1>1, <2>2
      <3>2. CASE HashOf(M, n) = zero_note_hashes[n[1]]
        <4>1. n \notin DOMAIN v.leaves
          BY <1>9, <1>10, <2>2, <3>1, <3>2
        <4>2. RightEdge(n) <= v.next
          BY <1>5, <1>8, <3>2, ZeroIsFilled
        <4> QED
          BY <3>2, <4>1, <4>2 DEF get
      <3>3. CASE HashOf(M, n) # zero_note_hashes[n[1]]
        <4>1. n \in Stored(new)
          BY <2>2, <3>1, <3>3 DEF Stored
        <4>2. n \in DOMAIN v.leaves /\ v.leaves[n] = HashOf(M, n)
          BY <1>9, <3>1, <4>1
        <4> QED
          BY <4>2 DEF get
      <3> QED
        BY <3>2, <3>3
    <2>3. CASE n \notin DOMAIN new
      <3>1. n \notin Stored(new)
        BY <1>10, <2>3
      <3>2. get(v, n) = get(u, n)
        BY <1>5, <1>8, <1>9, <2>3, <3>1 DEF get
      <3>3. CASE u.next <= LeftEdge(n)
        BY <3>2, <3>3, GetRightOfEnd
      <3>4. CASE RightEdge(n) <= t.next
        <4>1. Seen(t.first, n)
          BY <1>5, <1>12 DEF Seen
        <4> QED
          BY <3>2, <3>4, <4>1, GetLeftOfEnd
      <3>5. CASE LeftEdge(n) < u.next /\ t.next < RightEdge(n)
        <4>1. n \notin Visited(known) /\ n \notin DOMAIN nodes
          BY <1>1, <2>3
        <4>2. t.next <= LeftEdge(n) /\ RightEdge(n) <= u.next
          BY <1>2, <1>3, <1>5, <2>1, <3>5, <4>1
        <4>3. n \notin DOMAIN u.leaves
          BY <1>5, <2>1, <4>2 DEF StoredTrue
        <4>4. get(u, n) = zero_note_hashes[n[1]]
          BY <4>2, <4>3 DEF get
        <4>5. HashOf(M, n) = zero_note_hashes[n[1]]
          BY <1>12, <4>1, <4>2, InsideUpdate DEF known
        <4> QED
          BY <3>2, <4>4, <4>5
      <3> QED
        BY <1>5, <2>1, <3>3, <3>4, <3>5
    <2> QED
      BY <2>2, <2>3
  <1>13. \A n \in DOMAIN v.leaves : n[1] = 0 => n \in DOMAIN t.leaves \/ n \in DOMAIN nodes
    BY <1>1, <1>9, <1>10
  <1> QED
    BY <1>7, <1>8, <1>11, <1>12, <1>13 DEF StoredTrue, SeenTrue, new, v
-----------------------------------------------------------------------------
\* The boundaries of groups.
LEMMA GroupOf ==
  ASSUME NEW i \in Nat
  PROVE  /\ Whole(calc_first_index(i)) /\ Whole(calc_next_index(i))
         /\ calc_next_index(i) = calc_first_index(i) + GroupSize
         /\ calc_first_index(i) <= i /\ i < calc_next_index(i)
         /\ i = calc_first_index(i) + (i % GroupSize) /\ i % GroupSize \in 0..(GroupSize - 1)
  <1> DEFINE q == i \div GroupSize
  <1>1. GroupSize \in Nat /\ GroupSize >= 1
    BY GroupSizeIs
  <1>2. q \in Nat /\ i % GroupSize \in 0..(GroupSize - 1) /\ i = q * GroupSize + (i % GroupSize)
    BY <1>1, Division
  <1>3. calc_first_index(i) = q * GroupSize /\ calc_next_index(i) = (q + 1) * GroupSize
    BY DEF calc_first_index, calc_next_index
  <1> HIDE DEF q
  <1>4. q * GroupSize \in Nat /\ (q + 1) * GroupSize = q * GroupSize + GroupSize
    BY <1>1, <1>2, ProductFacts
  <1>5. (q * GroupSize + 0) % GroupSize = 0 /\ ((q + 1) * GroupSize + 0) % GroupSize = 0
    <2>1. \A p \in Nat : (p * GroupSize + 0) % GroupSize = 0
      <3>1. 0 \in 0..(GroupSize - 1) /\ GroupSize > 0
        BY <1>1
      <3> QED
        BY <1>1, <3>1, DivisionUnique
    <2>2. q + 1 \in Nat
      BY <1>2
    <2> QED
      BY <1>2, <2>1, <2>2
  <1> QED
    BY <1>1, <1>2, <1>3, <1>4, <1>5 DEF Whole

\* The group of an index is the one whose boundaries are around it.
LEMMA GroupUnique ==
  ASSUME NEW s, Whole(s), NEW i \in Nat, s <= i, i < s + GroupSize
  PROVE  /\ calc_first_index(i) = s /\ calc_next_index(i) = s + GroupSize
         /\ i % GroupSize = i - s
  <1> DEFINE q == s \div GroupSize
  <1>1. GroupSize \in Nat /\ GroupSize >= 1 /\ s \in Nat
    BY GroupSizeIs DEF Whole
  <1>2. q \in Nat /\ s = q * GroupSize
    BY WholeProduct
  <1> HIDE DEF q
  <1>3. i - s \in 0..(GroupSize - 1) /\ i = q * GroupSize + (i - s) /\ GroupSize > 0
    BY <1>1, <1>2
  <1>4. (q * GroupSize + (i - s)) \div GroupSize = q /\ (q * GroupSize + (i - s)) % GroupSize = i - s
    BY <1>1, <1>2, <1>3, DivisionUnique
  <1>5. i \div GroupSize = q /\ i % GroupSize = i - s
    BY <1>3, <1>4
  <1>6. calc_first_index(i) = s
    BY <1>2, <1>5 DEF calc_first_index
  <1> QED
    BY <1>5, <1>6, GroupOf

\* Two boundaries are a group apart.
LEMMA NextWhole ==
  ASSUME NEW s, Whole(s), NEW e, Whole(e), s < e
  PROVE  s + GroupSize <= e
  <1>1. s \in Nat /\ e \in Nat /\ GroupSize \in Nat /\ GroupSize >= 1
    BY GroupSizeIs DEF Whole
  <1>2. ASSUME e < s + GroupSize PROVE FALSE
    <2>1. e % GroupSize = e - s
      BY <1>1, <1>2, GroupUnique
    <2> QED
      BY <1>1, <2>1 DEF Whole
  <1> QED
    BY <1>1, <1>2

\* A boundary but the first is the end of the group before it.
LEMMA EndOfGroup ==
  ASSUME NEW s, Whole(s), s > 0
  PROVE  calc_next_index(s - 1) = s
  <1>1. s \in Nat /\ s - 1 \in Nat
    BY DEF Whole
  <1> DEFINE e == calc_next_index(s - 1)
             f == calc_first_index(s - 1)
  <1>2. Whole(e) /\ s - 1 < e /\ Whole(f) /\ f <= s - 1 /\ e = f + GroupSize
    BY <1>1, GroupOf
  <1> HIDE DEF e, f
  <1>3. f + GroupSize <= s
    BY <1>1, <1>2, NextWhole DEF Whole
  <1> QED
    BY <1>1, <1>2, <1>3 DEF Whole, e

-----------------------------------------------------------------------------
\* The leaves before an index.
Cut(L, e) == [i \in 0..(Capacity - 1) |-> IF i < e THEN L[i] ELSE Default]

\* A cut vector is filled to the cut.
LEMMA CutIs ==
  ASSUME NEW X, Default \in X, NEW L \in Vectors(X), NEW e \in Nat, NEW next \in Nat,
         FilledTo(L, next), e <= next
  PROVE  Cut(L, e) \in Vectors(X) /\ FilledTo(Cut(L, e), e)
  BY GroupSizeIs DEF Cut, Vectors, FilledTo

\* A cut does not change what is before it.
LEMMA CutBefore ==
  ASSUME NEW n \in Node, NEW L, NEW e \in Nat, RightEdge(n) <= e
  PROVE  HashOf(Cut(L, e), n) = HashOf(L, n)
  <1>1. \A i \in Below(n) : Cut(L, e)[i] = L[i]
    <2> SUFFICES ASSUME NEW i \in Below(n) PROVE Cut(L, e)[i] = L[i]
      OBVIOUS
    <2>1. i \in 0..(Capacity - 1) /\ i < e
      BY BelowIs, NodeIs DEF Below
    <2> QED
      BY <2>1 DEF Cut
  <1> QED
    BY <1>1, SameLeaves

\* What remove_batched leaves of a tree.
LEMMA RemoveIs ==
  ASSUME NEW X, NEW t \in Trees(X), NEW gone
  PROVE  LET v == remove_batched(t, gone)
         IN  /\ v \in Trees(X) /\ SameIndexes(t, v)
             /\ DOMAIN v.leaves = DOMAIN t.leaves \ gone
             /\ \A n \in DOMAIN v.leaves : v.leaves[n] = t.leaves[n]
  <1> DEFINE left == Restrict(t.leaves, DOMAIN t.leaves \ gone)
  <1>1. t.leaves \in PartialHashes(X) /\ t.temp = NoNodes
    BY DEF Trees
  <1>2. /\ DOMAIN t.leaves \subseteq Node /\ \A n \in DOMAIN t.leaves : t.leaves[n] \in Seq(X)
    BY <1>1, PartialIs
  <1>3. left = [n \in DOMAIN t.leaves \ gone |-> t.leaves[n]]
    BY DEF Restrict
  <1>4. left \in [DOMAIN t.leaves \ gone -> Seq(X)] /\ DOMAIN t.leaves \ gone \in SUBSET Node
    BY <1>2, <1>3
  <1>5. left \in PartialHashes(X)
    BY <1>4, PartialMake
  <1>6. Restrict(t.temp, DOMAIN t.temp \ gone) = NoNodes
    BY <1>1 DEF Restrict, NoNodes
  <1>7. remove_batched(t, gone) = [t EXCEPT !.leaves = left, !.temp = NoNodes]
    BY <1>6 DEF remove_batched
  <1> DEFINE v == remove_batched(t, gone)
  <1>8. v.leaves = left /\ v \in Trees(X) /\ SameIndexes(t, v)
    <2> HIDE DEF left
    <2> QED
      BY <1>5, <1>7 DEF Trees, SameIndexes
  <1> HIDE DEF v
  <1>9. DOMAIN v.leaves = DOMAIN t.leaves \ gone /\ \A n \in DOMAIN v.leaves : v.leaves[n] = t.leaves[n]
    BY <1>3, <1>8
  <1> QED
    BY <1>8, <1>9 DEF v
\* A tree without nodes that reach beyond its end e, as rollback leaves it before it
\* computes the nodes across the end.
Truncated(t, L, e) ==
  /\ t.next = e
  /\ \A n \in DOMAIN t.leaves :
        /\ n \in Node /\ RightEdge(n) <= e /\ t.leaves[n] = HashOf(L, n)
        /\ t.leaves[n] # zero_note_hashes[n[1]]

\* The hashes get_node_full_batched takes without descending.
LEMMA KeptIs ==
  ASSUME NEW t, NEW e
  PROVE  /\ DOMAIN Kept(t, e) = {m \in Node : Beyond(m, e) \/ m \in DOMAIN t.leaves}
         /\ \A n \in DOMAIN Kept(t, e) :
              Kept(t, e)[n] = IF Beyond(n, e) THEN default_hashes[n[1]] ELSE t.leaves[n]
  BY DEF Kept

\* They are the hashes of the leaves that are left.
LEMMA KeptTrue ==
  ASSUME NEW X, NEW t, NEW L, NEW e \in Nat, NEW next \in Nat, e <= next, Default \in X,
         L \in Vectors(X), FilledTo(L, next), Truncated(t, L, e),
         NEW n \in DOMAIN Kept(t, e)
  PROVE  Kept(t, e)[n] = HashOf(Cut(L, e), n)
  <1>1. DOMAIN Kept(t, e) = {m \in Node : Beyond(m, e) \/ m \in DOMAIN t.leaves}
    BY KeptIs
  <1>2. Kept(t, e)[n] = IF Beyond(n, e) THEN default_hashes[n[1]] ELSE t.leaves[n]
    BY DEF Kept
  <1>3. n \in Node /\ (Beyond(n, e) \/ n \in DOMAIN t.leaves)
    BY <1>1
  <1>4. CASE Beyond(n, e)
    <2>1. FilledTo(Cut(L, e), e)
      BY CutIs
    <2>2. e <= LeftEdge(n)
      BY <1>3, <1>4, NodeIs DEF Beyond
    <2> QED
      BY <1>2, <1>3, <1>4, <2>1, <2>2, BeyondEnd
  <1>5. CASE ~Beyond(n, e)
    <2>1. t.leaves[n] = HashOf(L, n) /\ RightEdge(n) <= e
      BY <1>3, <1>5 DEF Truncated
    <2> QED
      BY <1>2, <1>3, <1>5, <2>1, CutBefore
  <1> QED
    BY <1>4, <1>5

\* The descent of rollback comes to every node across the new end.
LEMMA AcrossCut ==
  ASSUME NEW t, NEW L, NEW e \in Nat, Truncated(t, L, e),
         NEW n \in Node, LeftEdge(n) < e, e < RightEdge(n)
  PROVE  n \in Visited(Kept(t, e))
  <1>1. DOMAIN Kept(t, e) = {m \in Node : Beyond(m, e) \/ m \in DOMAIN t.leaves}
    BY KeptIs
  <1>2. ASSUME NEW m \in Node, LeftEdge(m) < e, e < RightEdge(m) PROVE m \notin DOMAIN Kept(t, e)
    <2>1. LeftEdge(m) \in Nat /\ RightEdge(m) \in Nat
      BY NodeIs
    <2>2. ~Beyond(m, e)
      BY <1>2, <2>1 DEF Beyond
    <2>3. m \notin DOMAIN t.leaves
      BY <1>2, <2>1 DEF Truncated
    <2> QED
      BY <1>1, <2>2, <2>3
  <1>3. ASSUME NEW m \in Ancestors(n) PROVE m \notin DOMAIN Kept(t, e)
    <2>1. m \in Node /\ LeftEdge(m) < e /\ e < RightEdge(m)
      BY AboveHas, NodeIs
    <2> QED
      BY <1>2, <2>1
  <1>4. n \notin DOMAIN Kept(t, e)
    BY <1>2
  <1> QED
    BY <1>3, <1>4 DEF Visited

\* The rebuilt hashes, root included, are those of the leaves that are left.
LEMMA RebuiltRoot ==
  ASSUME NEW X, NoneIsNoHash(X), Default \in X, NEW L \in Vectors(X),
         NEW t, NEW e \in Nat, NEW next \in Nat, e <= next, FilledTo(L, next),
         Truncated(t, L, e)
  PROVE  /\ \A n \in Node : Reached(Kept(t, e), n) =>
              hashes_above(Kept(t, e))[n] \in {None, HashOf(Cut(L, e), n)}
         /\ hashes_above(Kept(t, e))[Root] # None =>
              \A n \in Visited(Kept(t, e)) :
                 /\ hashes_above(Kept(t, e))[n] = HashOf(Cut(L, e), n)
                 /\ hashes_above(Kept(t, e))[n] # None
                 /\ n[1] # 0 /\ LeftEdge(n) < e
  <1> DEFINE known == Kept(t, e)
             f == hashes_above(known)
             M == Cut(L, e)
  <1>1. M \in Vectors(X)
    BY CutIs
  <1>2. \A n \in Node : HashOf(M, n) # None
    BY <1>1, HashIsNotNone
  <1>3. \A n \in Node : n \in DOMAIN known /\ Reached(known, n) => known[n] = HashOf(M, n)
    BY KeptTrue
  <1>4. \A n \in Visited(known) : n \in Node /\ n \notin DOMAIN known /\ Reached(known, n)
    BY DEF Visited, Reached
  <1>5. DOMAIN known = {m \in Node : Beyond(m, e) \/ m \in DOMAIN t.leaves}
    BY KeptIs
  <1>6. \A n \in Visited(known) : LeftEdge(n) < e
    BY <1>4, <1>5, NodeIs DEF Beyond
  <1> HIDE DEF known, M
  <1>7. \A n \in Node : Reached(known, n) => f[n] \in {None, HashOf(M, n)}
    <2>1. \A n \in Node : Reached(known, n) =>
             /\ hashes_above(known)[n] \in {None, HashOf(M, n)}
             /\ (\A m \in Node : m[1] = 0 /\ Reached(known, m) => m \in DOMAIN known) =>
                  hashes_above(known)[n] = HashOf(M, n)
      BY <1>1, <1>2, <1>3, HashesAreTrue
    <2> QED
      BY <2>1
  <1>8. f[Root] # None => \A n \in Node : Reached(known, n) => f[n] # None
    BY HashesBelowRoot
  <1>9. \A n \in Visited(known) : f[n] # None => n[1] # 0
    <2>1. f = [m \in Node |-> HashFrom(known, f, m)]
      BY HashesAboveIs
    <2> HIDE DEF f
    <2>2. \A m \in Node : f[m] = HashFrom(known, f, m)
      BY <2>1
    <2> QED
      BY <1>4, <2>2 DEF HashFrom
  <1> HIDE DEF f
  <1>10. f[Root] # None =>
           \A n \in Visited(known) : f[n] = HashOf(M, n) /\ f[n] # None /\ n[1] # 0 /\ LeftEdge(n) < e
    BY <1>4, <1>6, <1>7, <1>8, <1>9
  <1> QED
    BY <1>7, <1>10 DEF f, known, M

\* What rollback stores again are those hashes; what it keeps stays readable.
LEMMA RebuildTrue ==
  ASSUME NEW X, NoneIsNoHash(X), Default \in X, NEW L \in Vectors(X),
         NEW t \in Trees(X), NEW e \in Nat, NEW next \in Nat, e <= next, FilledTo(L, next),
         Truncated(t, L, e), rebuilt_node(t, e, Root) # None
  PROVE  LET v == rebuild(t, e)
             M == Cut(L, e)
         IN  /\ v \in Trees(X) /\ SameIndexes(t, v) /\ StoredTrue(v, M)
             /\ \A n \in Node : e < RightEdge(n) => get(v, n) = HashOf(M, n)
             /\ \A n \in Node : RightEdge(n) <= e => get(v, n) \in {get(t, n), HashOf(M, n)}
             /\ \A n \in DOMAIN v.leaves : n[1] = 0 => n \in DOMAIN t.leaves
  <1> DEFINE known == Kept(t, e)
             f == hashes_above(known)
             restored == {n \in Visited(known) : f[n] # None}
             new == [n \in restored |-> f[n]]
             v == put_hashes(t, new)
             M == Cut(L, e)
  <1>1. \A n \in Visited(known) : f[n] = HashOf(M, n) /\ f[n] # None /\ n[1] # 0 /\ LeftEdge(n) < e
    <2>1. f[Root] # None
      BY DEF rebuilt_node
    <2> QED
      BY <2>1, RebuiltRoot
  <1>2. M \in Vectors(X) /\ FilledTo(M, e)
    BY CutIs
  <1>3. \A n \in Node : LeftEdge(n) < e /\ e < RightEdge(n) => n \in Visited(known)
    BY AcrossCut
  <1>4. rebuild(t, e) = v
    BY DEF rebuild
  <1>5. \A n \in Visited(known) : n \in Node
    BY DEF Visited
  <1> HIDE DEF known, f, M
  <1>6. restored = Visited(known) /\ DOMAIN new = Visited(known) /\ \A n \in Visited(known) : new[n] = HashOf(M, n)
    BY <1>1
  <1>7. new \in PartialHashes(X)
    <2>1. \A n \in restored : f[n] \in Seq(X)
      <3> SUFFICES ASSUME NEW n \in restored PROVE f[n] \in Seq(X)
        OBVIOUS
      <3>1. n \in Node /\ f[n] = HashOf(M, n)
        BY <1>1, <1>5
      <3>2. f[n] \in [1..Width[n[1]] -> X] /\ Width[n[1]] \in Nat
        BY <1>2, <3>1, HashType, NodeIs
      <3> QED
        BY <3>2
    <2>2. restored \in SUBSET Node
      BY <1>5
    <2> HIDE DEF restored
    <2>3. new \in [restored -> Seq(X)]
      BY <2>1
    <2> QED
      BY <2>2, <2>3, PartialMake
  <1> HIDE DEF new
  <1>8. /\ v \in Trees(X) /\ SameIndexes(t, v)
        /\ v.leaves = PutLeaves(t.leaves, new)
    BY <1>7, PutHashesIs
  <1>9. v.next = e
    BY <1>8 DEF SameIndexes, Truncated
  <1> HIDE DEF v
  <1>10. /\ DOMAIN v.leaves = (DOMAIN t.leaves \ DOMAIN new) \cup Stored(new)
         /\ \A n \in Stored(new) : v.leaves[n] = new[n]
         /\ \A n \in DOMAIN t.leaves \ DOMAIN new : v.leaves[n] = t.leaves[n]
    BY <1>8 DEF PutLeaves, Stored
  <1>11. \A n \in Stored(new) : n \in DOMAIN new /\ new[n] # zero_note_hashes[n[1]]
    BY DEF Stored
  <1>12. \A n \in DOMAIN t.leaves :
            /\ n \in Node /\ RightEdge(n) <= e /\ t.leaves[n] = HashOf(L, n)
            /\ t.leaves[n] # zero_note_hashes[n[1]]
    BY DEF Truncated
  <1>13. ASSUME NEW n \in DOMAIN v.leaves
         PROVE  /\ v.leaves[n] = HashOf(M, n) /\ LeftEdge(n) < v.next
                /\ v.leaves[n] # zero_note_hashes[n[1]]
    <2>1. CASE n \in Stored(new)
      BY <1>1, <1>6, <1>9, <1>10, <1>11, <2>1
    <2>2. CASE n \notin Stored(new)
      <3>1. n \in DOMAIN t.leaves /\ v.leaves[n] = t.leaves[n]
        BY <1>10, <2>2
      <3>2. n \in Node /\ RightEdge(n) <= e
        BY <1>12, <3>1
      <3>3. HashOf(M, n) = HashOf(L, n)
        BY <3>2, CutBefore DEF M
      <3>4. LeftEdge(n) < e
        BY <3>2, NodeIs
      <3> QED
        BY <1>9, <1>12, <3>1, <3>3, <3>4
    <2> QED
      BY <2>1, <2>2
  <1>14. ASSUME NEW n \in Node, e < RightEdge(n) PROVE get(v, n) = HashOf(M, n)
    <2>1. LeftEdge(n) \in Nat /\ RightEdge(n) \in Nat
      BY NodeIs
    <2>2. n \notin DOMAIN t.leaves
      BY <1>12, <1>14, <2>1
    <2>3. CASE LeftEdge(n) < e
      <3>1. n \in DOMAIN new /\ new[n] = HashOf(M, n)
        BY <1>3, <1>6, <1>14, <2>3
      <3>2. HashOf(M, n) # zero_note_hashes[n[1]]
        BY <1>2, <1>14, <2>1, ZeroIsFilled
      <3>3. n \in Stored(new)
        BY <3>1, <3>2 DEF Stored
      <3> QED
        BY <1>10, <3>1, <3>3 DEF get
    <2>4. CASE e <= LeftEdge(n)
      <3>1. n \notin DOMAIN new
        BY <1>1, <1>6, <2>1, <2>4
      <3>2. n \notin DOMAIN v.leaves
        BY <1>10, <1>11, <2>2, <3>1
      <3>3. get(v, n) = default_hashes[n[1]]
        BY <1>9, <1>14, <2>1, <3>2 DEF get
      <3> QED
        BY <1>2, <2>4, <3>3, BeyondEnd
    <2> QED
      BY <2>1, <2>3, <2>4
  <1>15. ASSUME NEW n \in Node, RightEdge(n) <= e PROVE get(v, n) \in {get(t, n), HashOf(M, n)}
    <2>1. t.next = e
      BY DEF Truncated
    <2>2. CASE n \notin DOMAIN new
      <3>1. n \notin Stored(new)
        BY <1>11, <2>2
      <3> QED
        BY <1>9, <1>10, <2>1, <2>2, <3>1 DEF get
    <2>3. CASE n \in DOMAIN new /\ n \in Stored(new)
      BY <1>6, <1>10, <2>3 DEF get
    <2>4. CASE n \in DOMAIN new /\ n \notin Stored(new)
      <3>1. new[n] = HashOf(M, n) /\ new[n] = zero_note_hashes[n[1]]
        BY <1>6, <2>4 DEF Stored
      <3>2. n \notin DOMAIN v.leaves
        BY <1>10, <2>4
      <3> QED
        BY <1>9, <1>15, <3>1, <3>2 DEF get
    <2> QED
      BY <2>2, <2>3, <2>4
  <1>16. \A n \in DOMAIN v.leaves : n[1] = 0 => n \in DOMAIN t.leaves
    BY <1>1, <1>6, <1>10, <1>11
  <1> QED
    BY <1>4, <1>8, <1>13, <1>14, <1>15, <1>16 DEF StoredTrue, v, M, new, restored, f, known

\* Also a rollback that fails leaves a tree value behind: the nodes it had, and hashes of
\* nodes above the leaves.
LEMMA RebuildTyped ==
  ASSUME NEW X, NoneIsNoHash(X), Default \in X, NEW L \in Vectors(X),
         NEW t \in Trees(X), NEW e \in Nat, NEW next \in Nat, e <= next, FilledTo(L, next),
         Truncated(t, L, e)
  PROVE  LET v == rebuild(t, e)
         IN  /\ v \in Trees(X) /\ SameIndexes(t, v)
             /\ \A n \in DOMAIN t.leaves : n \in DOMAIN v.leaves /\ v.leaves[n] = t.leaves[n]
             /\ \A n \in DOMAIN v.leaves :
                   \/ n \in DOMAIN t.leaves
                   \/ /\ n[1] # 0 /\ v.leaves[n] = HashOf(Cut(L, e), n)
                      /\ v.leaves[n] # zero_note_hashes[n[1]]
  <1> DEFINE known == Kept(t, e)
             f == hashes_above(known)
             restored == {n \in Visited(known) : f[n] # None}
             new == [n \in restored |-> f[n]]
             M == Cut(L, e)
             v == put_hashes(t, new)
  <1>1. \A n \in Node : Reached(known, n) => f[n] \in {None, HashOf(M, n)}
    BY RebuiltRoot
  <1>2. M \in Vectors(X)
    BY CutIs
  <1>3. \A n \in Visited(known) : n \in Node /\ Reached(known, n) /\ n \notin DOMAIN known
    BY DEF Visited, Reached
  <1>4. rebuild(t, e) = v
    BY DEF rebuild
  <1>5. DOMAIN known = {m \in Node : Beyond(m, e) \/ m \in DOMAIN t.leaves}
    BY KeptIs
  <1>6. \A n \in Visited(known) : f[n] # None => n[1] # 0
    <2> HIDE DEF known
    <2>1. f = [m \in Node |-> HashFrom(known, f, m)]
      BY HashesAboveIs
    <2> HIDE DEF f
    <2>2. \A m \in Node : f[m] = HashFrom(known, f, m)
      BY <2>1
    <2> QED
      BY <1>3, <2>2 DEF HashFrom
  <1> HIDE DEF known, f, M
  <1>7. \A n \in restored : f[n] \in Seq(X)
    <2> SUFFICES ASSUME NEW n \in restored PROVE f[n] \in Seq(X)
      OBVIOUS
    <2>1. n \in Node /\ f[n] = HashOf(M, n)
      BY <1>1, <1>3
    <2>2. f[n] \in [1..Width[n[1]] -> X] /\ Width[n[1]] \in Nat
      BY <1>2, <2>1, HashType, NodeIs
    <2> QED
      BY <2>2
  <1>8. restored \in SUBSET Node
    BY <1>3
  <1>9. \A n \in restored : n \notin DOMAIN t.leaves /\ n[1] # 0 /\ f[n] = HashOf(M, n)
    BY <1>1, <1>3, <1>5, <1>6
  <1> HIDE DEF restored
  <1>10. new \in [restored -> Seq(X)]
    BY <1>7
  <1>11. DOMAIN new = restored /\ \A n \in restored : new[n] = f[n]
    OBVIOUS
  <1>12. new \in PartialHashes(X)
    BY <1>8, <1>10, PartialMake
  <1> HIDE DEF new
  <1>13. v \in Trees(X) /\ SameIndexes(t, v) /\ v.leaves = PutLeaves(t.leaves, new)
    BY <1>12, PutHashesIs
  <1> HIDE DEF v
  <1>14. /\ DOMAIN v.leaves = (DOMAIN t.leaves \ DOMAIN new) \cup Stored(new)
         /\ \A n \in Stored(new) : v.leaves[n] = new[n]
         /\ \A n \in DOMAIN t.leaves \ DOMAIN new : v.leaves[n] = t.leaves[n]
    BY <1>13 DEF PutLeaves, Stored
  <1>15. \A n \in Stored(new) : n \in DOMAIN new /\ new[n] # zero_note_hashes[n[1]]
    BY DEF Stored
  <1>16. \A n \in DOMAIN t.leaves : n \in DOMAIN v.leaves /\ v.leaves[n] = t.leaves[n]
    BY <1>9, <1>11, <1>14
  <1>17. \A n \in DOMAIN v.leaves :
            \/ n \in DOMAIN t.leaves
            \/ /\ n[1] # 0 /\ v.leaves[n] = HashOf(M, n)
               /\ v.leaves[n] # zero_note_hashes[n[1]]
    BY <1>9, <1>11, <1>14, <1>15
  <1> QED
    BY <1>4, <1>13, <1>16, <1>17 DEF v, M

\* What a wallet tree is between two calls: the tree t holds the leaves L.
Holds(t, L) ==
  /\ Whole(t.next) /\ t.next <= Capacity
  /\ t.first = None => t.next = 0
  /\ t.first # None => t.first \in Nat /\ t.first < t.next /\ Whole(t.first)
  /\ FilledTo(L, t.next) /\ StoredTrue(t, L) /\ SeenTrue(t, L)

\* What is stored of the tree t before s are the hashes of L, never those of zero
\* notes only; such a hash have the nodes that matter and are not stored there.
TrueBelow(t, L, s) ==
  \A n \in DOMAIN t.leaves : RightEdge(n) <= s =>
     t.leaves[n] = HashOf(L, n) /\ t.leaves[n] # zero_note_hashes[n[1]]
SeenBelow(t, L, s) ==
  \A n \in Node : Seen(t.first, n) /\ RightEdge(n) <= s /\ n \notin DOMAIN t.leaves =>
     HashOf(L, n) = zero_note_hashes[n[1]]

\* The tree t holds the leaves L up to s, whatever else it has.
HoldsBelow(t, L, s) ==
  /\ Whole(s)
  /\ s # 0 => t.first \in Nat /\ t.first < s /\ Whole(t.first)
  /\ \E e \in s..Capacity : FilledTo(L, e)
  /\ TrueBelow(t, L, s) /\ SeenBelow(t, L, s)

\* A tree that holds its leaves holds them up to its end.
LEMMA HoldsIsBelow ==
  ASSUME NEW t, NEW L, Holds(t, L)
  PROVE  HoldsBelow(t, L, t.next)
  <1>1. /\ Whole(t.next) /\ t.next \in Nat /\ t.next <= Capacity /\ Capacity \in Nat
        /\ FilledTo(L, t.next) /\ StoredTrue(t, L) /\ SeenTrue(t, L)
        /\ t.first = None => t.next = 0
        /\ t.first # None => t.first \in Nat /\ t.first < t.next /\ Whole(t.first)
    BY GroupSizeIs DEF Holds, Whole
  <1>2. \E e \in t.next..Capacity : FilledTo(L, e)
    BY <1>1
  <1>3. TrueBelow(t, L, t.next)
    BY <1>1 DEF TrueBelow, StoredTrue
  <1>4. SeenBelow(t, L, t.next)
    BY <1>1 DEF SeenBelow, SeenTrue, get
  <1> QED
    BY <1>1, <1>2, <1>3, <1>4 DEF HoldsBelow

\* Where rollback cuts the tree: one that cannot keep its first group is emptied.
CutPoint(t, r) == IF t.first # None /\ r <= t.first THEN 0 ELSE r

\* The trees that rollback writes before it removes nodes: the end is moved, and the
\* first index forgotten when nothing is left.
Ended(t, e) == [t EXCEPT !.next = e, !.db_next = e]
Emptied(t, e) == IF e = 0 THEN [Ended(t, e) EXCEPT !.first = None, !.db_first = None] ELSE Ended(t, e)

\* The tree that rollback has before it computes the nodes across its end.
Shortened(t, e) == remove_batched(Emptied(t, e), {n \in DOMAIN t.leaves : Obsolete(n, e)})

\* What rollback writes.
RollbackWrites(t, e) ==
  LET s == Shortened(t, e)
  IN  <<Ended(t, e), Emptied(t, e), s, rebuild(s, e), reset_stable_index(rebuild(s, e))>>

\* rollback in wallets (no temporary leaves, clean never called): cut, then rebuild.
LEMMA RollbackIs ==
  ASSUME NEW X, NEW t \in Trees(X), NEW r, Whole(r)
  PROVE  LET e == CutPoint(t, r)
         IN  /\ e \in Nat /\ Whole(e)
             /\ rollback(t, r).root = rebuilt_node(Shortened(t, e), e, Root)
             /\ rollback(t, r).writes = RollbackWrites(t, e)
             /\ Last(rollback(t, r).writes) = reset_stable_index(rebuild(Shortened(t, e), e))
  <1> DEFINE e == CutPoint(t, r)
  <1>1. e \in Nat /\ Whole(e)
    BY GroupSizeIs DEF CutPoint, Whole
  <1>2. e = IF t.first # None /\ r <= t.first THEN 0 ELSE r
    BY DEF CutPoint
  <1> HIDE DEF e
  <1> DEFINE next == IF e > 0 THEN calc_next_index(e - 1) ELSE 0
             t1 == [t EXCEPT !.next = next, !.db_next = next]
             t2 == IF e = 0 THEN [t1 EXCEPT !.first = None, !.db_first = None] ELSE t1
             t3 == remove_batched(t2, {n \in DOMAIN t.leaves : Obsolete(n, e)})
  <1>3. next = e
    BY <1>1, EndOfGroup
  <1>4. t1 = Ended(t, e) /\ t2 = Emptied(t, e)
    <2> HIDE DEF next
    <2> QED
      BY <1>3 DEF Ended, Emptied
  <1>5. t3 = Shortened(t, e)
    <2> HIDE DEF t2
    <2> QED
      BY <1>4 DEF Shortened
  <1>6. ~ (e < t.clean)
    BY <1>1 DEF Trees
  <1>7. rollback(t, r) =
          [root |-> rebuilt_node(t3, next, Root),
           writes |-> <<t1, t2, t3, rebuild(t3, next), reset_stable_index(rebuild(t3, next))>>]
    BY <1>2, <1>6 DEF rollback
  <1> HIDE DEF t1, t2, t3, next
  <1>8. /\ rollback(t, r).root = rebuilt_node(t3, next, Root)
        /\ rollback(t, r).writes =
             <<t1, t2, t3, rebuild(t3, next), reset_stable_index(rebuild(t3, next))>>
        /\ Last(rollback(t, r).writes) = reset_stable_index(rebuild(t3, next))
    BY <1>7 DEF Last
  <1> QED
    BY <1>1, <1>3, <1>4, <1>5, <1>8 DEF e, RollbackWrites

\* What is left once the nodes beyond the cut are removed.
LEMMA ShortenedIs ==
  ASSUME NEW X, NEW t \in Trees(X), NEW L, NEW e \in Nat, TrueBelow(t, L, e)
  PROVE  LET v == Shortened(t, e)
         IN  /\ v \in Trees(X) /\ Truncated(v, L, e)
             /\ v.db_next = e /\ v.stable = t.stable
             /\ v.first = IF e = 0 THEN None ELSE t.first
             /\ v.db_first = IF e = 0 THEN None ELSE t.db_first
             /\ DOMAIN v.leaves = {n \in DOMAIN t.leaves : RightEdge(n) <= e}
  <1> DEFINE gone == {n \in DOMAIN t.leaves : Obsolete(n, e)}
             u == Emptied(t, e)
             v == remove_batched(u, gone)
  <1>1. /\ u \in Trees(X) /\ u.leaves = t.leaves /\ u.next = e /\ u.db_next = e
        /\ u.stable = t.stable /\ u.first = IF e = 0 THEN None ELSE t.first
        /\ u.db_first = IF e = 0 THEN None ELSE t.db_first
    BY DEF Trees, Emptied, Ended
  <1> HIDE DEF u
  <1>2. /\ v \in Trees(X) /\ SameIndexes(u, v)
        /\ DOMAIN v.leaves = DOMAIN u.leaves \ gone
        /\ \A n \in DOMAIN v.leaves : v.leaves[n] = u.leaves[n]
    BY <1>1, RemoveIs
  <1> HIDE DEF v
  <1>3. DOMAIN t.leaves \subseteq Node
    <2>1. t.leaves \in PartialHashes(X)
      BY DEF Trees
    <2> QED
      BY <2>1, PartialIs
  <1>4. \A n \in DOMAIN t.leaves : n \in gone <=> ~ RightEdge(n) <= e
    BY <1>3, NodeIs DEF Obsolete
  <1> HIDE DEF gone
  <1>5. DOMAIN v.leaves = {n \in DOMAIN t.leaves : RightEdge(n) <= e}
    BY <1>1, <1>2, <1>4
  <1>6. v.next = e /\ v.db_next = e /\ v.stable = t.stable /\ v.first = u.first /\ v.db_first = u.db_first
    BY <1>1, <1>2 DEF SameIndexes
  <1>7. \A n \in DOMAIN t.leaves : RightEdge(n) <= e =>
           t.leaves[n] = HashOf(L, n) /\ t.leaves[n] # zero_note_hashes[n[1]]
    BY DEF TrueBelow
  <1>8. Truncated(v, L, e)
    <2> SUFFICES ASSUME NEW n \in DOMAIN v.leaves
                 PROVE  /\ n \in Node /\ RightEdge(n) <= e /\ v.leaves[n] = HashOf(L, n)
                        /\ v.leaves[n] # zero_note_hashes[n[1]]
      BY <1>6 DEF Truncated
    <2>1. n \in DOMAIN t.leaves /\ RightEdge(n) <= e /\ v.leaves[n] = t.leaves[n]
      BY <1>1, <1>2, <1>5
    <2> QED
      BY <1>3, <1>7, <2>1
  <1>9. Shortened(t, e) = v
    BY DEF Shortened, v, gone, u
  <1> QED
    BY <1>1, <1>2, <1>5, <1>6, <1>8, <1>9

\* rollback of what is left of a tree: the root it gives back is that of the leaves
\* before the cut, and the tree it leaves holds them.
LEMMA RollbackBelow ==
  ASSUME NEW X, NoneIsNoHash(X), Default \in X, NEW L \in Vectors(X),
         NEW t \in Trees(X), NEW c, HoldsBelow(t, L, c), NEW r, Whole(r), r <= c
  PROVE  LET undo == rollback(t, r)
             e == CutPoint(t, r)
             v == Last(undo.writes)
         IN  /\ undo.root \in {None, HashOf(Cut(L, e), Root)}
             /\ v \in Trees(X)
             /\ undo.root # None =>
                  /\ v.next = e /\ v.db_next = e /\ Holds(v, Cut(L, e))
                  /\ v.first = IF e = 0 THEN None ELSE t.first
                  /\ v.db_first = IF e = 0 THEN None ELSE t.db_first
                  /\ v.stable = IF e < t.stable THEN 0 ELSE t.stable
                  /\ \A n \in DOMAIN v.leaves :
                        n[1] = 0 => n \in DOMAIN t.leaves /\ RightEdge(n) <= e
  <1> DEFINE e == CutPoint(t, r)
             s == Shortened(t, e)
             w == rebuild(s, e)
             v == reset_stable_index(w)
             M == Cut(L, e)
  <1>1. /\ e \in Nat /\ Whole(e)
        /\ rollback(t, r).root = rebuilt_node(s, e, Root)
        /\ Last(rollback(t, r).writes) = v
    BY RollbackIs
  <1>2. /\ c \in Nat /\ Whole(c)
        /\ TrueBelow(t, L, c) /\ SeenBelow(t, L, c)
        /\ c # 0 => t.first \in Nat /\ t.first < c /\ Whole(t.first)
        /\ t.first \in Nat \cup {None}
    BY DEF HoldsBelow, Whole, Trees
  <1>3. PICK next \in c..Capacity : FilledTo(L, next)
    BY DEF HoldsBelow
  <1>4. next \in Nat /\ next <= Capacity /\ c <= next
    BY <1>2, <1>3, GroupSizeIs
  <1>5. e <= c /\ e <= next /\ (e # 0 => e = r /\ t.first # None /\ ~ r <= t.first /\ t.first \in Nat /\ Whole(t.first))
    <2>1. r \in Nat
      BY DEF Whole
    <2> QED
      BY <1>2, <1>4, <2>1, SentinelsAssumption DEF CutPoint
  <1> HIDE DEF e
  <1>6. TrueBelow(t, L, e)
    <2>1. DOMAIN t.leaves \subseteq Node
      BY PartialIs DEF Trees
    <2> QED
      BY <1>1, <1>2, <1>5, <2>1, NodeIs DEF TrueBelow
  <1>7. /\ s \in Trees(X) /\ Truncated(s, L, e)
        /\ s.db_next = e /\ s.stable = t.stable
        /\ s.first = IF e = 0 THEN None ELSE t.first
        /\ s.db_first = IF e = 0 THEN None ELSE t.db_first
        /\ DOMAIN s.leaves = {n \in DOMAIN t.leaves : RightEdge(n) <= e}
    BY <1>1, <1>6, ShortenedIs
  <1> HIDE DEF s
  <1>8. s.next = e
    BY <1>7 DEF Truncated
  <1>9. w \in Trees(X) /\ SameIndexes(s, w)
    BY <1>1, <1>3, <1>4, <1>5, <1>7, RebuildTyped
  <1>10. /\ v \in Trees(X) /\ v.leaves = w.leaves /\ v.next = w.next /\ v.db_next = w.db_next
         /\ v.first = w.first /\ v.db_first = w.db_first
         /\ v.stable = IF w.next < w.stable THEN 0 ELSE w.stable
    <2> HIDE DEF w
    <2> QED
      BY <1>9 DEF reset_stable_index, Trees
  <1>11. M \in Vectors(X) /\ FilledTo(M, e)
    BY <1>1, <1>3, <1>4, <1>5, CutIs
  <1>12. rebuilt_node(s, e, Root) \in {None, HashOf(M, Root)}
    <2>1. \A n \in Node : Reached(Kept(s, e), n) =>
              hashes_above(Kept(s, e))[n] \in {None, HashOf(M, n)}
      BY <1>1, <1>3, <1>4, <1>5, <1>7, RebuiltRoot
    <2>2. Ancestors(Root) = {}
      BY RootIs, AncestorsAre, NodeIs
    <2> QED
      BY <2>1, <2>2, RootIs DEF Reached, rebuilt_node
  <1>13. ASSUME rebuilt_node(s, e, Root) # None
         PROVE  /\ v.next = e /\ v.db_next = e /\ Holds(v, M)
                /\ v.first = IF e = 0 THEN None ELSE t.first
                /\ v.db_first = IF e = 0 THEN None ELSE t.db_first
                /\ v.stable = IF e < t.stable THEN 0 ELSE t.stable
                /\ \A n \in DOMAIN v.leaves : n[1] = 0 => n \in DOMAIN t.leaves /\ RightEdge(n) <= e
    <2>1. /\ StoredTrue(w, M)
          /\ \A n \in Node : e < RightEdge(n) => get(w, n) = HashOf(M, n)
          /\ \A n \in Node : RightEdge(n) <= e => get(w, n) \in {get(s, n), HashOf(M, n)}
          /\ \A n \in DOMAIN w.leaves : n[1] = 0 => n \in DOMAIN s.leaves
      BY <1>1, <1>3, <1>4, <1>5, <1>7, <1>13, RebuildTrue
    <2> HIDE DEF w, M
    <2>2. /\ v.next = e /\ v.db_next = e /\ v.first = s.first /\ v.db_first = s.db_first
          /\ v.stable = IF e < t.stable THEN 0 ELSE t.stable
      BY <1>7, <1>8, <1>9, <1>10 DEF SameIndexes
    <2> HIDE DEF v
    <2>3. StoredTrue(v, M)
      BY <1>9, <1>10, <2>1 DEF StoredTrue
    <2>4. \A n \in Node : get(v, n) = get(w, n)
      BY <1>10 DEF get
    <2>5. ASSUME NEW n \in Node, Seen(v.first, n) PROVE get(v, n) = HashOf(M, n)
      <3>1. LeftEdge(n) \in Nat /\ RightEdge(n) \in Nat /\ LeftEdge(n) < RightEdge(n)
        BY NodeIs
      <3>2. CASE e < RightEdge(n)
        BY <2>1, <2>4, <3>2
      <3>3. CASE RightEdge(n) <= e
        <4>1. e # 0
          BY <3>1, <3>3
        <4>2. v.first = t.first
          BY <1>7, <2>2, <4>1
        <4>3. RightEdge(n) <= c
          BY <1>1, <1>2, <1>5, <3>1, <3>3
        <4>4. n \notin DOMAIN t.leaves => HashOf(L, n) = zero_note_hashes[n[1]]
          BY <1>2, <2>5, <4>2, <4>3 DEF SeenBelow
        <4>5. get(s, n) = HashOf(L, n)
          <5>1. n \in DOMAIN s.leaves <=> n \in DOMAIN t.leaves
            BY <1>7, <3>3
          <5>2. n \in DOMAIN s.leaves => s.leaves[n] = HashOf(L, n)
            BY <1>7 DEF Truncated
          <5>3. RightEdge(n) <= s.next
            BY <1>8, <3>3
          <5> QED
            BY <4>4, <5>1, <5>2, <5>3 DEF get
        <4>6. HashOf(M, n) = HashOf(L, n)
          BY <1>1, <3>3, CutBefore DEF M
        <4>7. get(w, n) \in {get(s, n), HashOf(M, n)}
          BY <2>1, <3>3
        <4> QED
          BY <2>4, <4>5, <4>6, <4>7
      <3> QED
        BY <1>1, <3>1, <3>2, <3>3
    <2>6. /\ v.first = None => v.next = 0
          /\ v.first # None => v.first \in Nat /\ v.first < v.next /\ Whole(v.first)
      <3>1. r \in Nat
        BY DEF Whole
      <3> QED
        BY <1>1, <1>2, <1>5, <1>7, <2>2, <3>1
    <2>7. Holds(v, M)
      <3>1. Whole(v.next) /\ v.next <= Capacity
        BY <1>1, <1>4, <1>5, <2>2, GroupSizeIs
      <3>2. FilledTo(M, v.next)
        BY <1>11, <2>2
      <3>3. SeenTrue(v, M)
        BY <2>5 DEF SeenTrue
      <3> QED
        BY <2>3, <2>6, <3>1, <3>2, <3>3 DEF Holds
    <2> QED
      BY <1>7, <1>10, <2>1, <2>2, <2>7
  <1> QED
    BY <1>1, <1>10, <1>12, <1>13 DEF e, M

\* The same for a tree that holds its leaves.
LEMMA RollbackTrue ==
  ASSUME NEW X, NoneIsNoHash(X), Default \in X, NEW L \in Vectors(X),
         NEW t \in Trees(X), Holds(t, L), NEW r, Whole(r), r <= t.next
  PROVE  LET undo == rollback(t, r)
             e == CutPoint(t, r)
             v == Last(undo.writes)
         IN  /\ undo.root \in {None, HashOf(Cut(L, e), Root)}
             /\ v \in Trees(X)
             /\ undo.root # None =>
                  /\ v.next = e /\ v.db_next = e /\ Holds(v, Cut(L, e))
                  /\ v.first = IF e = 0 THEN None ELSE t.first
                  /\ v.db_first = IF e = 0 THEN None ELSE t.db_first
                  /\ v.stable = IF e < t.stable THEN 0 ELSE t.stable
                  /\ \A n \in DOMAIN v.leaves :
                        n[1] = 0 => n \in DOMAIN t.leaves /\ RightEdge(n) <= e
  <1>1. HoldsBelow(t, L, t.next)
    BY HoldsIsBelow
  <1> QED
    BY <1>1, RollbackBelow

-----------------------------------------------------------------------------
\* Leaves and groups as nodes.
LEMMA LeafNode ==
  ASSUME NEW j \in 0..(Capacity - 1)
  PROVE  /\ <<0, j>> \in Node /\ <<0, j>>[1] = 0 /\ <<0, j>>[2] = j
         /\ LeftEdge(<<0, j>>) = j /\ RightEdge(<<0, j>>) = j + 1
  <1>1. /\ 0 \in 0..HEIGHT /\ HEIGHT - 0 = HEIGHT /\ Width[0] = 1 /\ Capacity \in Nat
        /\ j < Width[HEIGHT - 0] /\ j \in Nat
    BY SizesAssumption, WidthIs, GroupSizeIs DEF Capacity
  <1>2. <<0, j>> \in Node
    BY <1>1, NodeAt
  <1> QED
    BY <1>1, <1>2 DEF LeftEdge, RightEdge

\* The node that has a leaf is the leaf or above it.
LEMMA HasLeaf ==
  ASSUME NEW j \in 0..(Capacity - 1), NEW m \in Node, LeftEdge(m) <= j, j < RightEdge(m)
  PROVE  (m = <<0, j>> \/ m \in Ancestors(<<0, j>>)) /\ m = Above(<<0, j>>, m[1])
  <1>1. /\ <<0, j>> \in Node /\ <<0, j>>[1] = 0
        /\ LeftEdge(<<0, j>>) = j /\ RightEdge(<<0, j>>) = j + 1
    BY LeafNode
  <1>2. LeftEdge(m) \in Nat /\ RightEdge(m) \in Nat /\ m[1] \in 0..HEIGHT /\ j \in Nat
    BY NodeIs
  <1>3. m = Above(<<0, j>>, m[1])
    BY <1>1, <1>2, AboveUnique
  <1>4. CASE m[1] = 0
    <2>1. m = <<0, j>>
      BY <1>1, <1>2, <1>4, SameLevel
    <2> QED
      BY <1>3, <2>1
  <1>5. CASE m[1] # 0
    <2>1. m \in Ancestors(<<0, j>>)
      BY <1>1, <1>2, <1>5, AncestorsAre
    <2> QED
      BY <1>3, <2>1
  <1> QED
    BY <1>4, <1>5

\* The node of a height above a leaf.
LEMMA LeafAbove ==
  ASSUME NEW j \in 0..(Capacity - 1), NEW h \in 0..HEIGHT
  PROVE  LET m == Above(<<0, j>>, h)
         IN  /\ m \in Node /\ m[1] = h /\ LeftEdge(m) <= j /\ j < RightEdge(m)
             /\ m = <<h, j \div Width[h]>>
  <1>1. /\ <<0, j>> \in Node /\ <<0, j>>[1] = 0 /\ h \in <<0, j>>[1]..HEIGHT
        /\ LeftEdge(<<0, j>>) = j /\ RightEdge(<<0, j>>) = j + 1
    BY LeafNode
  <1> DEFINE m == Above(<<0, j>>, h)
  <1>2. /\ m \in Node /\ m[1] = h
        /\ LeftEdge(m) <= LeftEdge(<<0, j>>) /\ RightEdge(<<0, j>>) <= RightEdge(m)
    BY <1>1, AboveIs
  <1>3. m = <<h, j \div Width[h]>>
    <2>1. h - 0 = h
      BY SizesAssumption
    <2> QED
      BY <2>1 DEF Above
  <1> HIDE DEF m
  <1>4. LeftEdge(m) \in Nat /\ RightEdge(m) \in Nat /\ j \in Nat
    BY <1>2, NodeIs
  <1> QED
    BY <1>1, <1>2, <1>3, <1>4 DEF m

\* The node of a group.
LEMMA GroupNode ==
  ASSUME NEW i, Whole(i), i + GroupSize <= Capacity
  PROVE  LET g == Above(<<0, i>>, OUTPLUSONELOG)
         IN  /\ g \in Node /\ g[1] = OUTPLUSONELOG /\ Width[g[1]] = GroupSize
             /\ LeftEdge(g) = i /\ RightEdge(g) = i + GroupSize
  <1>1. i \in 0..(Capacity - 1) /\ i \in Nat /\ GroupSize \in Nat /\ OUTPLUSONELOG \in 0..HEIGHT
    BY GroupSizeIs DEF Whole
  <1> DEFINE g == Above(<<0, i>>, OUTPLUSONELOG)
  <1>2. g \in Node /\ g[1] = OUTPLUSONELOG /\ LeftEdge(g) <= i /\ i < RightEdge(g)
    BY <1>1, LeafAbove
  <1> HIDE DEF g
  <1>3. LeftEdge(g) \in Nat /\ RightEdge(g) = LeftEdge(g) + GroupSize /\ Width[g[1]] = GroupSize
    BY <1>2, NodeIs DEF GroupSize
  <1>4. i <= LeftEdge(g) \/ RightEdge(g) <= i
    BY <1>1, <1>2, BoundaryOutside
  <1> QED
    BY <1>1, <1>2, <1>3, <1>4 DEF g

-----------------------------------------------------------------------------
\* update_path_batched: the hashes and the counts on the way from a node to the root.
ClimbHash(u, n, hash, up) ==
  [h \in n[1]..HEIGHT |->
     IF h = n[1] THEN hash
     ELSE IF Above(n, h - 1)[2] % 2 = 0
          THEN poseidon(up[h - 1], get(u, Sibling(Above(n, h - 1))))
          ELSE poseidon(get(u, Sibling(Above(n, h - 1))), up[h - 1])]

\* The hashes that add_hash_at_height computes.
Climbed(u, n, hash) == CHOOSE up : up = ClimbHash(u, n, hash, up)

\* The hash of a node on the way up, from that below it and its sibling.
LEMMA HashAbove ==
  ASSUME NEW X, NEW M \in Vectors(X), NEW n \in Node, NEW h \in n[1]..HEIGHT, h # n[1]
  PROVE  HashOf(M, Above(n, h)) =
           IF Above(n, h - 1)[2] % 2 = 0
           THEN poseidon(HashOf(M, Above(n, h - 1)), HashOf(M, Sibling(Above(n, h - 1))))
           ELSE poseidon(HashOf(M, Sibling(Above(n, h - 1))), HashOf(M, Above(n, h - 1)))
  <1>1. n[1] \in 0..HEIGHT /\ n[1] \in Nat /\ HEIGHT \in Nat
    BY NodeIs, SizesAssumption
  <1> DEFINE a == Above(n, h - 1)
             p == Above(a, a[1] + 1)
  <1>2. h - 1 \in n[1]..HEIGHT /\ h - 1 \in n[1]..(HEIGHT - 1) /\ h \in 0..HEIGHT
    BY <1>1
  <1>3. /\ a \in Node /\ a[1] = h - 1
        /\ LeftEdge(a) <= LeftEdge(n) /\ RightEdge(n) <= RightEdge(a)
    BY <1>2, AboveIs
  <1> HIDE DEF a
  <1>4. a[1] < HEIGHT /\ a[1] + 1 = h
    BY <1>1, <1>2, <1>3
  <1>5. /\ p \in Node /\ p[1] = h
        /\ \/ a[2] % 2 = 0 /\ a = LeftChild(p) /\ Sibling(a) = RightChild(p)
           \/ a[2] % 2 = 1 /\ a = RightChild(p) /\ Sibling(a) = LeftChild(p)
    BY <1>3, <1>4, ParentIs
  <1>6. LeftEdge(p) <= LeftEdge(a) /\ RightEdge(a) <= RightEdge(p)
    <2>1. a[1] + 1 \in a[1]..HEIGHT
      BY <1>1, <1>2, <1>3
    <2> QED
      BY <1>3, <2>1, AboveIs
  <1> HIDE DEF p
  <1>7. p = Above(n, h)
    <2>1. n[1] <= p[1]
      BY <1>1, <1>5
    <2>2. LeftEdge(p) < RightEdge(n) /\ LeftEdge(n) < RightEdge(p)
      BY <1>3, <1>5, <1>6, NodeIs
    <2> QED
      BY <1>5, <2>1, <2>2, AboveUnique
  <1>8. poseidon(HashOf(M, LeftChild(p)), HashOf(M, RightChild(p))) = HashOf(M, p)
    <2>1. p[1] > 0
      BY <1>1, <1>5
    <2> QED
      BY <1>5, <2>1, HashOfChildren
  <1>9. CASE a[2] % 2 = 0
    <2>1. a = LeftChild(p) /\ Sibling(a) = RightChild(p)
      BY <1>5, <1>9
    <2> QED
      BY <1>7, <1>8, <1>9, <2>1 DEF a
  <1>10. CASE a[2] % 2 # 0
    <2>1. a = RightChild(p) /\ Sibling(a) = LeftChild(p)
      BY <1>5, <1>10
    <2> QED
      BY <1>7, <1>8, <1>10, <2>1 DEF a
  <1> QED
    BY <1>9, <1>10

\* With true hashes beside the path those on it are true.
LEMMA ClimbTrue ==
  ASSUME NEW X, NEW M \in Vectors(X), NEW n \in Node, NEW u,
         \A h \in n[1]..(HEIGHT - 1) :
            get(u, Sibling(Above(n, h))) = HashOf(M, Sibling(Above(n, h)))
  PROVE  \A h \in n[1]..HEIGHT : Climbed(u, n, HashOf(M, n))[h] = HashOf(M, Above(n, h))
  <1> DEFINE hash == HashOf(M, n)
             true == [h \in n[1]..HEIGHT |-> HashOf(M, Above(n, h))]
             up == Climbed(u, n, hash)
  <1>1. n[1] \in 0..HEIGHT /\ n[1] \in Nat /\ HEIGHT \in Nat
    BY NodeIs, SizesAssumption
  <1>2. Above(n, n[1]) = n
    BY <1>1, NodeIs, AboveUnique
  <1>3. ASSUME NEW h \in n[1]..HEIGHT, h # n[1]
        PROVE  HashOf(M, Above(n, h)) =
                 IF Above(n, h - 1)[2] % 2 = 0
                 THEN poseidon(HashOf(M, Above(n, h - 1)), get(u, Sibling(Above(n, h - 1))))
                 ELSE poseidon(get(u, Sibling(Above(n, h - 1))), HashOf(M, Above(n, h - 1)))
    <2>1. h - 1 \in n[1]..(HEIGHT - 1)
      BY <1>1, <1>3
    <2>2. get(u, Sibling(Above(n, h - 1))) = HashOf(M, Sibling(Above(n, h - 1)))
      BY <2>1
    <2>3. HashOf(M, Above(n, h)) =
            IF Above(n, h - 1)[2] % 2 = 0
            THEN poseidon(HashOf(M, Above(n, h - 1)), HashOf(M, Sibling(Above(n, h - 1))))
            ELSE poseidon(HashOf(M, Sibling(Above(n, h - 1))), HashOf(M, Above(n, h - 1)))
      BY <1>3, HashAbove
    <2> QED
      BY <2>2, <2>3
  <1>4. true = ClimbHash(u, n, hash, true)
    <2>1. ASSUME NEW h \in n[1]..HEIGHT PROVE true[h] = ClimbHash(u, n, hash, true)[h]
      <3>1. CASE h = n[1]
        BY <1>2, <3>1 DEF ClimbHash
      <3>2. CASE h # n[1]
        <4>1. h - 1 \in n[1]..HEIGHT
          BY <1>1, <3>2
        <4>2. true[h - 1] = HashOf(M, Above(n, h - 1)) /\ true[h] = HashOf(M, Above(n, h))
          BY <4>1
        <4> HIDE DEF true
        <4> QED
          BY <1>3, <3>2, <4>2 DEF ClimbHash
      <3> QED
        BY <3>1, <3>2
    <2>2. DOMAIN ClimbHash(u, n, hash, true) = n[1]..HEIGHT
      BY DEF ClimbHash
    <2>3. ClimbHash(u, n, hash, true) = [h \in n[1]..HEIGHT |-> ClimbHash(u, n, hash, true)[h]]
      BY DEF ClimbHash
    <2> QED
      BY <2>1, <2>3
  <1>5. up = ClimbHash(u, n, hash, up)
    <2> HIDE DEF true, hash
    <2> QED
      BY <1>4 DEF Climbed
  <1>6. \A h \in n[1]..HEIGHT : up[h] = HashOf(M, Above(n, h))
    <2> DEFINE S == {h \in 0..HEIGHT : n[1] <= h => up[h] = HashOf(M, Above(n, h))}
    <2> HIDE DEF up
    <2>1. up[n[1]] = HashOf(M, Above(n, n[1]))
      BY <1>1, <1>2, <1>5 DEF ClimbHash
    <2>2. 0 \in S
      BY <1>1, <2>1
    <2>3. ASSUME NEW h \in 1..HEIGHT, h - 1 \in S PROVE h \in S
      <3> SUFFICES ASSUME n[1] <= h PROVE up[h] = HashOf(M, Above(n, h))
        BY <1>1
      <3>1. CASE h = n[1]
        BY <2>1, <3>1
      <3>2. CASE h # n[1]
        <4>1. h \in n[1]..HEIGHT /\ n[1] <= h - 1
          BY <1>1, <3>2
        <4>2. up[h - 1] = HashOf(M, Above(n, h - 1))
          BY <2>3, <4>1
        <4>3. up[h] = IF Above(n, h - 1)[2] % 2 = 0
                      THEN poseidon(up[h - 1], get(u, Sibling(Above(n, h - 1))))
                      ELSE poseidon(get(u, Sibling(Above(n, h - 1))), up[h - 1])
          BY <1>5, <3>2, <4>1 DEF ClimbHash
        <4> QED
          BY <1>3, <3>2, <4>1, <4>2, <4>3
      <3> QED
        BY <3>1, <3>2
    <2> HIDE DEF S
    <2>4. 0..HEIGHT \subseteq S
      BY <1>1, <2>2, <2>3, IntervalInduction
    <2> QED
      BY <1>1, <2>4 DEF S
  <1> QED
    BY <1>6

\* The last of two and of three writes.
LEMMA LastOfTwo ==
  ASSUME NEW x, NEW y
  PROVE  Last(<<x, y>>) = y
  BY DEF Last

\* The last of three writes.
LEMMA LastOfThree ==
  ASSUME NEW x, NEW y, NEW z
  PROVE  Last(<<x, y, z>>) = z
  BY DEF Last

\* The hashes a verifier computes from a leaf and its proof.
FoldHash(leaf, index, proof, up) ==
  [h \in 0..HEIGHT |->
     IF h = 0 THEN leaf
     ELSE IF Above(<<0, index>>, h - 1)[2] % 2 = 0
          THEN poseidon(up[h - 1], proof[h - 1])
          ELSE poseidon(proof[h - 1], up[h - 1])]

Folded(leaf, index, proof) == CHOOSE up : up = FoldHash(leaf, index, proof, up)

\* What a verifier arrives at is the last of these.
LEMMA FoldIs ==
  ASSUME NEW leaf, NEW index, NEW proof
  PROVE  FoldProof(leaf, index, proof) = Folded(leaf, index, proof)[HEIGHT]
  BY DEF FoldProof, Folded, FoldHash

\* From a true leaf and true siblings the verifier computes true hashes.
LEMMA FoldTrue ==
  ASSUME NEW X, NEW M \in Vectors(X), NEW index \in 0..(Capacity - 1), NEW proof,
         \A h \in 0..(HEIGHT - 1) : proof[h] = HashOf(M, Sibling(Above(<<0, index>>, h)))
  PROVE  FoldProof(HashOf(M, <<0, index>>), index, proof) = HashOf(M, Above(<<0, index>>, HEIGHT))
  <1> DEFINE n == <<0, index>>
             leaf == HashOf(M, n)
             true == [h \in 0..HEIGHT |-> HashOf(M, Above(n, h))]
             up == Folded(leaf, index, proof)
  <1>1. HEIGHT \in Nat /\ n \in Node /\ n[1] = 0
    BY SizesAssumption, LeafNode
  <1>2. Above(n, 0) = n
    <2>1. n = Above(n, n[1])
      BY <1>1, NodeIs, AboveUnique
    <2> QED
      BY <1>1, <2>1
  <1>3. ASSUME NEW h \in 0..HEIGHT, h # 0
        PROVE  HashOf(M, Above(n, h)) =
                 IF Above(n, h - 1)[2] % 2 = 0
                 THEN poseidon(HashOf(M, Above(n, h - 1)), proof[h - 1])
                 ELSE poseidon(proof[h - 1], HashOf(M, Above(n, h - 1)))
    <2>1. h - 1 \in 0..(HEIGHT - 1)
      BY <1>1, <1>3
    <2>2. proof[h - 1] = HashOf(M, Sibling(Above(n, h - 1)))
      BY <2>1
    <2> HIDE DEF n
    <2>3. h \in n[1]..HEIGHT /\ h # n[1]
      BY <1>1, <1>3
    <2>4. HashOf(M, Above(n, h)) =
            IF Above(n, h - 1)[2] % 2 = 0
            THEN poseidon(HashOf(M, Above(n, h - 1)), HashOf(M, Sibling(Above(n, h - 1))))
            ELSE poseidon(HashOf(M, Sibling(Above(n, h - 1))), HashOf(M, Above(n, h - 1)))
      BY <1>1, <2>3, HashAbove
    <2> QED
      BY <2>2, <2>4
  <1>4. true = FoldHash(leaf, index, proof, true)
    <2>1. ASSUME NEW h \in 0..HEIGHT PROVE true[h] = FoldHash(leaf, index, proof, true)[h]
      <3>1. CASE h = 0
        BY <1>2, <3>1 DEF FoldHash
      <3>2. CASE h # 0
        <4>1. h - 1 \in 0..HEIGHT
          BY <1>1, <3>2
        <4>2. true[h - 1] = HashOf(M, Above(n, h - 1)) /\ true[h] = HashOf(M, Above(n, h))
          BY <4>1
        <4> HIDE DEF true
        <4> QED
          BY <1>3, <3>2, <4>2 DEF FoldHash
      <3> QED
        BY <3>1, <3>2
    <2>2. FoldHash(leaf, index, proof, true)
            = [h \in 0..HEIGHT |-> FoldHash(leaf, index, proof, true)[h]]
      BY DEF FoldHash
    <2> QED
      BY <2>1, <2>2
  <1>5. up = FoldHash(leaf, index, proof, up)
    <2> HIDE DEF true, leaf
    <2> QED
      BY <1>4 DEF Folded
  <1>6. up[HEIGHT] = HashOf(M, Above(n, HEIGHT))
    <2> DEFINE S == {h \in 0..HEIGHT : up[h] = HashOf(M, Above(n, h))}
    <2> HIDE DEF up
    <2>1. up[0] = HashOf(M, Above(n, 0))
      <3>1. FoldHash(leaf, index, proof, up)[0] = leaf
        BY <1>1 DEF FoldHash
      <3> QED
        BY <1>1, <1>2, <1>5, <3>1
    <2>2. 0 \in S
      BY <1>1, <2>1
    <2>3. ASSUME NEW h \in 1..HEIGHT, h - 1 \in S PROVE h \in S
      <3>1. h \in 0..HEIGHT /\ h # 0 /\ up[h - 1] = HashOf(M, Above(n, h - 1))
        BY <1>1, <2>3
      <3>2. up[h] = IF Above(n, h - 1)[2] % 2 = 0
                    THEN poseidon(up[h - 1], proof[h - 1])
                    ELSE poseidon(proof[h - 1], up[h - 1])
        BY <1>5, <3>1 DEF FoldHash
      <3>3. up[h] = HashOf(M, Above(n, h))
        BY <1>3, <3>1, <3>2
      <3> QED
        BY <3>1, <3>3
    <2> HIDE DEF S
    <2>4. 0..HEIGHT \subseteq S
      BY <1>1, <2>2, <2>3, IntervalInduction
    <2> QED
      BY <1>1, <2>4 DEF S
  <1> HIDE DEF up
  <1> QED
    BY <1>6, FoldIs DEF up, leaf

=============================================================================
