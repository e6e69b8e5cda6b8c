-------------------------- MODULE RelayerTreeProofs --------------------------
(***************************************************************************)
(* Proofs about the tree of a relayer, for every height, group size and    *)
(* set of leaf values.                                                     *)
(*                                                                         *)
(* That the stored hashes are those of the leaves is not inductive: what   *)
(* is read of a node that is not stored depends on why it is not.  Nodes   *)
(* may be missing because their leaves are zero notes, because they are    *)
(* beyond the end, because clean_before_index removed them, or because     *)
(* only the hash of their group was given.  The invariant says where       *)
(* nothing of the last two kinds is missing: above every stored leaf       *)
(* (LeavesOpen), above the end (EndOpen), so that whatever is added next   *)
(* finds true siblings; and that what is stored below a node whose leaves  *)
(* are all temporary is temporary as well and without gaps                 *)
(* (TemporaryBelow), so that clean_before_index, which removes the         *)
(* children of such nodes one level at a time, removes all that is below   *)
(* them.  OpenRead is the lemma they all serve: a descent from the root    *)
(* through nodes that are linked to what is read of their children reads   *)
(* the truth.                                                              *)
(***************************************************************************)
EXTENDS RelayerTree, TreeLemmas

\* What a leaf can hold, filled or not.
Values == LeafValues \cup {Default}

\* No hash of such leaves is None.
LEMMA NoneIsNoValue == NoneIsNoHash(Values)
  BY LeafAssumption DEF NoneIsNoHash, Values

\* The temporary leaves counted below nodes.
Counts == UNION {[S -> Nat] : S \in SUBSET Node}

\* The tree values, with the types their fields have.
Forest ==
  [leaves : PartialHashes(Values), temp : Counts, db_next : Nat \cup {None},
   db_first : Nat \cup {None}, stable : Nat, clean : Nat, next : Nat,
   first : Nat \cup {None}]

\* A stored node has the hash of what is read of its children.
Linked(t, m) == t.leaves[m] = poseidon(get(t, LeftChild(m)), get(t, RightChild(m)))

\* The stored nodes above n do: what is below them has not been cleaned away and is not
\* known by its hash only.
OpenIn(t, n) == \A m \in Ancestors(n) : m \in DOMAIN t.leaves => Linked(t, m)

\* All leaves of a node are temporary.
FullIn(t, n) == n \in DOMAIN t.temp /\ t.temp[n] = Width[n[1]]

\* The types of a tree; a temporary count belongs to a stored node and is never more
\* than its leaves.
Typed(t) ==
  /\ t \in Forest
  /\ \A n \in DOMAIN t.leaves : t.leaves[n] \in Rows(Width[n[1]], Values)
  /\ DOMAIN t.temp \subseteq DOMAIN t.leaves
  /\ \A n \in DOMAIN t.temp : t.temp[n] \in 1..Width[n[1]]
  /\ Whole(t.next) /\ t.next <= Capacity
  /\ t.first \in {0, None} /\ (t.first = None => t.next = 0)

\* The stored hashes, the end and the root are those of the leaves L.
HoldsRoot(t, L) ==
  /\ L \in Vectors(Values) /\ FilledTo(L, t.next) /\ StoredTrue(t, L)
  /\ get_root(t) = HashOf(L, Root)

\* Above a stored leaf nothing is missing.
LeavesOpen(t) == \A n \in DOMAIN t.leaves : n[1] = 0 => OpenIn(t, n)

\* Nor is it across the end.
EndOpen(t) ==
  \A m \in DOMAIN t.leaves : LeftEdge(m) < t.next /\ t.next < RightEdge(m) => Linked(t, m)

\* Below a node whose leaves are all temporary a stored node has only such leaves as
\* well, and its parent is stored.
TemporaryBelow(t) ==
  \A m \in DOMAIN t.temp : FullIn(t, m) =>
     /\ RightEdge(m) <= t.next
     /\ \A n \in DOMAIN t.leaves : m \in Ancestors(n) =>
           FullIn(t, n) /\ Above(n, n[1] + 1) \in DOMAIN t.leaves

\* What holds of a tree that may be used.
Usable(t, L) == HoldsRoot(t, L) /\ LeavesOpen(t) /\ EndOpen(t) /\ TemporaryBelow(t)

\* The inductive invariant.
IInv ==
  /\ Typed(tree) /\ ledger \in Vectors(Values) /\ intact \in BOOLEAN
  /\ intact => Usable(tree, ledger)

-----------------------------------------------------------------------------
\* What is read of a node is a hash of as many leaves as it has.
LEMMA GetTyped ==
  ASSUME NEW t, Typed(t), NEW n \in Node
  PROVE  get(t, n) \in Rows(Width[n[1]], Values)
  <1>1. n[1] \in 0..HEIGHT
    BY NodeIs
  <1>2. /\ zero_note_hashes[n[1]] \in Rows(Width[n[1]], Values)
        /\ default_hashes[n[1]] \in Rows(Width[n[1]], Values)
    BY <1>1 DEF zero_note_hashes, default_hashes, Rows, Values, LeafValues
  <1> QED
    BY <1>2 DEF get, Typed

\* Two concatenations that are equal are of equal halves.
LEMMA HalvesEqual ==
  ASSUME NEW w \in Nat, NEW f \in Rows(w, Values), NEW g \in Rows(w, Values),
         NEW f1 \in Rows(w, Values), NEW g1 \in Rows(w, Values), poseidon(f, g) = poseidon(f1, g1)
  PROVE  f = f1 /\ g = g1
  <1>1. Joined(w, f, g) = Joined(w, f1, g1)
    BY ConcatHalves DEF poseidon
  <1>2. \A k \in 1..w : k \in 1..(2 * w) /\ w + k \in 1..(2 * w) /\ k <= w /\ ~ (w + k <= w) /\ (w + k) - w = k
    OBVIOUS
  <1>3. \A k \in 1..(2 * w) : Joined(w, f, g)[k] = (IF k <= w THEN f[k] ELSE g[k - w])
    BY DEF Joined
  <1>4. \A k \in 1..(2 * w) : Joined(w, f1, g1)[k] = (IF k <= w THEN f1[k] ELSE g1[k - w])
    BY DEF Joined
  <1>5. ASSUME NEW k \in 1..w PROVE f[k] = f1[k] /\ g[k] = g1[k]
    <2>1. Joined(w, f, g)[k] = f[k] /\ Joined(w, f1, g1)[k] = f1[k]
      BY <1>2, <1>3, <1>4
    <2>2. Joined(w, f, g)[w + k] = g[k] /\ Joined(w, f1, g1)[w + k] = g1[k]
      BY <1>2, <1>3, <1>4
    <2> QED
      BY <1>1, <2>1, <2>2
  <1>6. /\ f = [k \in 1..w |-> f[k]] /\ f1 = [k \in 1..w |-> f1[k]]
        /\ g = [k \in 1..w |-> g[k]] /\ g1 = [k \in 1..w |-> g1[k]]
    BY DEF Rows
  <1> QED
    BY <1>5, <1>6, Zenon

\* The children of a node that is read truly are read truly, if the node is not stored
\* or linked to them.
LEMMA ReadChildren ==
  ASSUME NEW t, Typed(t), NEW L, HoldsRoot(t, L),
         NEW p \in Node, p[1] > 0, get(t, p) = HashOf(L, p), p \in DOMAIN t.leaves => Linked(t, p),
         NEW c \in {LeftChild(p), RightChild(p)}
  PROVE  get(t, c) = HashOf(L, c)
  <1> DEFINE l == LeftChild(p)
             r == RightChild(p)
  <1>1. /\ l \in Node /\ r \in Node /\ l[1] = p[1] - 1 /\ r[1] = p[1] - 1
        /\ LeftEdge(l) = LeftEdge(p) /\ RightEdge(r) = RightEdge(p)
        /\ RightEdge(l) = LeftEdge(p) + Width[p[1] - 1]
        /\ LeftEdge(r) = LeftEdge(p) + Width[p[1] - 1]
    BY ChildrenAre
  <1>2. /\ L \in Vectors(Values) /\ FilledTo(L, t.next) /\ StoredTrue(t, L)
        /\ t.next \in Nat
    BY DEF HoldsRoot, Typed, Whole
  <1>3. CASE p \in DOMAIN t.leaves
    <2> DEFINE w == Width[p[1] - 1]
    <2>1. poseidon(get(t, l), get(t, r)) = poseidon(HashOf(L, l), HashOf(L, r))
      <3>1. t.leaves[p] = HashOf(L, p)
        BY <1>3 DEF get
      <3>2. poseidon(HashOf(L, l), HashOf(L, r)) = HashOf(L, p)
        BY <1>2, HashOfChildren
      <3> QED
        BY <1>3, <3>1, <3>2 DEF Linked
    <2>2. w \in Nat
      <3>1. p[1] - 1 \in 0..HEIGHT
        BY <1>1, NodeIs
      <3> QED
        BY <3>1, WidthIs
    <2>3. get(t, l) \in Rows(w, Values) /\ get(t, r) \in Rows(w, Values)
      BY <1>1, GetTyped
    <2>4. HashOf(L, l) \in Rows(w, Values) /\ HashOf(L, r) \in Rows(w, Values)
      BY <1>1, <1>2, HashType DEF Rows
    <2> HIDE DEF l, r, w
    <2>5. get(t, l) = HashOf(L, l) /\ get(t, r) = HashOf(L, r)
      BY <2>1, <2>2, <2>3, <2>4, HalvesEqual
    <2> QED
      BY <2>5 DEF l, r
  <1>4. ASSUME p \notin DOMAIN t.leaves, RightEdge(p) <= t.next PROVE get(t, c) = HashOf(L, c)
    <2>1. HashOf(L, p) = zero_note_hashes[p[1]]
      BY <1>4 DEF get
    <2>2. c \in Node /\ LeftEdge(p) <= LeftEdge(c) /\ RightEdge(c) <= RightEdge(p)
      BY AncestorsOfChild
    <2>3. HashOf(L, c) = zero_note_hashes[c[1]]
      BY <2>1, <2>2, ZeroBelow
    <2>4. c \notin DOMAIN t.leaves
      BY <1>2, <2>3 DEF StoredTrue
    <2>5. RightEdge(c) <= t.next
      BY <1>2, <1>4, <2>2, NodeIs
    <2> QED
      BY <2>3, <2>4, <2>5 DEF get
  <1>5. ASSUME p \notin DOMAIN t.leaves, ~ RightEdge(p) <= t.next PROVE get(t, c) = HashOf(L, c)
    <2>1. HashOf(L, p) = default_hashes[p[1]]
      BY <1>5 DEF get
    <2>2. /\ c \in Node /\ LeftEdge(p) <= LeftEdge(c) /\ LeftEdge(c) \in Nat
          /\ LeftEdge(c) < RightEdge(c) /\ RightEdge(c) \in Nat
      BY AncestorsOfChild, NodeIs
    <2>3. LeftEdge(p) \in Below(p) /\ LeftEdge(p) \in 0..(Capacity - 1)
      BY NodeIs, GroupSizeIs DEF Below
    <2>4. HashOf(L, p) = [k \in 1..Width[p[1]] |-> Default]
      BY <2>1, EmptyHashes
    <2>5. L[LeftEdge(p)] = Default
      BY <2>3, <2>4, LeavesOfEqual
    <2>6. t.next <= LeftEdge(p)
      BY <1>2, <2>3, <2>5 DEF FilledTo
    <2>7. t.next <= LeftEdge(c)
      BY <1>2, <2>2, <2>3, <2>6
    <2>8. c \notin DOMAIN t.leaves
      BY <1>2, <2>2, <2>7 DEF StoredTrue
    <2>9. ~ RightEdge(c) <= t.next
      BY <1>2, <2>2, <2>7
    <2>10. HashOf(L, c) = default_hashes[c[1]]
      BY <1>2, <2>2, <2>7, BeyondEnd
    <2> QED
      BY <2>8, <2>9, <2>10 DEF get
  <1> QED
    BY <1>3, <1>4, <1>5

\* What is read of a node is the hash of its leaves, when the stored nodes above it are
\* linked to their children.
LEMMA OpenRead ==
  ASSUME NEW t, Typed(t), NEW L, HoldsRoot(t, L)
  PROVE  \A n \in Node : OpenIn(t, n) => get(t, n) = HashOf(L, n)
  <1> DEFINE S == {d \in 0..HEIGHT :
                     \A n \in Node : n[1] = HEIGHT - d /\ OpenIn(t, n) => get(t, n) = HashOf(L, n)}
  <1>1. HEIGHT \in Nat
    BY SizesAssumption
  <1>2. 0 \in S
    <2> SUFFICES ASSUME NEW n \in Node, n[1] = HEIGHT PROVE get(t, n) = HashOf(L, n)
      BY <1>1
    <2>1. /\ Root \in Node /\ Root[1] = HEIGHT /\ LeftEdge(Root) = 0 /\ RightEdge(Root) = Capacity
      BY RootIs
    <2>2. n = Root
      BY <2>1, NodeIs, SameLevel
    <2> QED
      BY <2>2 DEF HoldsRoot, get_root
  <1>3. ASSUME NEW d \in 1..HEIGHT, d - 1 \in S PROVE d \in S
    <2> SUFFICES ASSUME NEW n \in Node, n[1] = HEIGHT - d, OpenIn(t, n) PROVE get(t, n) = HashOf(L, n)
      BY <1>1
    <2> DEFINE p == Above(n, n[1] + 1)
    <2>1. n[1] < HEIGHT
      BY <1>1
    <2>2. /\ p \in Node /\ p[1] = n[1] + 1 /\ n \in {LeftChild(p), RightChild(p)}
      BY <2>1, ParentIs
    <2> HIDE DEF p
    <2>3. p[1] > 0 /\ p[1] = HEIGHT - (d - 1)
      BY <1>1, <2>2, NodeIs
    <2>4. Ancestors(n) = {p} \cup Ancestors(p)
      BY <2>2, <2>3, AncestorsOfChild
    <2>5. OpenIn(t, p) /\ (p \in DOMAIN t.leaves => Linked(t, p))
      BY <2>4 DEF OpenIn
    <2>6. get(t, p) = HashOf(L, p)
      BY <1>3, <2>2, <2>3, <2>5
    <2> QED
      BY <2>2, <2>3, <2>5, <2>6, ReadChildren
  <1>4. 0..HEIGHT \subseteq S
    <2> HIDE DEF S
    <2> QED
      BY <1>1, <1>2, <1>3, IntervalInduction
  <1>5. ASSUME NEW n \in Node, OpenIn(t, n) PROVE get(t, n) = HashOf(L, n)
    <2>1. HEIGHT - n[1] \in 0..HEIGHT /\ HEIGHT - (HEIGHT - n[1]) = n[1]
      BY <1>1, NodeIs
    <2>2. HEIGHT - n[1] \in S
      BY <1>4, <2>1
    <2> QED
      BY <1>5, <2>1, <2>2
  <1> QED
    BY <1>5

-----------------------------------------------------------------------------
\* set_batched stores the hashes that are not those of zero notes, and the counts that
\* are not 0.
PutCounts(temp, counts) ==
  [n \in (DOMAIN temp \ DOMAIN counts) \cup {m \in DOMAIN counts : counts[m] > 0} |->
     IF n \in DOMAIN counts THEN counts[n] ELSE temp[n]]

\* The tree that set_batched leaves.
LEMMA SetBatchedIs ==
  ASSUME NEW t \in Forest, NEW hashes \in PartialHashes(Values), NEW counts \in [DOMAIN hashes -> Nat]
  PROVE  LET v == set_batched(t, hashes, counts)
         IN  /\ v \in Forest /\ SameIndexes(t, v) /\ v.clean = t.clean
             /\ v.leaves = PutLeaves(t.leaves, hashes)
             /\ v.temp = PutCounts(t.temp, counts)
  <1> DEFINE new == PutLeaves(t.leaves, hashes)
             keep == (DOMAIN t.leaves \ DOMAIN hashes) \cup Stored(hashes)
             counted == {n \in DOMAIN hashes : counts[n] > 0}
             temp == [n \in (DOMAIN t.temp \ DOMAIN hashes) \cup counted |->
                        IF n \in counted THEN counts[n] ELSE t.temp[n]]
             v == set_batched(t, hashes, counts)
  <1>1. t.leaves \in PartialHashes(Values) /\ t.temp \in Counts
    BY DEF Forest
  <1>2. /\ DOMAIN t.leaves \subseteq Node /\ \A n \in DOMAIN t.leaves : t.leaves[n] \in Seq(Values)
        /\ DOMAIN hashes \subseteq Node /\ \A n \in DOMAIN hashes : hashes[n] \in Seq(Values)
    BY <1>1, PartialIs
  <1>3. new \in [keep -> Seq(Values)] /\ keep \in SUBSET Node
    BY <1>2 DEF PutLeaves, Stored
  <1>4. new \in PartialHashes(Values)
    BY <1>3, PartialMake
  <1>5. DOMAIN t.temp \subseteq Node /\ \A n \in DOMAIN t.temp : t.temp[n] \in Nat
    BY <1>1 DEF Counts
  <1>6. DOMAIN counts = DOMAIN hashes
    OBVIOUS
  <1>7. temp = PutCounts(t.temp, counts)
    BY <1>6 DEF PutCounts
  <1>8. temp \in [(DOMAIN t.temp \ DOMAIN hashes) \cup counted -> Nat]
    BY <1>5
  <1>9. (DOMAIN t.temp \ DOMAIN hashes) \cup counted \in SUBSET Node
    BY <1>2, <1>5
  <1>10. temp \in Counts
    BY <1>8, <1>9 DEF Counts
  <1>11. v = [t EXCEPT !.leaves = new, !.temp = temp]
    BY DEF set_batched, PutLeaves, Stored
  <1> HIDE DEF new, temp, v
  <1>12. v \in Forest /\ SameIndexes(t, v) /\ v.clean = t.clean /\ v.leaves = new /\ v.temp = temp
    BY <1>4, <1>10, <1>11 DEF Forest, SameIndexes
  <1> QED
    BY <1>7, <1>12 DEF new, v

\* remove_batched forgets hashes and counts.
LEMMA RemovedIs ==
  ASSUME NEW t \in Forest, NEW gone
  PROVE  LET v == remove_batched(t, gone)
         IN  /\ v \in Forest /\ SameIndexes(t, v) /\ v.clean = t.clean
             /\ DOMAIN v.leaves = DOMAIN t.leaves \ gone
             /\ \A n \in DOMAIN v.leaves : v.leaves[n] = t.leaves[n]
             /\ DOMAIN v.temp = DOMAIN t.temp \ gone
             /\ \A n \in DOMAIN v.temp : v.temp[n] = t.temp[n]
  <1> DEFINE left == Restrict(t.leaves, DOMAIN t.leaves \ gone)
             counted == Restrict(t.temp, DOMAIN t.temp \ gone)
             v == remove_batched(t, gone)
  <1>1. t.leaves \in PartialHashes(Values) /\ t.temp \in Counts
    BY DEF Forest
  <1>2. /\ DOMAIN t.leaves \subseteq Node /\ \A n \in DOMAIN t.leaves : t.leaves[n] \in Seq(Values)
    BY <1>1, PartialIs
  <1>3. DOMAIN t.temp \subseteq Node /\ \A n \in DOMAIN t.temp : t.temp[n] \in Nat
    BY <1>1 DEF Counts
  <1>4. /\ left = [n \in DOMAIN t.leaves \ gone |-> t.leaves[n]]
        /\ counted = [n \in DOMAIN t.temp \ gone |-> t.temp[n]]
    BY DEF Restrict
  <1>5. left \in [DOMAIN t.leaves \ gone -> Seq(Values)] /\ DOMAIN t.leaves \ gone \in SUBSET Node
    BY <1>2, <1>4
  <1>6. left \in PartialHashes(Values)
    BY <1>5, PartialMake
  <1>7. counted \in [DOMAIN t.temp \ gone -> Nat] /\ DOMAIN t.temp \ gone \in SUBSET Node
    BY <1>3, <1>4
  <1>8. counted \in Counts
    BY <1>7 DEF Counts
  <1>9. v = [t EXCEPT !.leaves = left, !.temp = counted]
    BY DEF remove_batched
  <1> HIDE DEF left, counted, v
  <1>10. v \in Forest /\ SameIndexes(t, v) /\ v.clean = t.clean /\ v.leaves = left /\ v.temp = counted
    BY <1>6, <1>8, <1>9 DEF Forest, SameIndexes
  <1> QED
    BY <1>4, <1>10 DEF v

-----------------------------------------------------------------------------
\* Two nodes that have no leaf in common.
Apart(m, n) == RightEdge(m) <= LeftEdge(n) \/ RightEdge(n) <= LeftEdge(m)

\* Two nodes are apart unless one is the other or above it.
LEMMA PathOrApart ==
  ASSUME NEW m \in Node, NEW n \in Node
  PROVE  m = n \/ m \in Ancestors(n) \/ n \in Ancestors(m) \/ Apart(m, n)
  <1> SUFFICES ASSUME ~ Apart(m, n) PROVE m = n \/ m \in Ancestors(n) \/ n \in Ancestors(m)
    OBVIOUS
  <1>1. /\ LeftEdge(m) \in Nat /\ RightEdge(m) \in Nat /\ LeftEdge(n) \in Nat /\ RightEdge(n) \in Nat
        /\ m[1] \in Nat /\ n[1] \in Nat
    BY NodeIs
  <1>2. LeftEdge(m) < RightEdge(n) /\ LeftEdge(n) < RightEdge(m)
    BY <1>1 DEF Apart
  <1>3. CASE m[1] = n[1]
    BY <1>2, <1>3, SameLevel
  <1>4. CASE n[1] < m[1]
    <2>1. LeftEdge(m) <= LeftEdge(n) /\ RightEdge(n) <= RightEdge(m)
      BY <1>1, <1>2, <1>4, AboveUnique
    <2> QED
      BY <1>4, <2>1, AncestorsAre
  <1>5. CASE m[1] < n[1]
    <2>1. LeftEdge(n) <= LeftEdge(m) /\ RightEdge(m) <= RightEdge(n)
      BY <1>1, <1>2, <1>5, AboveUnique
    <2> QED
      BY <1>5, <2>1, AncestorsAre
  <1> QED
    BY <1>1, <1>3, <1>4, <1>5

\* A node across an edge of a group has the group.
LEMMA AcrossGroup ==
  ASSUME NEW m \in Node, NEW s, Whole(s), s + GroupSize <= Capacity,
         NEW e \in {s, s + GroupSize}, LeftEdge(m) < e, e < RightEdge(m)
  PROVE  LeftEdge(m) <= s /\ s + GroupSize <= RightEdge(m) /\ OUTPLUSONELOG < m[1]
  <1>1. /\ s \in Nat /\ GroupSize \in Nat /\ GroupSize >= 1 /\ OUTPLUSONELOG \in Nat
        /\ LeftEdge(m) \in Nat /\ RightEdge(m) \in Nat /\ m[1] \in Nat
    BY NodeIs, GroupSizeIs DEF Whole
  <1>2. Whole(e)
    <2>1. calc_next_index(s) = s + GroupSize
      BY <1>1, GroupUnique
    <2> QED
      BY <1>1, <2>1, GroupOf
  <1>3. OUTPLUSONELOG < m[1]
    <2>1. e \in Nat
      BY <1>1
    <2>2. ~ m[1] <= OUTPLUSONELOG
      BY <1>1, <1>2, <2>1, BoundaryOutside
    <2> QED
      BY <1>1, <2>2
  <1> DEFINE g == Above(<<0, s>>, OUTPLUSONELOG)
  <1>4. /\ g \in Node /\ g[1] = OUTPLUSONELOG
        /\ LeftEdge(g) = s /\ RightEdge(g) = s + GroupSize
    BY GroupNode
  <1> HIDE DEF g
  <1>5. g[1] <= m[1] /\ LeftEdge(m) < RightEdge(g) /\ LeftEdge(g) < RightEdge(m)
    BY <1>1, <1>3, <1>4
  <1>6. LeftEdge(m) <= LeftEdge(g) /\ RightEdge(g) <= RightEdge(m)
    BY <1>4, <1>5, AboveUnique
  <1> QED
    BY <1>3, <1>4, <1>6

-----------------------------------------------------------------------------
\* The node n, a group at most, gets a hash in place of leaves that are not set, in a
\* group that starts within the tree or at its end; what is new of it is padded. So
\* the leaves L become M.
Placed(t, L, n, s, M) ==
  /\ n \in Node /\ n[1] <= OUTPLUSONELOG
  /\ Whole(s) /\ s + GroupSize <= Capacity /\ s <= t.next
  /\ s <= LeftEdge(n) /\ RightEdge(n) <= s + GroupSize
  /\ M \in Vectors(Values)
  /\ \A i \in 0..(Capacity - 1) :
        i < LeftEdge(n) \/ RightEdge(n) <= i =>
          M[i] = IF t.next <= i /\ i < s + GroupSize THEN ZeroNote ELSE L[i]
  /\ \A i \in Below(n) : M[i] # Default
  /\ HashOf(L, n) \in {default_hashes[n[1]], zero_note_hashes[n[1]]}

\* The tree with its end moved, before the hashes are written.
EndedBehind(t, u, s) ==
  /\ u.leaves = t.leaves /\ u.temp = t.temp
  /\ u.next = IF s + GroupSize >= t.next THEN s + GroupSize ELSE t.next

\* The new leaves are filled to the new end, which is the old one or that of the group
\* behind it.
LEMMA PlacedFilled ==
  ASSUME NEW t, Typed(t), NEW L, HoldsRoot(t, L), NEW n, NEW s, NEW M, Placed(t, L, n, s, M),
         NEW u, EndedBehind(t, u, s)
  PROVE  /\ FilledTo(M, u.next) /\ Whole(u.next) /\ u.next <= Capacity /\ t.next <= u.next
         /\ s + GroupSize <= u.next
         /\ u.next # t.next => t.next = s /\ u.next = s + GroupSize
  <1>1. /\ s \in Nat /\ GroupSize \in Nat /\ GroupSize >= 1 /\ t.next \in Nat /\ Capacity \in Nat
        /\ Whole(s) /\ Whole(t.next) /\ t.next <= Capacity /\ s + GroupSize <= Capacity /\ s <= t.next
    BY GroupSizeIs DEF Placed, Typed, Whole
  <1>2. /\ n \in Node /\ LeftEdge(n) \in Nat /\ RightEdge(n) \in Nat
        /\ s <= LeftEdge(n) /\ RightEdge(n) <= s + GroupSize
    BY NodeIs DEF Placed
  <1>3. u.next = IF s + GroupSize >= t.next THEN s + GroupSize ELSE t.next
    BY DEF EndedBehind
  <1>4. Whole(s + GroupSize)
    <2>1. calc_next_index(s) = s + GroupSize
      BY <1>1, GroupUnique
    <2> QED
      BY <1>1, <2>1, GroupOf
  <1>5. ASSUME u.next # t.next PROVE t.next = s /\ u.next = s + GroupSize
    <2>1. u.next = s + GroupSize /\ t.next < s + GroupSize
      BY <1>1, <1>3, <1>5
    <2>2. ~ s < t.next
      BY <1>1, <2>1, NextWhole
    <2> QED
      BY <1>1, <2>1, <2>2
  <1>6. ASSUME NEW i \in 0..(Capacity - 1) PROVE M[i] = Default <=> u.next <= i
    <2>1. L[i] = Default <=> t.next <= i
      BY DEF HoldsRoot, FilledTo
    <2>2. CASE i < LeftEdge(n) \/ RightEdge(n) <= i
      <3>1. M[i] = IF t.next <= i /\ i < s + GroupSize THEN ZeroNote ELSE L[i]
        BY <2>2 DEF Placed
      <3>2. ZeroNote # Default
        BY SentinelsAssumption
      <3> QED
        BY <1>1, <1>3, <2>1, <3>1, <3>2
    <2>3. CASE LeftEdge(n) <= i /\ i < RightEdge(n)
      <3>1. M[i] # Default
        BY <2>3 DEF Placed, Below
      <3> QED
        BY <1>1, <1>2, <1>3, <2>3, <3>1
    <2> QED
      BY <1>2, <2>2, <2>3
  <1> QED
    BY <1>1, <1>3, <1>4, <1>5, <1>6 DEF FilledTo

\* A node that is stored and not above the place is apart from it, and all its leaves
\* remain as they are.
LEMMA StoredApart ==
  ASSUME NEW t, Typed(t), NEW L, HoldsRoot(t, L), NEW n, NEW s, NEW M, Placed(t, L, n, s, M),
         NEW u, EndedBehind(t, u, s), NEW m \in DOMAIN t.leaves, m \notin Ancestors(n)
  PROVE  /\ m \in Node /\ Apart(m, n) /\ HashOf(M, m) = HashOf(L, m) /\ m # n
         /\ RightEdge(m) <= t.next \/ u.next = t.next
  <1>1. /\ s \in Nat /\ GroupSize \in Nat /\ GroupSize >= 1 /\ t.next \in Nat
        /\ Whole(s) /\ s + GroupSize <= Capacity /\ s <= t.next
    BY GroupSizeIs DEF Placed, Typed, Whole
  <1>2. /\ n \in Node /\ LeftEdge(n) \in Nat /\ RightEdge(n) \in Nat /\ LeftEdge(n) < RightEdge(n)
        /\ s <= LeftEdge(n) /\ RightEdge(n) <= s + GroupSize
    BY NodeIs DEF Placed
  <1>3. m \in Node
    BY PartialIs DEF Typed, Forest
  <1>4. /\ t.leaves[m] = HashOf(L, m) /\ LeftEdge(m) < t.next /\ t.leaves[m] # zero_note_hashes[m[1]]
        /\ FilledTo(L, t.next)
    BY DEF HoldsRoot, StoredTrue
  <1>5. /\ LeftEdge(m) \in Nat /\ RightEdge(m) \in Nat /\ LeftEdge(m) < RightEdge(m)
        /\ RightEdge(m) <= Capacity
    BY <1>3, NodeIs
  <1>6. m # n /\ n \notin Ancestors(m)
    <2> SUFFICES ASSUME m = n \/ n \in Ancestors(m) PROVE FALSE
      OBVIOUS
    <2>1. LeftEdge(n) <= LeftEdge(m) /\ RightEdge(m) <= RightEdge(n)
      BY <1>2, <1>3, AboveHas
    <2>2. CASE HashOf(L, n) = zero_note_hashes[n[1]]
      BY <1>2, <1>3, <1>4, <2>1, <2>2, ZeroBelow
    <2>3. CASE HashOf(L, n) = default_hashes[n[1]]
      <3>1. HashOf(L, n) = [k \in 1..Width[n[1]] |-> Default]
        BY <1>2, <2>3, EmptyHashes
      <3>2. LeftEdge(m) \in Below(n) /\ LeftEdge(m) \in 0..(Capacity - 1)
        BY <1>2, <1>5, <2>1, GroupSizeIs DEF Below
      <3>3. L[LeftEdge(m)] = Default
        BY <1>2, <3>1, <3>2, LeavesOfEqual
      <3> QED
        BY <1>1, <1>4, <1>5, <3>2, <3>3 DEF FilledTo
    <2> QED
      BY <2>2, <2>3 DEF Placed
  <1>7. Apart(m, n)
    BY <1>2, <1>3, <1>6, PathOrApart
  <1>8. RightEdge(m) <= t.next \/ ~ t.next < s + GroupSize
    <2> SUFFICES ASSUME t.next < RightEdge(m), t.next < s + GroupSize PROVE FALSE
      BY <1>1, <1>5
    <2>1. t.next = s
      <3>1. ~ s < t.next
        BY <1>1, NextWhole DEF Typed
      <3> QED
        BY <1>1, <3>1
    <2>2. LeftEdge(m) <= s /\ s + GroupSize <= RightEdge(m)
      <3>1. LeftEdge(m) < s /\ s < RightEdge(m)
        BY <1>4, <2>1
      <3> QED
        BY <1>1, <1>3, <3>1, AcrossGroup
    <2> QED
      BY <1>1, <1>2, <1>5, <1>7, <2>2 DEF Apart
  <1>9. ASSUME NEW i \in Below(m) PROVE M[i] = L[i]
    <2>1. i \in 0..(Capacity - 1) /\ LeftEdge(m) <= i /\ i < RightEdge(m)
      BY <1>3, BelowIs DEF Below
    <2>2. i < LeftEdge(n) \/ RightEdge(n) <= i
      BY <1>2, <1>5, <1>7, <2>1 DEF Apart
    <2>3. M[i] = IF t.next <= i /\ i < s + GroupSize THEN ZeroNote ELSE L[i]
      BY <2>1, <2>2 DEF Placed
    <2>4. ~ (t.next <= i /\ i < s + GroupSize)
      BY <1>1, <1>5, <1>8, <2>1
    <2> QED
      BY <2>3, <2>4
  <1>10. HashOf(M, m) = HashOf(L, m)
    BY <1>3, <1>9, SameLeaves
  <1>11. RightEdge(m) <= t.next \/ u.next = t.next
    BY <1>1, <1>5, <1>8 DEF EndedBehind
  <1> QED
    BY <1>3, <1>6, <1>7, <1>10, <1>11

\* A node apart from the place that was read truly is so when the end has moved.
LEMMA ReadApart ==
  ASSUME NEW t, Typed(t), NEW L, HoldsRoot(t, L), NEW n, NEW s, NEW M, Placed(t, L, n, s, M),
         NEW u, EndedBehind(t, u, s), NEW m \in Node, Apart(m, n), get(t, m) = HashOf(L, m)
  PROVE  get(u, m) = HashOf(M, m)
  <1>1. /\ s \in Nat /\ GroupSize \in Nat /\ GroupSize >= 1 /\ t.next \in Nat
        /\ Whole(s) /\ s + GroupSize <= Capacity /\ s <= t.next
    BY GroupSizeIs DEF Placed, Typed, Whole
  <1>2. /\ n \in Node /\ LeftEdge(n) \in Nat /\ RightEdge(n) \in Nat /\ LeftEdge(n) < RightEdge(n)
        /\ s <= LeftEdge(n) /\ RightEdge(n) <= s + GroupSize /\ n[1] <= OUTPLUSONELOG
    BY NodeIs DEF Placed
  <1>3. /\ LeftEdge(m) \in Nat /\ RightEdge(m) \in Nat /\ LeftEdge(m) < RightEdge(m)
        /\ RightEdge(m) <= Capacity
    BY NodeIs
  <1>4. /\ u.leaves = t.leaves /\ u.next = IF s + GroupSize >= t.next THEN s + GroupSize ELSE t.next
    BY DEF EndedBehind
  <1>5. /\ FilledTo(M, u.next) /\ Whole(u.next) /\ t.next <= u.next /\ u.next \in Nat
        /\ u.next # t.next => t.next = s /\ u.next = s + GroupSize
    BY PlacedFilled DEF Whole
  <1>6. ASSUME NEW i \in Below(m)
        PROVE  M[i] = IF t.next <= i /\ i < s + GroupSize THEN ZeroNote ELSE L[i]
    <2>1. i \in 0..(Capacity - 1) /\ LeftEdge(m) <= i /\ i < RightEdge(m)
      BY BelowIs DEF Below
    <2>2. i < LeftEdge(n) \/ RightEdge(n) <= i
      BY <1>2, <1>3, <2>1 DEF Apart
    <2> QED
      BY <2>1, <2>2 DEF Placed
  <1>7. CASE m \in DOMAIN t.leaves
    <2>1. m \notin Ancestors(n)
      <3>1. ASSUME m \in Ancestors(n) PROVE LeftEdge(m) <= LeftEdge(n) /\ RightEdge(n) <= RightEdge(m)
        BY <1>2, <3>1, AboveHas
      <3> QED
        BY <1>2, <1>3, <3>1 DEF Apart
    <2>2. HashOf(M, m) = HashOf(L, m)
      BY <1>7, <2>1, StoredApart
    <2>3. get(u, m) = get(t, m)
      BY <1>4, <1>7 DEF get
    <2> QED
      BY <2>2, <2>3
  <1>8. CASE m \notin DOMAIN t.leaves /\ RightEdge(m) <= t.next
    <2>1. \A i \in Below(m) : M[i] = L[i]
      <3> SUFFICES ASSUME NEW i \in Below(m) PROVE M[i] = L[i]
        OBVIOUS
      <3>1. i < t.next /\ i \in Nat
        BY <1>1, <1>3, <1>8 DEF Below
      <3> QED
        BY <1>1, <1>6, <3>1
    <2>2. HashOf(M, m) = HashOf(L, m)
      BY <2>1, SameLeaves
    <2>3. get(u, m) = get(t, m)
      <3>1. RightEdge(m) <= u.next
        BY <1>1, <1>3, <1>5, <1>8
      <3> QED
        BY <1>4, <1>8, <3>1 DEF get
    <2> QED
      BY <2>2, <2>3
  <1>9. CASE m \notin DOMAIN t.leaves /\ ~ RightEdge(m) <= t.next
    <2>1. HashOf(L, m) = default_hashes[m[1]]
      BY <1>9 DEF get
    <2>2. t.next <= LeftEdge(m)
      <3>1. HashOf(L, m) = [k \in 1..Width[m[1]] |-> Default]
        BY <2>1, EmptyHashes
      <3>2. LeftEdge(m) \in Below(m) /\ LeftEdge(m) \in 0..(Capacity - 1)
        BY <1>3, GroupSizeIs DEF Below
      <3>3. L[LeftEdge(m)] = Default
        BY <3>1, <3>2, LeavesOfEqual
      <3> QED
        BY <3>2, <3>3 DEF HoldsRoot, FilledTo
    <2>3. CASE RightEdge(m) <= u.next
      <3>1. u.next = s + GroupSize
        BY <1>1, <1>3, <1>5, <1>9, <2>3
      <3>2. \A i \in Below(m) : M[i] = ZeroNote
        <4> SUFFICES ASSUME NEW i \in Below(m) PROVE M[i] = ZeroNote
          OBVIOUS
        <4>1. t.next <= i /\ i < s + GroupSize
          BY <1>1, <1>3, <2>2, <2>3, <3>1 DEF Below
        <4> QED
          BY <1>6, <4>1
      <3>3. HashOf(M, m) = zero_note_hashes[m[1]]
        <4>1. HashOf(M, m) = [k \in 1..Width[m[1]] |-> ZeroNote]
          BY <3>2, EqualLeaves
        <4> QED
          BY <4>1, EmptyHashes
      <3> QED
        BY <1>4, <1>9, <2>3, <3>3 DEF get
    <2>4. CASE ~ RightEdge(m) <= u.next
      <3>1. u.next <= LeftEdge(m)
        <4> SUFFICES ASSUME LeftEdge(m) < u.next PROVE FALSE
          BY <1>3, <1>5
        <4>1. u.next # t.next
          BY <1>1, <1>3, <1>5, <2>2
        <4>2. u.next = s + GroupSize /\ u.next < RightEdge(m)
          BY <1>3, <1>5, <2>4, <4>1
        <4>3. LeftEdge(m) <= s /\ s + GroupSize <= RightEdge(m)
          BY <1>1, <4>2, AcrossGroup
        <4> QED
          BY <1>1, <1>2, <1>3, <4>3 DEF Apart
      <3>2. HashOf(M, m) = default_hashes[m[1]]
        BY <1>5, <3>1, BeyondEnd
      <3> QED
        BY <1>4, <1>9, <2>4, <3>2 DEF get
    <2> QED
      BY <2>3, <2>4
  <1> QED
    BY <1>7, <1>8, <1>9

-----------------------------------------------------------------------------
\* A node and those above it.
Path(n) == {n} \cup Ancestors(n)

\* A node of the path is above the first one, or is it.
LEMMA PathIs ==
  ASSUME NEW n \in Node, NEW m \in Path(n)
  PROVE  /\ m \in Node /\ m[1] \in n[1]..HEIGHT /\ m = Above(n, m[1])
         /\ LeftEdge(m) <= LeftEdge(n) /\ RightEdge(n) <= RightEdge(m)
         /\ Ancestors(m) \subseteq Ancestors(n)
  <1>1. /\ m \in Node /\ n[1] <= m[1] /\ LeftEdge(m) <= LeftEdge(n) /\ RightEdge(n) <= RightEdge(m)
    BY AncestorsAre, NodeIs DEF Path
  <1>2. LeftEdge(m) < RightEdge(n) /\ LeftEdge(n) < RightEdge(m)
    BY <1>1, NodeIs
  <1>3. m = Above(n, m[1])
    BY <1>1, <1>2, AboveUnique
  <1>4. m[1] \in n[1]..HEIGHT
    BY <1>1, NodeIs
  <1>5. Ancestors(m) \subseteq Ancestors(n)
    BY AboveTransitive DEF Path
  <1> QED
    BY <1>1, <1>3, <1>4, <1>5

\* Every height above a node has one on its path.
LEMMA PathHas ==
  ASSUME NEW n \in Node, NEW h \in n[1]..HEIGHT
  PROVE  Above(n, h) \in Path(n) /\ Above(n, h)[1] = h /\ Above(n, n[1]) = n
  <1>1. n[1] \in 0..HEIGHT /\ HEIGHT \in Nat
    BY NodeIs, SizesAssumption
  <1>2. Above(n, n[1]) = n
    BY <1>1, NodeIs, AboveUnique
  <1>3. /\ Above(n, h) \in Node /\ Above(n, h)[1] = h
        /\ LeftEdge(Above(n, h)) <= LeftEdge(n) /\ RightEdge(n) <= RightEdge(Above(n, h))
    BY AboveIs
  <1>4. CASE h = n[1]
    BY <1>2, <1>3, <1>4 DEF Path
  <1>5. CASE h # n[1]
    <2>1. Above(n, h) \in Ancestors(n)
      BY <1>1, <1>3, <1>5, AncestorsAre
    <2> QED
      BY <1>2, <1>3, <2>1 DEF Path
  <1> QED
    BY <1>4, <1>5

\* The node beside the path at a height is the other child of the next node of it.
LEMMA Beside ==
  ASSUME NEW n \in Node, NEW h \in n[1]..(HEIGHT - 1)
  PROVE  LET a == Above(n, h)
             b == Sibling(a)
             p == Above(n, h + 1)
         IN  /\ b \in Node /\ b[1] = h /\ Apart(b, n) /\ b \notin Path(n)
             /\ Ancestors(b) \subseteq Ancestors(n) /\ p \in Ancestors(n) /\ p[1] = h + 1
             /\ a \in Path(n) /\ Ancestors(a) = {p} \cup Ancestors(p)
             /\ Ancestors(b) = {p} \cup Ancestors(p)
             /\ {LeftChild(p), RightChild(p)} = {a, b}
  <1> DEFINE a == Above(n, h)
             b == Sibling(a)
             p == Above(n, h + 1)
             q == Above(a, a[1] + 1)
  <1>1. n[1] \in 0..HEIGHT /\ n[1] \in Nat /\ HEIGHT \in Nat /\ h \in n[1]..HEIGHT /\ h < HEIGHT /\ h \in Nat
    BY NodeIs, SizesAssumption
  <1>2. /\ a \in Node /\ a[1] = h /\ a \in Path(n)
        /\ LeftEdge(a) <= LeftEdge(n) /\ RightEdge(n) <= RightEdge(a)
        /\ Ancestors(a) \subseteq Ancestors(n)
    <2>1. a \in Path(n) /\ a[1] = h
      BY <1>1, PathHas
    <2> HIDE DEF a
    <2> QED
      BY <2>1, PathIs
  <1> HIDE DEF a
  <1>3. /\ q \in Node /\ q[1] = h + 1
        /\ \/ a = LeftChild(q) /\ b = RightChild(q)
           \/ a = RightChild(q) /\ b = LeftChild(q)
    BY <1>1, <1>2, ParentIs
  <1> HIDE DEF q
  <1>4. q[1] > 0
    BY <1>1, <1>3
  <1>5. /\ LeftChild(q) \in Node /\ RightChild(q) \in Node
        /\ LeftChild(q)[1] = q[1] - 1 /\ RightChild(q)[1] = q[1] - 1
        /\ RightEdge(LeftChild(q)) = LeftEdge(q) + Width[q[1] - 1]
        /\ LeftEdge(RightChild(q)) = LeftEdge(q) + Width[q[1] - 1]
        /\ LeftEdge(LeftChild(q)) = LeftEdge(q) /\ RightEdge(RightChild(q)) = RightEdge(q)
    BY <1>3, <1>4, ChildrenAre
  <1>6. b \in Node /\ b[1] = h /\ Apart(b, a)
    <2>1. b \in Node /\ b[1] = h
      BY <1>1, <1>3, <1>5
    <2>2. RightEdge(LeftChild(q)) <= LeftEdge(RightChild(q))
      <3>1. RightEdge(LeftChild(q)) = LeftEdge(RightChild(q)) /\ LeftEdge(RightChild(q)) \in Nat
        BY <1>5, NodeIs
      <3> QED
        BY <3>1
    <2>3. Apart(LeftChild(q), RightChild(q)) /\ Apart(RightChild(q), LeftChild(q))
      BY <2>2 DEF Apart
    <2> QED
      BY <1>3, <2>1, <2>3
  <1>7. Ancestors(a) = {q} \cup Ancestors(q) /\ Ancestors(b) = {q} \cup Ancestors(q)
    BY <1>3, <1>4, AncestorsOfChild
  <1> HIDE DEF b
  <1>8. /\ LeftEdge(a) \in Nat /\ RightEdge(a) \in Nat /\ LeftEdge(b) \in Nat /\ RightEdge(b) \in Nat
        /\ LeftEdge(n) \in Nat /\ RightEdge(n) \in Nat /\ LeftEdge(n) < RightEdge(n)
    BY <1>2, <1>6, NodeIs
  <1>9. Apart(b, n)
    BY <1>2, <1>6, <1>8 DEF Apart
  <1>10. b \notin Path(n)
    <2> SUFFICES ASSUME b \in Path(n) PROVE FALSE
      OBVIOUS
    <2>1. LeftEdge(b) <= LeftEdge(n) /\ RightEdge(n) <= RightEdge(b)
      BY PathIs
    <2> QED
      BY <1>8, <1>9, <2>1 DEF Apart
  <1>11. q \in Ancestors(n)
    BY <1>2, <1>7
  <1>12. q = p
    <2>1. q \in Path(n)
      BY <1>11 DEF Path
    <2> QED
      BY <1>3, <2>1, PathIs
  <1>13. {LeftChild(p), RightChild(p)} = {a, b}
    BY <1>3, <1>12
  <1> HIDE DEF p
  <1>14. Ancestors(b) \subseteq Ancestors(n)
    BY <1>2, <1>7
  <1> QED
    BY <1>2, <1>3, <1>6, <1>7, <1>9, <1>10, <1>11, <1>12, <1>13, <1>14 DEF a, b, p

\* The child of a node on the path is on the path only when the node is above the first.
LEMMA PathAbove ==
  ASSUME NEW n \in Node, NEW m \in Node, m[1] > 0, NEW c \in {LeftChild(m), RightChild(m)}, c \in Path(n)
  PROVE  m \in Ancestors(n)
  <1>1. m \in Ancestors(c)
    BY AncestorsOfChild
  <1> QED
    BY <1>1, PathIs

-----------------------------------------------------------------------------
\* update_path_batched: the temporary leaves below the nodes of the path, from those
\* beside it; low is 1 for a temporary leaf.
Lowest(temporary) == IF temporary THEN 1 ELSE 0

ClimbCount(u, n, low, count) ==
  [h \in n[1]..HEIGHT |->
     IF h = n[1] THEN low
     ELSE count[h - 1] + temporary_count(u, Sibling(Above(n, h - 1)))]

\* The counts that add_hash_at_height computes.
Counted(u, n, low) == CHOOSE count : count = ClimbCount(u, n, low, count)

\* What is written for the nodes on the path.
PathHashes(u, n, hash) == [m \in Path(n) |-> Climbed(u, n, hash)[m[1]]]
PathCounts(u, n, low) == [m \in Path(n) |-> Counted(u, n, low)[m[1]]]

\* The counts are sums, each no more than the leaves of its node.
LEMMA CountIs ==
  ASSUME NEW n \in Node, NEW u, \A m \in Node : temporary_count(u, m) \in 0..Width[m[1]],
         NEW low \in 0..1
  PROVE  /\ Counted(u, n, low)[n[1]] = low
         /\ \A h \in (n[1] + 1)..HEIGHT :
              Counted(u, n, low)[h] =
                Counted(u, n, low)[h - 1] + temporary_count(u, Sibling(Above(n, h - 1)))
         /\ \A h \in n[1]..HEIGHT : Counted(u, n, low)[h] \in 0..Width[h]
  <1> DEFINE beside(h) == temporary_count(u, Sibling(Above(n, h - 1)))
             step == [h \in 1..HEIGHT |-> [c \in Nat |-> IF h <= n[1] THEN low ELSE c + beside(h)]]
             count == Counted(u, n, low)
  <1>1. n[1] \in 0..HEIGHT /\ n[1] \in Nat /\ HEIGHT \in Nat /\ low \in Nat /\ low <= 1
    BY NodeIs, SizesAssumption
  <1>2. ASSUME NEW h \in (n[1] + 1)..HEIGHT PROVE beside(h) \in 0..Width[h - 1] /\ beside(h) \in Nat
    <2>1. h - 1 \in n[1]..(HEIGHT - 1)
      BY <1>1
    <2>2. Sibling(Above(n, h - 1)) \in Node /\ Sibling(Above(n, h - 1))[1] = h - 1
      BY <2>1, Beside
    <2>3. beside(h) \in 0..Width[h - 1]
      BY <2>2
    <2>4. Width[h - 1] \in Nat
      BY <1>1, <2>1, WidthIs
    <2> QED
      BY <2>3, <2>4
  <1> HIDE DEF beside
  <1>3. step \in [1..HEIGHT -> [Nat -> Nat]]
    <2> SUFFICES ASSUME NEW h \in 1..HEIGHT, NEW c \in Nat
                 PROVE  (IF h <= n[1] THEN low ELSE c + beside(h)) \in Nat
      OBVIOUS
    <2>1. ~ h <= n[1] => h \in (n[1] + 1)..HEIGHT
      BY <1>1
    <2> QED
      BY <1>1, <1>2, <2>1
  <1>4. \E f : f \in Iterations(Nat, low, HEIGHT, step)
    <2> HIDE DEF step
    <2> QED
      BY <1>1, <1>3, Iterates, Zenon
  <1>5. PICK f \in [0..HEIGHT -> Nat] :
          f[0] = low /\ \A h \in 1..HEIGHT : f[h] = step[h][f[h - 1]]
    BY <1>4 DEF Iterations
  <1>6. \A h \in 1..HEIGHT : f[h] = IF h <= n[1] THEN low ELSE f[h - 1] + beside(h)
    <2> SUFFICES ASSUME NEW h \in 1..HEIGHT
                 PROVE  f[h] = IF h <= n[1] THEN low ELSE f[h - 1] + beside(h)
      OBVIOUS
    <2>1. f[h - 1] \in Nat
      BY <1>1
    <2>2. f[h] = step[h][f[h - 1]]
      BY <1>5
    <2> QED
      BY <2>1, <2>2
  <1> HIDE DEF step
  <1> DEFINE g == [h \in n[1]..HEIGHT |-> f[h]]
  <1>7. f[n[1]] = low
    <2>1. CASE n[1] = 0
      BY <1>5, <2>1
    <2>2. CASE n[1] # 0
      <3>1. n[1] \in 1..HEIGHT /\ n[1] <= n[1]
        BY <1>1, <2>2
      <3> QED
        BY <1>6, <3>1
    <2> QED
      BY <2>1, <2>2
  <1>8. g = ClimbCount(u, n, low, g)
    <2>1. ASSUME NEW h \in n[1]..HEIGHT
          PROVE  f[h] = IF h = n[1] THEN low ELSE g[h - 1] + beside(h)
      <3>1. CASE h = n[1]
        BY <1>7, <3>1
      <3>2. CASE h # n[1]
        <4>1. h \in 1..HEIGHT /\ ~ h <= n[1] /\ h - 1 \in n[1]..HEIGHT
          BY <1>1, <3>2
        <4>2. g[h - 1] = f[h - 1]
          BY <4>1
        <4> QED
          BY <1>6, <3>2, <4>1, <4>2
      <3> QED
        BY <3>1, <3>2
    <2>2. ClimbCount(u, n, low, g) = [h \in n[1]..HEIGHT |-> IF h = n[1] THEN low ELSE g[h - 1] + beside(h)]
      BY DEF ClimbCount, beside
    <2>3. g = [h \in n[1]..HEIGHT |-> f[h]]
      OBVIOUS
    <2> HIDE DEF g
    <2>4. [h \in n[1]..HEIGHT |-> f[h]] = [h \in n[1]..HEIGHT |-> IF h = n[1] THEN low ELSE g[h - 1] + beside(h)]
      BY <2>1, Zenon
    <2> QED
      BY <2>2, <2>3, <2>4
  <1>9. count = ClimbCount(u, n, low, count)
    <2> HIDE DEF g
    <2> QED
      BY <1>8 DEF Counted
  <1> HIDE DEF count
  <1>10. \A h \in n[1]..HEIGHT : count[h] = IF h = n[1] THEN low ELSE count[h - 1] + beside(h)
    <2>1. count = [h \in n[1]..HEIGHT |-> IF h = n[1] THEN low ELSE count[h - 1] + beside(h)]
      BY <1>9 DEF ClimbCount, beside
    <2> QED
      BY <2>1
  <1>11. count[n[1]] = low
    <2>1. n[1] \in n[1]..HEIGHT
      BY <1>1
    <2> QED
      BY <1>10, <2>1
  <1>12. ASSUME NEW h \in (n[1] + 1)..HEIGHT PROVE count[h] = count[h - 1] + beside(h)
    <2>1. h \in n[1]..HEIGHT /\ h # n[1]
      BY <1>1
    <2> QED
      BY <1>10, <2>1
  <1>13. \A h \in n[1]..HEIGHT : count[h] \in 0..Width[h]
    <2> DEFINE S == {h \in 0..HEIGHT : n[1] <= h => count[h] \in 0..Width[h]}
    <2>1. ASSUME NEW h \in 0..HEIGHT, h = n[1] PROVE count[h] \in 0..Width[h]
      <3>1. Width[h] \in Nat /\ Width[h] >= 1
        BY WidthPositive
      <3> QED
        BY <1>1, <1>11, <2>1, <3>1
    <2>2. 0 \in S
      BY <1>1, <2>1
    <2>3. ASSUME NEW h \in 1..HEIGHT, h - 1 \in S PROVE h \in S
      <3> SUFFICES ASSUME n[1] <= h, h # n[1] PROVE count[h] \in 0..Width[h]
        BY <1>1, <2>1
      <3>1. h \in (n[1] + 1)..HEIGHT /\ n[1] <= h - 1
        BY <1>1
      <3>2. count[h - 1] \in 0..Width[h - 1] /\ beside(h) \in 0..Width[h - 1]
        BY <1>2, <2>3, <3>1
      <3>3. Width[h] = 2 * Width[h - 1] /\ Width[h - 1] \in Nat
        BY <1>1, WidthIs
      <3> QED
        BY <1>12, <3>1, <3>2, <3>3
    <2> HIDE DEF S
    <2>4. 0..HEIGHT \subseteq S
      BY <1>1, <2>2, <2>3, IntervalInduction
    <2> QED
      BY <1>1, <2>4 DEF S
  <1> QED
    BY <1>11, <1>12, <1>13 DEF beside, count

-----------------------------------------------------------------------------
\* The tree v is u with the path of n written: the hashes of M, and counts.
Wrote(u, v, n, M, low) ==
  /\ v \in Forest /\ SameIndexes(u, v)
  /\ \A m \in Path(n) :
        /\ m \in DOMAIN v.leaves <=> HashOf(M, m) # zero_note_hashes[m[1]]
        /\ m \in DOMAIN v.leaves => v.leaves[m] = HashOf(M, m)
        /\ m \in DOMAIN v.temp <=> Counted(u, n, low)[m[1]] > 0
        /\ m \in DOMAIN v.temp => v.temp[m] = Counted(u, n, low)[m[1]]
  /\ \A m : m \notin Path(n) =>
        /\ m \in DOMAIN v.leaves <=> m \in DOMAIN u.leaves
        /\ m \in DOMAIN v.leaves => v.leaves[m] = u.leaves[m]
        /\ m \in DOMAIN v.temp <=> m \in DOMAIN u.temp
        /\ m \in DOMAIN v.temp => v.temp[m] = u.temp[m]

\* The counts of a tree, those of nodes without a count included.
LEMMA CountsWithin ==
  ASSUME NEW t, Typed(t), NEW u, u.temp = t.temp
  PROVE  \A m \in Node : temporary_count(u, m) \in 0..Width[m[1]]
  <1> SUFFICES ASSUME NEW m \in Node PROVE temporary_count(u, m) \in 0..Width[m[1]]
    OBVIOUS
  <1>1. Width[m[1]] \in Nat
    BY NodeIs
  <1>2. m \in DOMAIN t.temp => t.temp[m] \in 1..Width[m[1]]
    BY DEF Typed
  <1> QED
    BY <1>1, <1>2 DEF temporary_count

\* With true hashes beside the path, true hashes are written on it.
LEMMA PathWrites ==
  ASSUME NEW t, Typed(t), NEW u \in Forest, u.temp = t.temp, NEW M \in Vectors(Values), NEW n \in Node,
         NEW low \in 0..1,
         \A h \in n[1]..(HEIGHT - 1) : get(u, Sibling(Above(n, h))) = HashOf(M, Sibling(Above(n, h)))
  PROVE  Wrote(u, set_batched(u, PathHashes(u, n, HashOf(M, n)), PathCounts(u, n, low)), n, M, low)
  <1> DEFINE hash == HashOf(M, n)
             hashes == PathHashes(u, n, hash)
             counts == PathCounts(u, n, low)
             v == set_batched(u, hashes, counts)
  <1>1. \A m \in Path(n) : m \in Node /\ m[1] \in n[1]..HEIGHT /\ m = Above(n, m[1])
    BY PathIs
  <1>2. \A h \in n[1]..HEIGHT : Climbed(u, n, hash)[h] = HashOf(M, Above(n, h))
    BY ClimbTrue
  <1>3. DOMAIN hashes = Path(n) /\ DOMAIN counts = Path(n)
    BY DEF PathHashes, PathCounts
  <1>4. \A m \in Path(n) : hashes[m] = HashOf(M, m)
    BY <1>1, <1>2 DEF PathHashes
  <1>5. \A m \in Path(n) : counts[m] = Counted(u, n, low)[m[1]] /\ counts[m] \in Nat
    <2>1. \A m \in Node : temporary_count(u, m) \in 0..Width[m[1]]
      BY CountsWithin
    <2>2. \A h \in n[1]..HEIGHT : Counted(u, n, low)[h] \in 0..Width[h]
      BY <2>1, CountIs
    <2> SUFFICES ASSUME NEW m \in Path(n) PROVE counts[m] = Counted(u, n, low)[m[1]] /\ counts[m] \in Nat
      OBVIOUS
    <2>3. counts[m] = Counted(u, n, low)[m[1]]
      BY DEF PathCounts
    <2>4. Counted(u, n, low)[m[1]] \in 0..Width[m[1]]
      BY <1>1, <2>2
    <2>5. Width[m[1]] \in Nat
      BY <1>1, NodeIs
    <2> QED
      BY <2>3, <2>4, <2>5
  <1>6. hashes \in PartialHashes(Values)
    <2>1. \A m \in Path(n) : hashes[m] \in Seq(Values)
      <3> SUFFICES ASSUME NEW m \in Path(n) PROVE hashes[m] \in Seq(Values)
        OBVIOUS
      <3>1. HashOf(M, m) \in [1..Width[m[1]] -> Values] /\ Width[m[1]] \in Nat
        BY <1>1, HashType, NodeIs
      <3> QED
        BY <1>4, <3>1
    <2>2. hashes = [m \in Path(n) |-> hashes[m]]
      BY DEF PathHashes
    <2>3. Path(n) \in SUBSET Node
      BY <1>1
    <2> HIDE DEF hashes
    <2>4. hashes \in [Path(n) -> Seq(Values)]
      BY <2>1, <2>2
    <2> QED
      BY <2>3, <2>4, PartialMake
  <1>7. counts \in [DOMAIN hashes -> Nat]
    <2>1. counts = [m \in Path(n) |-> counts[m]]
      BY DEF PathCounts
    <2> HIDE DEF counts, hashes
    <2> QED
      BY <1>3, <1>5, <2>1
  <1> HIDE DEF hashes, counts
  <1>8. /\ v \in Forest /\ SameIndexes(u, v)
        /\ v.leaves = PutLeaves(u.leaves, hashes)
        /\ v.temp = PutCounts(u.temp, counts)
    BY <1>6, <1>7, SetBatchedIs
  <1> HIDE DEF v
  <1>9. /\ DOMAIN v.leaves = (DOMAIN u.leaves \ Path(n)) \cup Stored(hashes)
        /\ \A m \in DOMAIN v.leaves : v.leaves[m] = IF m \in Stored(hashes) THEN hashes[m] ELSE u.leaves[m]
    BY <1>3, <1>8 DEF PutLeaves
  <1>10. \A m : m \in Stored(hashes) <=> m \in Path(n) /\ HashOf(M, m) # zero_note_hashes[m[1]]
    BY <1>3, <1>4 DEF Stored
  <1>11. /\ DOMAIN v.temp = (DOMAIN u.temp \ Path(n)) \cup {m \in Path(n) : counts[m] > 0}
         /\ \A m \in DOMAIN v.temp : v.temp[m] = IF m \in Path(n) THEN counts[m] ELSE u.temp[m]
    BY <1>3, <1>8 DEF PutCounts
  <1>12. \A m \in Path(n) :
           /\ m \in DOMAIN v.leaves <=> HashOf(M, m) # zero_note_hashes[m[1]]
           /\ m \in DOMAIN v.leaves => v.leaves[m] = HashOf(M, m)
    BY <1>4, <1>9, <1>10
  <1>13. \A m \in Path(n) :
           /\ m \in DOMAIN v.temp <=> Counted(u, n, low)[m[1]] > 0
           /\ m \in DOMAIN v.temp => v.temp[m] = Counted(u, n, low)[m[1]]
    BY <1>5, <1>11
  <1>14. \A m : m \notin Path(n) =>
           /\ m \in DOMAIN v.leaves <=> m \in DOMAIN u.leaves
           /\ m \in DOMAIN v.leaves => v.leaves[m] = u.leaves[m]
           /\ m \in DOMAIN v.temp <=> m \in DOMAIN u.temp
           /\ m \in DOMAIN v.temp => v.temp[m] = u.temp[m]
    BY <1>9, <1>10, <1>11
  <1>15. Wrote(u, v, n, M, low)
    BY <1>8, <1>12, <1>13, <1>14 DEF Wrote
  <1> QED
    BY <1>15 DEF v, hashes, counts, hash

\* What is read after the path has been written.
LEMMA ReadWritten ==
  ASSUME NEW u, NEW v, NEW n \in Node, NEW M, NEW low, Wrote(u, v, n, M, low),
         FilledTo(M, u.next), u.next \in Nat
  PROVE  /\ \A m \in Path(n) : get(v, m) = HashOf(M, m)
         /\ \A m : m \notin Path(n) => get(v, m) = get(u, m)
  <1>1. v.next = u.next
    BY DEF Wrote, SameIndexes
  <1>2. ASSUME NEW m \in Path(n) PROVE get(v, m) = HashOf(M, m)
    <2>1. CASE m \in DOMAIN v.leaves
      <3>1. v.leaves[m] = HashOf(M, m)
        BY <2>1 DEF Wrote
      <3> QED
        BY <2>1, <3>1 DEF get
    <2>2. CASE m \notin DOMAIN v.leaves
      <3>1. HashOf(M, m) = zero_note_hashes[m[1]]
        BY <2>2 DEF Wrote
      <3>2. m \in Node
        BY PathIs
      <3>3. RightEdge(m) <= v.next
        BY <1>1, <3>1, <3>2, ZeroIsFilled
      <3> QED
        BY <2>2, <3>1, <3>3 DEF get
    <2> QED
      BY <2>1, <2>2
  <1>3. ASSUME NEW m, m \notin Path(n) PROVE get(v, m) = get(u, m)
    <2>1. /\ m \in DOMAIN v.leaves <=> m \in DOMAIN u.leaves
          /\ m \in DOMAIN v.leaves => v.leaves[m] = u.leaves[m]
      BY <1>3 DEF Wrote
    <2> QED
      BY <1>1, <2>1 DEF get
  <1> QED
    BY <1>2, <1>3

-----------------------------------------------------------------------------
\* The node n of t gets its hash: u is t with its end moved, v has the path written.
Adds(t, L, n, s, M, u, v, low) ==
  /\ Typed(t) /\ Usable(t, L) /\ Placed(t, L, n, s, M) /\ OpenIn(t, n)
  /\ u \in Forest /\ EndedBehind(t, u, s) /\ u.first = 0
  /\ low \in 0..1 /\ (low = 1 => HashOf(M, n) # zero_note_hashes[n[1]])
  /\ Wrote(u, v, n, M, low)

\* The nodes beside the path are read truly before and after the end has moved.
LEMMA BesideTrue ==
  ASSUME NEW t, Typed(t), NEW L, HoldsRoot(t, L), NEW n, NEW s, NEW M, Placed(t, L, n, s, M),
         NEW u, EndedBehind(t, u, s), OpenIn(t, n), NEW h \in n[1]..(HEIGHT - 1)
  PROVE  get(u, Sibling(Above(n, h))) = HashOf(M, Sibling(Above(n, h)))
  <1> DEFINE b == Sibling(Above(n, h))
  <1>1. n \in Node
    BY DEF Placed
  <1>2. b \in Node /\ Apart(b, n) /\ Ancestors(b) \subseteq Ancestors(n)
    BY <1>1, Beside
  <1> HIDE DEF b
  <1>3. OpenIn(t, b)
    BY <1>2 DEF OpenIn
  <1>4. get(t, b) = HashOf(L, b)
    BY <1>2, <1>3, OpenRead
  <1>5. get(u, b) = HashOf(M, b)
    BY <1>2, <1>4, ReadApart
  <1> QED
    BY <1>5 DEF b

\* What is read after the addition: the path and the nodes beside it truly, the others
\* as before.
LEMMA AddedRead ==
  ASSUME NEW t, NEW L, NEW n, NEW s, NEW M, NEW u, NEW v, NEW low, Adds(t, L, n, s, M, u, v, low)
  PROVE  /\ n \in Node /\ HoldsRoot(t, L)
         /\ v.next = u.next /\ u.next \in Nat /\ t.next \in Nat /\ t.next <= u.next
         /\ FilledTo(M, u.next) /\ M \in Vectors(Values)
         /\ \A m \in Path(n) : get(v, m) = HashOf(M, m)
         /\ \A h \in n[1]..(HEIGHT - 1) : get(v, Sibling(Above(n, h))) = HashOf(M, Sibling(Above(n, h)))
         /\ \A m : m \notin Path(n) => get(v, m) = get(u, m)
  <1>1. n \in Node /\ HoldsRoot(t, L) /\ M \in Vectors(Values)
    BY DEF Adds, Placed, Usable
  <1>2. v.next = u.next
    BY DEF Adds, Wrote, SameIndexes
  <1>3. FilledTo(M, u.next) /\ u.next \in Nat /\ t.next <= u.next
    BY <1>1, PlacedFilled DEF Adds, Whole
  <1>4. t.next \in Nat
    BY DEF Adds, Typed, Whole
  <1>5. /\ \A m \in Path(n) : get(v, m) = HashOf(M, m)
        /\ \A m : m \notin Path(n) => get(v, m) = get(u, m)
    BY <1>1, <1>3, ReadWritten DEF Adds
  <1>6. ASSUME NEW h \in n[1]..(HEIGHT - 1)
        PROVE  get(v, Sibling(Above(n, h))) = HashOf(M, Sibling(Above(n, h)))
    <2>1. get(u, Sibling(Above(n, h))) = HashOf(M, Sibling(Above(n, h)))
      BY <1>1, BesideTrue DEF Adds
    <2>2. Sibling(Above(n, h)) \notin Path(n)
      BY <1>1, Beside
    <2> QED
      BY <1>5, <2>1, <2>2
  <1> QED
    BY <1>1, <1>2, <1>3, <1>4, <1>5, <1>6

\* A stored node that is not on the path was stored before, apart from the place.
LEMMA AddedApart ==
  ASSUME NEW t, NEW L, NEW n, NEW s, NEW M, NEW u, NEW v, NEW low, Adds(t, L, n, s, M, u, v, low),
         NEW m \in DOMAIN v.leaves, m \notin Path(n)
  PROVE  /\ m \in DOMAIN t.leaves /\ v.leaves[m] = t.leaves[m]
         /\ m \in Node /\ Apart(m, n) /\ HashOf(M, m) = HashOf(L, m)
         /\ RightEdge(m) <= t.next \/ u.next = t.next
  <1>1. m \in DOMAIN u.leaves /\ v.leaves[m] = u.leaves[m] /\ u.leaves = t.leaves
    BY DEF Adds, Wrote, EndedBehind
  <1>2. m \notin Ancestors(n)
    BY DEF Path
  <1>3. Typed(t) /\ HoldsRoot(t, L) /\ Placed(t, L, n, s, M) /\ EndedBehind(t, u, s)
    BY DEF Adds, Usable
  <1>4. /\ m \in Node /\ Apart(m, n) /\ HashOf(M, m) = HashOf(L, m)
        /\ RightEdge(m) <= t.next \/ u.next = t.next
    BY <1>1, <1>2, <1>3, StoredApart
  <1> QED
    BY <1>1, <1>4

\* The tree holds the new leaves.
LEMMA AddedHolds ==
  ASSUME NEW t, NEW L, NEW n, NEW s, NEW M, NEW u, NEW v, NEW low, Adds(t, L, n, s, M, u, v, low)
  PROVE  HoldsRoot(v, M)
  <1>1. /\ n \in Node /\ HoldsRoot(t, L) /\ v.next = u.next /\ u.next \in Nat /\ t.next \in Nat
        /\ t.next <= u.next /\ FilledTo(M, u.next) /\ M \in Vectors(Values)
        /\ \A m \in Path(n) : get(v, m) = HashOf(M, m)
    BY AddedRead
  <1>2. LeftEdge(n) < u.next
    <2>1. LeftEdge(n) \in Nat /\ LeftEdge(n) < RightEdge(n) /\ RightEdge(n) \in Nat
      BY <1>1, NodeIs
    <2>2. RightEdge(n) <= s + GroupSize /\ s \in Nat /\ GroupSize \in Nat
      BY GroupSizeIs DEF Adds, Placed, Whole
    <2>3. s + GroupSize <= u.next
      BY <1>1, PlacedFilled DEF Adds
    <2> QED
      BY <1>1, <2>1, <2>2, <2>3
  <1>3. ASSUME NEW m \in DOMAIN v.leaves
        PROVE  /\ v.leaves[m] = HashOf(M, m) /\ LeftEdge(m) < v.next
               /\ v.leaves[m] # zero_note_hashes[m[1]]
    <2>1. CASE m \in Path(n)
      <3>1. v.leaves[m] = HashOf(M, m) /\ HashOf(M, m) # zero_note_hashes[m[1]]
        BY <2>1 DEF Adds, Wrote
      <3>2. m \in Node /\ LeftEdge(m) <= LeftEdge(n)
        BY <1>1, <2>1, PathIs
      <3>3. LeftEdge(m) \in Nat /\ LeftEdge(n) \in Nat
        BY <1>1, <3>2, NodeIs
      <3> QED
        BY <1>1, <1>2, <3>1, <3>2, <3>3
    <2>2. CASE m \notin Path(n)
      <3>1. /\ m \in DOMAIN t.leaves /\ v.leaves[m] = t.leaves[m] /\ m \in Node
            /\ HashOf(M, m) = HashOf(L, m)
        BY <2>2, AddedApart
      <3>2. t.leaves[m] = HashOf(L, m) /\ LeftEdge(m) < t.next /\ t.leaves[m] # zero_note_hashes[m[1]]
        BY <1>1, <3>1 DEF HoldsRoot, StoredTrue
      <3>3. LeftEdge(m) \in Nat
        BY <3>1, NodeIs
      <3> QED
        BY <1>1, <3>1, <3>2, <3>3
    <2> QED
      BY <2>1, <2>2
  <1>4. Root \in Path(n)
    <2>1. HEIGHT \in n[1]..HEIGHT
      BY <1>1, NodeIs, SizesAssumption
    <2>2. Above(n, HEIGHT) \in Path(n) /\ Above(n, HEIGHT) \in Node /\ Above(n, HEIGHT)[1] = HEIGHT
      BY <1>1, <2>1, PathHas, AboveIs
    <2>3. Root \in Node /\ Root[1] = HEIGHT /\ LeftEdge(Root) = 0 /\ RightEdge(Root) = Capacity
      BY RootIs
    <2>4. Above(n, HEIGHT) = Root
      <3> DEFINE r == Above(n, HEIGHT)
      <3>1. r \in Node /\ r[1] = HEIGHT
        BY <2>2
      <3> HIDE DEF r
      <3>2. LeftEdge(r) \in Nat /\ LeftEdge(r) < RightEdge(r) /\ RightEdge(r) <= Capacity /\ RightEdge(r) \in Nat
        BY <3>1, NodeIs
      <3>3. LeftEdge(Root) < RightEdge(r) /\ LeftEdge(r) < RightEdge(Root)
        BY <2>3, <3>2, GroupSizeIs
      <3>4. r = Root
        BY <2>3, <3>1, <3>3, SameLevel
      <3> QED
        BY <3>4 DEF r
    <2> QED
      BY <2>2, <2>4
  <1>5. get_root(v) = HashOf(M, Root)
    BY <1>1, <1>4 DEF get_root
  <1>6. StoredTrue(v, M)
    BY <1>3 DEF StoredTrue
  <1> QED
    BY <1>1, <1>5, <1>6 DEF HoldsRoot

\* The nodes above the place have the hash of what is read of their children.
LEMMA AddedAbove ==
  ASSUME NEW t, NEW L, NEW n, NEW s, NEW M, NEW u, NEW v, NEW low, Adds(t, L, n, s, M, u, v, low),
         NEW m \in Ancestors(n), m \in DOMAIN v.leaves
  PROVE  Linked(v, m)
  <1> DEFINE h == m[1] - 1
             a == Above(n, h)
             b == Sibling(Above(n, h))
             p == Above(n, h + 1)
  <1>1. /\ n \in Node /\ M \in Vectors(Values)
        /\ \A k \in Path(n) : get(v, k) = HashOf(M, k)
        /\ \A k \in n[1]..(HEIGHT - 1) : get(v, Sibling(Above(n, k))) = HashOf(M, Sibling(Above(n, k)))
    BY AddedRead
  <1>2. m \in Path(n) /\ m \in Node /\ n[1] < m[1] /\ m = Above(n, m[1])
    BY <1>1, AboveHas, PathIs DEF Path
  <1>3. n[1] \in Nat /\ m[1] \in 0..HEIGHT /\ HEIGHT \in Nat
    BY <1>1, <1>2, NodeIs, SizesAssumption
  <1>4. h \in n[1]..(HEIGHT - 1) /\ h + 1 = m[1] /\ m[1] > 0
    BY <1>2, <1>3
  <1>5. p = m
    BY <1>2, <1>4
  <1>6. {LeftChild(p), RightChild(p)} = {a, b} /\ a \in Path(n)
    <2> HIDE DEF h
    <2> QED
      BY <1>1, <1>4, Beside
  <1>7. get(v, a) = HashOf(M, a) /\ get(v, b) = HashOf(M, b)
    BY <1>1, <1>4, <1>6
  <1> HIDE DEF a, b, p
  <1>8. /\ get(v, LeftChild(m)) = HashOf(M, LeftChild(m))
        /\ get(v, RightChild(m)) = HashOf(M, RightChild(m))
    BY <1>5, <1>6, <1>7
  <1>9. poseidon(HashOf(M, LeftChild(m)), HashOf(M, RightChild(m))) = HashOf(M, m)
    BY <1>1, <1>2, <1>4, HashOfChildren
  <1>10. v.leaves[m] = HashOf(M, m)
    BY <1>2 DEF Adds, Wrote
  <1> QED
    BY <1>8, <1>9, <1>10 DEF Linked

\* Another stored node that had the hash of its children keeps it.
LEMMA AddedBeside ==
  ASSUME NEW t, NEW L, NEW n, NEW s, NEW M, NEW u, NEW v, NEW low, Adds(t, L, n, s, M, u, v, low),
         NEW m \in DOMAIN v.leaves, m \notin Path(n), m[1] > 0, Linked(t, m)
  PROVE  Linked(v, m)
  <1>1. /\ m \in DOMAIN t.leaves /\ v.leaves[m] = t.leaves[m] /\ m \in Node
        /\ RightEdge(m) <= t.next \/ u.next = t.next
    BY AddedApart
  <1>2. /\ n \in Node /\ u.next \in Nat /\ t.next \in Nat /\ t.next <= u.next
        /\ \A k : k \notin Path(n) => get(v, k) = get(u, k)
    BY AddedRead
  <1>3. u.leaves = t.leaves
    BY DEF Adds, EndedBehind
  <1>4. ASSUME NEW c \in {LeftChild(m), RightChild(m)} PROVE get(v, c) = get(t, c)
    <2>1. c \notin Path(n)
      BY <1>1, <1>2, PathAbove DEF Path
    <2>2. c \in Node /\ RightEdge(c) <= RightEdge(m)
      BY <1>1, AncestorsOfChild
    <2>3. RightEdge(c) \in Nat /\ RightEdge(m) \in Nat
      BY <1>1, <2>2, NodeIs
    <2>4. RightEdge(c) <= t.next \/ u.next = t.next
      BY <1>1, <1>2, <2>2, <2>3
    <2>5. get(u, c) = get(t, c)
      <3>1. CASE u.next = t.next
        BY <1>3, <3>1 DEF get
      <3>2. CASE RightEdge(c) <= t.next
        <4>1. RightEdge(c) <= u.next
          BY <1>2, <2>3, <3>2
        <4> QED
          BY <1>3, <3>2, <4>1 DEF get
      <3> QED
        BY <2>4, <3>1, <3>2
    <2> QED
      BY <1>2, <2>1, <2>5
  <1> QED
    BY <1>1, <1>4 DEF Linked

\* Above a stored leaf and across the end nothing is missing.
LEMMA AddedOpen ==
  ASSUME NEW t, NEW L, NEW n, NEW s, NEW M, NEW u, NEW v, NEW low, Adds(t, L, n, s, M, u, v, low)
  PROVE  LeavesOpen(v) /\ EndOpen(v)
  <1>1. /\ n \in Node /\ v.next = u.next /\ u.next \in Nat /\ t.next \in Nat /\ t.next <= u.next
    BY AddedRead
  <1>2. ASSUME NEW k \in DOMAIN v.leaves, k[1] = 0, NEW m \in Ancestors(k), m \in DOMAIN v.leaves
        PROVE  Linked(v, m)
    <2>1. CASE m \in Ancestors(n)
      BY <1>2, <2>1, AddedAbove
    <2>2. CASE m = n
      <3>1. k \in Node
        <4>1. v \in Forest
          BY DEF Adds, Wrote
        <4> QED
          BY <4>1, PartialIs DEF Forest
      <3>2. n[1] > 0 /\ LeftEdge(n) <= LeftEdge(k) /\ RightEdge(k) <= RightEdge(n)
        BY <1>2, <2>2, <3>1, AboveHas
      <3>3. k \notin Path(n)
        <4> SUFFICES ASSUME k \in Path(n) PROVE FALSE
          OBVIOUS
        <4>1. k[1] \in n[1]..HEIGHT
          BY <1>1, PathIs
        <4> QED
          BY <1>1, <1>2, <3>2, <4>1, NodeIs
      <3>4. Apart(k, n)
        BY <3>3, AddedApart
      <3>5. /\ LeftEdge(k) \in Nat /\ RightEdge(k) \in Nat /\ LeftEdge(k) < RightEdge(k)
            /\ LeftEdge(n) \in Nat /\ RightEdge(n) \in Nat
        BY <1>1, <3>1, NodeIs
      <3> QED
        BY <3>2, <3>4, <3>5 DEF Apart
    <2>3. CASE m \notin Path(n)
      <3>1. m \in DOMAIN t.leaves
        BY <1>2, <2>3, AddedApart
      <3>2. k \notin Path(n)
        <4> SUFFICES ASSUME k \in Path(n) PROVE FALSE
          OBVIOUS
        <4>1. Ancestors(k) \subseteq Ancestors(n)
          BY <1>1, PathIs
        <4> QED
          BY <1>2, <2>3, <4>1 DEF Path
      <3>3. k \in DOMAIN t.leaves /\ k \in Node
        BY <3>2, AddedApart
      <3>4. Linked(t, m)
        <4>1. LeavesOpen(t)
          BY DEF Adds, Usable
        <4> QED
          BY <1>2, <3>1, <3>3, <4>1 DEF LeavesOpen, OpenIn
      <3>5. m[1] > 0
        BY <1>2, <3>3, AboveHas
      <3> QED
        BY <1>2, <2>3, <3>4, <3>5, AddedBeside
    <2> QED
      BY <2>1, <2>2, <2>3 DEF Path
  <1>3. ASSUME NEW m \in DOMAIN v.leaves, LeftEdge(m) < v.next, v.next < RightEdge(m)
        PROVE  Linked(v, m)
    <2>1. CASE m \in Ancestors(n)
      BY <2>1, AddedAbove
    <2>2. CASE m = n
      <3>1. RightEdge(n) <= s + GroupSize /\ s \in Nat /\ GroupSize \in Nat
        BY GroupSizeIs DEF Adds, Placed, Whole
      <3>2. s + GroupSize <= u.next
        BY <1>1, PlacedFilled DEF Adds, Usable
      <3>3. RightEdge(n) \in Nat
        BY <1>1, NodeIs
      <3> QED
        BY <1>1, <1>3, <2>2, <3>1, <3>2, <3>3
    <2>3. CASE m \notin Path(n)
      <3>1. m \in DOMAIN t.leaves /\ m \in Node /\ (RightEdge(m) <= t.next \/ u.next = t.next)
        BY <2>3, AddedApart
      <3>2. LeftEdge(m) \in Nat /\ RightEdge(m) = LeftEdge(m) + Width[m[1]] /\ RightEdge(m) \in Nat
        BY <3>1, NodeIs
      <3>3. u.next = t.next
        BY <1>1, <1>3, <3>1, <3>2
      <3>4. Linked(t, m)
        <4>1. EndOpen(t)
          BY DEF Adds, Usable
        <4> QED
          BY <1>1, <1>3, <3>1, <3>3, <4>1 DEF EndOpen
      <3>5. m[1] > 0
        <4>1. m[1] \in 0..HEIGHT /\ HEIGHT \in Nat
          BY <3>1, NodeIs, SizesAssumption
        <4>2. ASSUME m[1] = 0 PROVE FALSE
          <5>1. Width[m[1]] = 1
            BY <4>2, WidthIs
          <5> QED
            BY <1>1, <1>3, <3>2, <5>1
        <4> QED
          BY <4>1, <4>2
      <3> QED
        BY <2>3, <3>4, <3>5, AddedBeside
    <2> QED
      BY <2>1, <2>2, <2>3 DEF Path
  <1> QED
    BY <1>2, <1>3 DEF LeavesOpen, OpenIn, EndOpen

\* Where temporary leaves are counted on the path, a hash is stored.
LEMMA CountedIsStored ==
  ASSUME NEW t, NEW L, NEW n, NEW s, NEW M, NEW u, NEW v, NEW low, Adds(t, L, n, s, M, u, v, low),
         NEW m \in Path(n), m \in DOMAIN v.temp
  PROVE  m \in DOMAIN v.leaves
  <1> DEFINE count(h) == Counted(u, n, low)[h]
             beside(h) == Sibling(Above(n, h))
             S == {h \in 0..HEIGHT : n[1] <= h /\ count(h) > 0 =>
                                       HashOf(M, Above(n, h)) # zero_note_hashes[h]}
  <1>1. n \in Node /\ n[1] \in Nat /\ n[1] \in 0..HEIGHT /\ HEIGHT \in Nat /\ HoldsRoot(t, L)
    BY AddedRead, NodeIs, SizesAssumption
  <1>2. u.temp = t.temp /\ u.leaves = t.leaves /\ Typed(t) /\ low \in 0..1
    BY DEF Adds, EndedBehind
  <1>3. \A k \in Node : temporary_count(u, k) \in 0..Width[k[1]]
    BY <1>2, CountsWithin
  <1>4. /\ count(n[1]) = low
        /\ \A h \in (n[1] + 1)..HEIGHT : count(h) = count(h - 1) + temporary_count(u, beside(h - 1))
        /\ \A h \in n[1]..HEIGHT : count(h) \in 0..Width[h]
    BY <1>1, <1>2, <1>3, CountIs
  <1> HIDE DEF count
  <1>5. ASSUME NEW h \in 0..HEIGHT, h = n[1], count(h) > 0
        PROVE  HashOf(M, Above(n, h)) # zero_note_hashes[h]
    <2>1. low = 1
      BY <1>2, <1>4, <1>5
    <2>2. HashOf(M, n) # zero_note_hashes[n[1]]
      BY <2>1 DEF Adds
    <2>3. Above(n, n[1]) = n
      BY <1>1, <1>5, PathHas
    <2> QED
      BY <1>5, <2>2, <2>3
  <1>6. 0 \in S
    BY <1>1, <1>5
  <1>7. ASSUME NEW h \in 1..HEIGHT, h - 1 \in S PROVE h \in S
    <2> SUFFICES ASSUME n[1] < h, count(h) > 0, HashOf(M, Above(n, h)) = zero_note_hashes[h]
                 PROVE  FALSE
      BY <1>1, <1>5
    <2> DEFINE a == Above(n, h - 1)
               b == beside(h - 1)
               p == Above(n, h)
               q == Above(n, (h - 1) + 1)
    <2>1. h - 1 \in n[1]..(HEIGHT - 1) /\ h \in (n[1] + 1)..HEIGHT /\ (h - 1) + 1 = h
      BY <1>1
    <2>2. /\ b \in Node /\ b[1] = h - 1 /\ b \notin Path(n) /\ q \in Ancestors(n) /\ q[1] = (h - 1) + 1
          /\ a \in Path(n) /\ {LeftChild(q), RightChild(q)} = {a, b}
      BY <1>1, <2>1, Beside
    <2>3. p = q /\ p \in Node /\ p[1] = h
      BY <1>1, <2>1, <2>2, AboveHas
    <2> HIDE DEF a, b, p, q
    <2>4. \A c \in {a, b} : c \in Node /\ c[1] = h - 1 /\ HashOf(M, c) = zero_note_hashes[c[1]]
      <3> SUFFICES ASSUME NEW c \in {LeftChild(p), RightChild(p)}
                   PROVE  c \in Node /\ c[1] = h - 1 /\ HashOf(M, c) = zero_note_hashes[c[1]]
        BY <2>2, <2>3
      <3>1. /\ c \in Node /\ c[1] = p[1] - 1
            /\ LeftEdge(p) <= LeftEdge(c) /\ RightEdge(c) <= RightEdge(p)
        BY <2>3, AncestorsOfChild
      <3>2. HashOf(M, p) = zero_note_hashes[p[1]]
        BY <2>3 DEF p
      <3> QED
        BY <2>3, <3>1, <3>2, ZeroBelow
    <2>5. count(h - 1) = 0
      <3>1. HashOf(M, Above(n, h - 1)) = zero_note_hashes[h - 1]
        BY <2>4 DEF a
      <3>2. count(h - 1) \in 0..Width[h - 1] /\ h - 1 \in 0..HEIGHT /\ n[1] <= h - 1
        BY <1>1, <1>4, <2>1
      <3>3. Width[h - 1] \in Nat
        BY <3>2, WidthIs
      <3> QED
        BY <1>7, <3>1, <3>2, <3>3
    <2>6. temporary_count(u, b) > 0
      <3>1. count(h) = count(h - 1) + temporary_count(u, b)
        BY <1>4, <2>1 DEF b
      <3>2. temporary_count(u, b) \in 0..Width[b[1]] /\ Width[b[1]] \in Nat
        BY <1>3, <2>2, NodeIs
      <3> QED
        BY <2>5, <3>1, <3>2
    <2>7. b \in DOMAIN t.leaves
      <3>1. b \in DOMAIN t.temp
        BY <1>2, <2>6 DEF temporary_count
      <3> QED
        BY <1>2, <3>1 DEF Typed
    <2>8. HashOf(M, b) = t.leaves[b] /\ t.leaves[b] # zero_note_hashes[b[1]]
      <3>1. b \in DOMAIN v.leaves
        BY <1>2, <2>2, <2>7 DEF Adds, Wrote
      <3>2. HashOf(M, b) = HashOf(L, b)
        BY <2>2, <3>1, AddedApart
      <3> QED
        BY <1>1, <2>7, <3>2 DEF HoldsRoot, StoredTrue
    <2> QED
      BY <2>4, <2>8
  <1>8. 0..HEIGHT \subseteq S
    <2> HIDE DEF S
    <2> QED
      BY <1>1, <1>6, <1>7, IntervalInduction
  <1>9. m[1] \in n[1]..HEIGHT /\ m = Above(n, m[1])
    BY <1>1, PathIs
  <1>10. count(m[1]) > 0
    BY DEF Adds, Wrote, count
  <1>11. HashOf(M, Above(n, m[1])) # zero_note_hashes[m[1]]
    BY <1>1, <1>8, <1>9, <1>10
  <1>12. HashOf(M, m) # zero_note_hashes[m[1]]
    BY <1>9, <1>11
  <1> QED
    BY <1>12 DEF Adds, Wrote

\* The tree keeps its types.
LEMMA AddedTyped ==
  ASSUME NEW t, NEW L, NEW n, NEW s, NEW M, NEW u, NEW v, NEW low, Adds(t, L, n, s, M, u, v, low)
  PROVE  Typed(v)
  <1>1. /\ n \in Node /\ HoldsRoot(t, L) /\ v.next = u.next /\ M \in Vectors(Values)
    BY AddedRead
  <1>2. v \in Forest /\ v.first = 0 /\ Typed(t) /\ low \in 0..1 /\ u.temp = t.temp
    BY DEF Adds, Wrote, SameIndexes, EndedBehind
  <1>3. Whole(v.next) /\ v.next <= Capacity
    BY <1>1, PlacedFilled DEF Adds
  <1>4. ASSUME NEW m \in DOMAIN v.leaves PROVE v.leaves[m] \in Rows(Width[m[1]], Values)
    <2>1. CASE m \in Path(n)
      <3>1. v.leaves[m] = HashOf(M, m)
        BY <2>1 DEF Adds, Wrote
      <3>2. m \in Node
        BY <1>1, <2>1, PathIs
      <3> QED
        BY <1>1, <3>1, <3>2, HashType DEF Rows
    <2>2. CASE m \notin Path(n)
      <3>1. m \in DOMAIN t.leaves /\ v.leaves[m] = t.leaves[m]
        BY <2>2, AddedApart
      <3> QED
        BY <1>2, <3>1 DEF Typed
    <2> QED
      BY <2>1, <2>2
  <1>5. ASSUME NEW m \in DOMAIN v.temp
        PROVE  m \in DOMAIN v.leaves /\ v.temp[m] \in 1..Width[m[1]]
    <2>1. CASE m \in Path(n)
      <3>1. m \in DOMAIN v.leaves
        BY <2>1, CountedIsStored
      <3>2. \A k \in Node : temporary_count(u, k) \in 0..Width[k[1]]
        BY <1>2, CountsWithin
      <3>3. m[1] \in n[1]..HEIGHT /\ m \in Node
        BY <1>1, <2>1, PathIs
      <3>4. Counted(u, n, low)[m[1]] \in 0..Width[m[1]]
        BY <1>1, <1>2, <3>2, <3>3, CountIs
      <3>5. v.temp[m] = Counted(u, n, low)[m[1]] /\ Counted(u, n, low)[m[1]] > 0
        BY <2>1 DEF Adds, Wrote
      <3>6. Width[m[1]] \in Nat
        BY <3>3, NodeIs
      <3> QED
        BY <3>1, <3>4, <3>5, <3>6
    <2>2. CASE m \notin Path(n)
      <3>1. m \in DOMAIN t.temp /\ v.temp[m] = t.temp[m]
        BY <1>2, <2>2 DEF Adds, Wrote
      <3>2. m \in DOMAIN t.leaves /\ t.temp[m] \in 1..Width[m[1]]
        BY <1>2, <3>1 DEF Typed
      <3>3. m \in DOMAIN v.leaves
        BY <2>2, <3>2 DEF Adds, Wrote, EndedBehind
      <3> QED
        BY <3>1, <3>2, <3>3
    <2> QED
      BY <2>1, <2>2
  <1>6. v.first \in {0, None} /\ (v.first = None => v.next = 0)
    <2>1. None # 0
      BY SentinelsAssumption
    <2> QED
      BY <1>2, <2>1
  <1> QED
    BY <1>2, <1>3, <1>4, <1>5, <1>6 DEF Typed

-----------------------------------------------------------------------------
\* The parent of a node below m is m or below it.
LEMMA ParentBelow ==
  ASSUME NEW n \in Node, NEW m \in Ancestors(n)
  PROVE  LET p == Above(n, n[1] + 1)
         IN  p \in Node /\ p[1] = n[1] + 1 /\ (p = m \/ m \in Ancestors(p)) /\ n[1] < HEIGHT
             /\ n \in {LeftChild(p), RightChild(p)} /\ p \in Ancestors(n)
  <1> DEFINE p == Above(n, n[1] + 1)
  <1>1. n[1] < m[1] /\ m[1] \in 0..HEIGHT /\ n[1] \in 0..HEIGHT /\ HEIGHT \in Nat
    BY AboveHas, NodeIs, SizesAssumption
  <1>2. n[1] < HEIGHT
    BY <1>1
  <1>3. p \in Node /\ p[1] = n[1] + 1 /\ n \in {LeftChild(p), RightChild(p)}
    BY <1>2, ParentIs
  <1> HIDE DEF p
  <1>4. Ancestors(n) = {p} \cup Ancestors(p)
    BY <1>1, <1>3, AncestorsOfChild
  <1> QED
    BY <1>2, <1>3, <1>4 DEF p

\* A node below the path, and not on it, is beside it or below a node that is.
LEMMA BelowPath ==
  ASSUME NEW n \in Node, NEW k \in Node, k \notin Path(n), Apart(k, n),
         NEW m \in Ancestors(n), m \in Ancestors(k)
  PROVE  \E h \in n[1]..(m[1] - 1) :
            k = Sibling(Above(n, h)) \/ Sibling(Above(n, h)) \in Ancestors(k)
  <1> DEFINE beside(h) == Sibling(Above(n, h))
             Found(h) == \E g \in n[1]..(h - 1) : k = beside(g) \/ beside(g) \in Ancestors(k)
             S == {h \in 0..HEIGHT : n[1] <= h /\ Above(n, h) \in Ancestors(k) => Found(h)}
  <1>1. n[1] \in 0..HEIGHT /\ HEIGHT \in Nat
    BY NodeIs, SizesAssumption
  <1>2. n \notin Ancestors(k)
    <2> SUFFICES ASSUME n \in Ancestors(k) PROVE FALSE
      OBVIOUS
    <2>1. LeftEdge(n) <= LeftEdge(k) /\ RightEdge(k) <= RightEdge(n)
      BY AboveHas
    <2>2. /\ LeftEdge(k) \in Nat /\ RightEdge(k) \in Nat /\ LeftEdge(k) < RightEdge(k)
          /\ LeftEdge(n) \in Nat /\ RightEdge(n) \in Nat
      BY NodeIs
    <2> QED
      BY <2>1, <2>2 DEF Apart
  <1>3. Above(n, n[1]) = n
    BY <1>1, PathHas
  <1>4. 0 \in S
    BY <1>1, <1>2, <1>3
  <1>5. ASSUME NEW h \in 1..HEIGHT, h - 1 \in S PROVE h \in S
    <2> SUFFICES ASSUME n[1] <= h, Above(n, h) \in Ancestors(k) PROVE Found(h)
      BY <1>1
    <2> DEFINE a == Above(n, h - 1)
               b == beside(h - 1)
               p == Above(n, h)
               q == Above(n, (h - 1) + 1)
               c == Above(k, h - 1)
    <2>1. h # n[1]
      BY <1>2, <1>3
    <2>2. h - 1 \in n[1]..(HEIGHT - 1) /\ h - 1 \in n[1]..(h - 1) /\ (h - 1) + 1 = h /\ n[1] <= h - 1
      BY <1>1, <2>1
    <2>3. /\ a \in Path(n) /\ {LeftChild(q), RightChild(q)} = {a, b} /\ q[1] = (h - 1) + 1
          /\ q \in Ancestors(n)
      BY <2>2, Beside
    <2>4. p = q /\ p \in Ancestors(k) /\ p[1] = h
      BY <2>2, <2>3
    <2>5. k[1] < h /\ k[1] \in 0..HEIGHT
      BY <2>4, AboveHas, NodeIs
    <2>6. h - 1 \in k[1]..HEIGHT
      BY <1>1, <2>5
    <2>7. c \in Path(k) /\ c[1] = h - 1
      BY <2>6, PathHas
    <2> HIDE DEF c, a, b, p, q
    <2>8. c \in Node /\ p \in Ancestors(c)
      <3>1. c \in Node
        BY <2>7, PathIs
      <3>2. c = k \/ c \in Ancestors(k)
        BY <2>7 DEF Path
      <3>3. LeftEdge(c) <= LeftEdge(k) /\ RightEdge(k) <= RightEdge(c)
        BY <2>7, PathIs
      <3>4. p \in Node /\ LeftEdge(p) <= LeftEdge(k) /\ RightEdge(k) <= RightEdge(p)
        BY <2>4, AboveHas
      <3>5. /\ LeftEdge(k) \in Nat /\ RightEdge(k) \in Nat /\ LeftEdge(k) < RightEdge(k)
            /\ LeftEdge(c) \in Nat /\ RightEdge(c) \in Nat /\ LeftEdge(p) \in Nat /\ RightEdge(p) \in Nat
        BY <3>1, <3>4, NodeIs
      <3>6. c[1] <= p[1] /\ c[1] < p[1]
        BY <2>2, <2>4, <2>7
      <3>7. LeftEdge(p) < RightEdge(c) /\ LeftEdge(c) < RightEdge(p)
        BY <3>3, <3>4, <3>5
      <3>8. LeftEdge(p) <= LeftEdge(c) /\ RightEdge(c) <= RightEdge(p)
        BY <3>1, <3>4, <3>6, <3>7, AboveUnique
      <3> QED
        BY <3>1, <3>4, <3>6, <3>8, AncestorsAre
    <2>9. c \in {a, b}
      <3> DEFINE r == Above(c, c[1] + 1)
      <3>1. /\ r \in Node /\ r[1] = c[1] + 1 /\ (r = p \/ p \in Ancestors(r))
            /\ c \in {LeftChild(r), RightChild(r)}
        BY <2>8, ParentBelow
      <3> HIDE DEF r
      <3>2. p \notin Ancestors(r)
        <4> SUFFICES ASSUME p \in Ancestors(r) PROVE FALSE
          OBVIOUS
        <4>1. r[1] < p[1]
          BY <3>1, AboveHas
        <4> QED
          BY <2>2, <2>4, <2>7, <3>1, <4>1
      <3> QED
        BY <2>3, <2>4, <3>1, <3>2
    <2>10. c = k \/ c \in Ancestors(k)
      BY <2>7 DEF Path
    <2>11. CASE c = b
      <3>1. k = beside(h - 1) \/ beside(h - 1) \in Ancestors(k)
        BY <2>10, <2>11 DEF b
      <3> HIDE DEF beside
      <3> QED
        BY <2>2, <3>1
    <2>12. CASE c = a
      <3>1. a \in Ancestors(k)
        BY <2>3, <2>10, <2>12
      <3>2. Found(h - 1)
        BY <1>5, <2>2, <3>1 DEF a
      <3>3. n[1]..((h - 1) - 1) \subseteq n[1]..(h - 1)
        BY <1>1
      <3> HIDE DEF beside
      <3> QED
        BY <3>2, <3>3
    <2> QED
      BY <2>9, <2>11, <2>12
  <1>6. 0..HEIGHT \subseteq S
    <2> HIDE DEF S
    <2> QED
      BY <1>1, <1>4, <1>5, IntervalInduction
  <1>7. m[1] \in 0..HEIGHT /\ n[1] <= m[1] /\ m = Above(n, m[1])
    <2>1. m \in Path(n)
      BY DEF Path
    <2>2. m[1] \in n[1]..HEIGHT /\ m = Above(n, m[1])
      BY <2>1, PathIs
    <2> QED
      BY <1>1, <2>2
  <1>8. Above(n, m[1]) \in Ancestors(k)
    BY <1>7
  <1>9. Found(m[1])
    BY <1>6, <1>7, <1>8
  <1> QED
    BY <1>9

\* A node of the path all of whose leaves are temporary ends within the tree, and so
\* are those beside the path below it and on it.
LEMMA FullPath ==
  ASSUME NEW t, NEW L, NEW n, NEW s, NEW M, NEW u, NEW v, NEW low, Adds(t, L, n, s, M, u, v, low),
         NEW m \in Path(n), FullIn(v, m)
  PROVE  /\ RightEdge(m) <= v.next
         /\ \A h \in n[1]..(m[1] - 1) : FullIn(t, Sibling(Above(n, h))) /\ FullIn(v, Above(n, h))
  <1> DEFINE count(h) == Counted(u, n, low)[h]
             beside(h) == Sibling(Above(n, h))
             Full(h) == count(h) = Width[h]
             S == {h \in 0..HEIGHT : n[1] <= h /\ Full(h) =>
                     /\ RightEdge(Above(n, h)) <= u.next
                     /\ \A g \in n[1]..(h - 1) : FullIn(t, beside(g)) /\ Full(g)}
  <1>1. /\ n \in Node /\ n[1] \in Nat /\ n[1] \in 0..HEIGHT /\ HEIGHT \in Nat /\ HoldsRoot(t, L)
        /\ v.next = u.next /\ u.next \in Nat /\ t.next \in Nat /\ t.next <= u.next
    BY AddedRead, NodeIs, SizesAssumption
  <1>2. u.temp = t.temp /\ u.leaves = t.leaves /\ Typed(t) /\ low \in 0..1 /\ TemporaryBelow(t)
    BY DEF Adds, EndedBehind, Usable
  <1>3. \A k \in Node : temporary_count(u, k) \in 0..Width[k[1]]
    BY <1>2, CountsWithin
  <1>4. /\ \A h \in (n[1] + 1)..HEIGHT : count(h) = count(h - 1) + temporary_count(u, beside(h - 1))
        /\ \A h \in n[1]..HEIGHT : count(h) \in 0..Width[h]
    BY <1>1, <1>2, <1>3, CountIs
  <1>5. RightEdge(n) <= u.next
    <2>1. RightEdge(n) <= s + GroupSize /\ s \in Nat /\ GroupSize \in Nat
      BY GroupSizeIs DEF Adds, Placed, Whole
    <2>2. s + GroupSize <= u.next
      BY <1>1, PlacedFilled DEF Adds
    <2>3. RightEdge(n) \in Nat
      BY <1>1, NodeIs
    <2> QED
      BY <1>1, <2>1, <2>2, <2>3
  <1>6. ASSUME NEW h \in 0..HEIGHT, h = n[1]
        PROVE  /\ RightEdge(Above(n, h)) <= u.next
               /\ \A g \in n[1]..(h - 1) : FullIn(t, beside(g)) /\ Full(g)
    <2>1. Above(n, h) = n
      BY <1>1, <1>6, PathHas
    <2>2. n[1]..(h - 1) = {}
      BY <1>1, <1>6
    <2> QED
      BY <1>5, <2>1, <2>2
  <1> HIDE DEF count
  <1>7. 0 \in S
    BY <1>1, <1>6
  <1>8. ASSUME NEW h \in 1..HEIGHT, h - 1 \in S PROVE h \in S
    <2> SUFFICES ASSUME n[1] < h, Full(h)
                 PROVE  /\ RightEdge(Above(n, h)) <= u.next
                        /\ \A g \in n[1]..(h - 1) : FullIn(t, beside(g)) /\ Full(g)
      <3>1. n[1] <= h => n[1] = h \/ n[1] < h
        BY <1>1
      <3> QED
        BY <1>1, <1>6, <3>1
    <2> DEFINE a == Above(n, h - 1)
               b == beside(h - 1)
               p == Above(n, h)
               q == Above(n, (h - 1) + 1)
    <2>1. /\ h - 1 \in n[1]..(HEIGHT - 1) /\ h \in (n[1] + 1)..HEIGHT /\ (h - 1) + 1 = h
          /\ h - 1 \in n[1]..HEIGHT /\ h - 1 \in 0..HEIGHT /\ n[1] <= h - 1
      BY <1>1
    <2>2. /\ b \in Node /\ b[1] = h - 1 /\ q \in Ancestors(n) /\ q[1] = (h - 1) + 1
          /\ a \in Path(n) /\ {LeftChild(q), RightChild(q)} = {a, b}
      BY <1>1, <2>1, Beside
    <2>3. p = q /\ p \in Node /\ p[1] = h
      BY <1>1, <2>1, <2>2, AboveHas
    <2>4. /\ count(h) = count(h - 1) + temporary_count(u, b)
          /\ count(h - 1) \in 0..Width[h - 1]
      BY <1>4, <2>1
    <2> HIDE DEF a, b, p, q, beside
    <2>5. temporary_count(u, b) \in 0..Width[h - 1]
      BY <1>3, <2>2
    <2>6. Width[h] = 2 * Width[h - 1] /\ Width[h - 1] \in Nat /\ Width[h - 1] >= 1
      BY <2>1, WidthIs, WidthPositive
    <2>7. count(h - 1) = Width[h - 1] /\ temporary_count(u, b) = Width[h - 1]
      <3> DEFINE c == count(h - 1)
                 d == temporary_count(u, b)
                 w == Width[h - 1]
      <3>1. count(h) = Width[h]
        OBVIOUS
      <3>2. c + d = 2 * w
        BY <2>4, <2>6, <3>1
      <3>3. c \in 0..w /\ d \in 0..w /\ w \in Nat
        BY <2>4, <2>5, <2>6
      <3> HIDE DEF c, d, w
      <3>4. c = w /\ d = w
        BY <3>2, <3>3
      <3> QED
        BY <3>4 DEF c, d, w
    <2>8. FullIn(t, b)
      <3>1. b \in DOMAIN t.temp /\ t.temp[b] = Width[h - 1]
        BY <1>2, <2>6, <2>7 DEF temporary_count
      <3> QED
        BY <2>2, <3>1 DEF FullIn
    <2>9. /\ RightEdge(Above(n, h - 1)) <= u.next
          /\ \A g \in n[1]..((h - 1) - 1) : FullIn(t, beside(g)) /\ Full(g)
      BY <1>8, <2>1, <2>7
    <2>10. RightEdge(p) <= u.next
      <3>1. RightEdge(b) <= t.next
        BY <1>2, <2>8 DEF TemporaryBelow, FullIn
      <3>2. RightEdge(RightChild(p)) = RightEdge(p)
        BY <2>3, ChildrenAre
      <3>3. RightChild(p) = a \/ RightChild(p) = b
        BY <2>2, <2>3
      <3>4. RightEdge(a) <= u.next
        BY <2>9 DEF a
      <3>5. RightEdge(b) \in Nat
        BY <2>2, NodeIs
      <3>6. RightEdge(b) <= u.next
        BY <1>1, <3>1, <3>5
      <3> QED
        BY <3>2, <3>3, <3>4, <3>6
    <2>11. ASSUME NEW g \in n[1]..(h - 1) PROVE FullIn(t, beside(g)) /\ Full(g)
      <3>1. CASE g = h - 1
        BY <2>7, <2>8, <3>1 DEF b
      <3>2. CASE g # h - 1
        <4>1. g \in n[1]..((h - 1) - 1)
          BY <1>1, <3>2
        <4> QED
          BY <2>9, <4>1
      <3> QED
        BY <3>1, <3>2
    <2> QED
      BY <2>10, <2>11 DEF p
  <1>9. 0..HEIGHT \subseteq S
    <2> HIDE DEF S
    <2> QED
      BY <1>1, <1>7, <1>8, IntervalInduction
  <1>10. m[1] \in n[1]..HEIGHT /\ m = Above(n, m[1])
    BY <1>1, PathIs
  <1>11. Full(m[1])
    BY DEF FullIn, Adds, Wrote, count
  <1>12. m[1] \in 0..HEIGHT /\ n[1] <= m[1]
    BY <1>1, <1>10
  <1>13. /\ RightEdge(Above(n, m[1])) <= u.next
         /\ \A g \in n[1]..(m[1] - 1) : FullIn(t, beside(g)) /\ Full(g)
    BY <1>9, <1>11, <1>12
  <1>14. RightEdge(m) <= v.next
    BY <1>1, <1>10, <1>13
  <1>15. ASSUME NEW h \in n[1]..(m[1] - 1) PROVE FullIn(v, Above(n, h))
    <2>1. h \in n[1]..HEIGHT /\ h \in 0..HEIGHT
      BY <1>1, <1>10
    <2>2. Above(n, h) \in Path(n) /\ Above(n, h)[1] = h
      BY <1>1, <2>1, PathHas
    <2>3. count(h) = Width[h] /\ Width[h] \in Nat /\ Width[h] >= 1
      BY <1>13, <2>1, WidthPositive
    <2>4. Above(n, h) \in DOMAIN v.temp /\ v.temp[Above(n, h)] = count(h)
      <3> DEFINE a == Above(n, h)
      <3>1. a \in Path(n) /\ a[1] = h
        BY <2>2
      <3> HIDE DEF a
      <3>2. Counted(u, n, low)[a[1]] = Width[h]
        BY <2>3, <3>1 DEF count
      <3>3. a \in DOMAIN v.temp /\ v.temp[a] = Counted(u, n, low)[a[1]]
        BY <2>3, <3>1, <3>2 DEF Adds, Wrote
      <3> QED
        BY <3>1, <3>3 DEF a, count
    <2> QED
      BY <2>2, <2>3, <2>4 DEF FullIn
  <1> QED
    BY <1>13, <1>14, <1>15

\* The temporary leaves are below stored nodes as they were.
LEMMA AddedTemporary ==
  ASSUME NEW t, NEW L, NEW n, NEW s, NEW M, NEW u, NEW v, NEW low, Adds(t, L, n, s, M, u, v, low)
  PROVE  TemporaryBelow(v)
  <1>1. /\ n \in Node /\ n[1] \in Nat /\ HEIGHT \in Nat
        /\ v.next = u.next /\ u.next \in Nat /\ t.next \in Nat /\ t.next <= u.next
    BY AddedRead, NodeIs, SizesAssumption
  <1>2. u.temp = t.temp /\ u.leaves = t.leaves /\ Typed(t) /\ TemporaryBelow(t) /\ Typed(v)
    BY AddedTyped DEF Adds, EndedBehind, Usable
  <1>3. \A k : k \notin Path(n) =>
          /\ k \in DOMAIN v.leaves <=> k \in DOMAIN t.leaves
          /\ FullIn(v, k) <=> FullIn(t, k)
    BY <1>2 DEF Adds, Wrote, FullIn
  <1>4. \A k \in DOMAIN v.leaves : k \in Node
    BY <1>2, PartialIs DEF Typed, Forest
  <1>5. \A k : FullIn(v, k) => k \in DOMAIN v.leaves
    BY <1>2 DEF Typed, FullIn
  <1>6. ASSUME NEW k \in Node, NEW p \in Ancestors(k), p \notin Path(n) PROVE k \notin Path(n)
    <2> SUFFICES ASSUME k \in Path(n) PROVE FALSE
      OBVIOUS
    <2>1. Ancestors(k) \subseteq Ancestors(n)
      BY <1>1, PathIs
    <2> QED
      BY <1>6, <2>1 DEF Path
  <1>7. ASSUME NEW m \in DOMAIN v.temp, FullIn(v, m)
        PROVE  RightEdge(m) <= v.next
    <2>1. CASE m \in Path(n)
      BY <1>7, <2>1, FullPath
    <2>2. CASE m \notin Path(n)
      <3>1. RightEdge(m) <= t.next
        BY <1>2, <1>3, <1>7, <2>2 DEF TemporaryBelow, FullIn
      <3>2. RightEdge(m) \in Nat
        BY <1>4, <1>5, <1>7, NodeIs
      <3> QED
        BY <1>1, <3>1, <3>2
    <2> QED
      BY <2>1, <2>2
  <1>8. ASSUME NEW m \in DOMAIN v.temp, FullIn(v, m), NEW k \in DOMAIN v.leaves, m \in Ancestors(k)
        PROVE  FullIn(v, k) /\ Above(k, k[1] + 1) \in DOMAIN v.leaves
    <2> DEFINE p == Above(k, k[1] + 1)
    <2>1. k \in Node /\ m \in Node /\ k[1] < m[1]
      BY <1>4, <1>8, AboveHas
    <2>2. p \in Node /\ p[1] = k[1] + 1 /\ (p = m \/ m \in Ancestors(p)) /\ p \in Ancestors(k)
      BY <1>8, <2>1, ParentBelow
    <2>3. CASE k \in Path(n)
      <3>1. k[1] \in n[1]..HEIGHT /\ k = Above(n, k[1]) /\ Ancestors(k) \subseteq Ancestors(n)
        BY <1>1, <2>3, PathIs
      <3>2. m \in Path(n) /\ p \in Path(n)
        BY <1>8, <2>2, <3>1 DEF Path
      <3>3. m[1] \in n[1]..HEIGHT /\ p = Above(n, p[1])
        <4> HIDE DEF p
        <4> QED
          BY <1>1, <3>2, PathIs
      <3>4. k[1] \in n[1]..(m[1] - 1)
        BY <1>1, <2>1, <3>1, <3>3
      <3>5. FullIn(v, Above(n, k[1]))
        BY <1>8, <3>2, <3>4, FullPath
      <3>6. FullIn(v, p)
        <4> HIDE DEF p
        <4>1. CASE p = m
          BY <1>8, <4>1
        <4>2. CASE m \in Ancestors(p)
          <5>1. p[1] < m[1]
            BY <2>2, <4>2, AboveHas
          <5>2. p[1] \in n[1]..(m[1] - 1)
            BY <1>1, <2>2, <3>1, <3>3, <5>1
          <5>3. FullIn(v, Above(n, p[1]))
            BY <1>8, <3>2, <5>2, FullPath
          <5> QED
            BY <3>3, <5>3
        <4> QED
          BY <2>2, <4>1, <4>2
      <3>7. FullIn(v, k)
        BY <3>1, <3>5
      <3> QED
        BY <1>5, <3>6, <3>7
    <2>4. CASE k \notin Path(n)
      <3>1. k \in DOMAIN t.leaves /\ Apart(k, n)
        BY <2>4, AddedApart
      <3>2. ASSUME NEW r \in Node, r \notin Path(n), FullIn(t, r), r \in Ancestors(k)
            PROVE  FullIn(v, k) /\ p \in DOMAIN v.leaves
        <4>1. FullIn(t, k) /\ p \in DOMAIN t.leaves
          BY <1>2, <3>1, <3>2 DEF TemporaryBelow, FullIn
        <4>2. p \notin Path(n)
          <5>1. p = r \/ r \in Ancestors(p)
            BY <2>1, <3>2, ParentBelow
          <5> QED
            BY <1>6, <2>2, <3>2, <5>1
        <4> QED
          BY <1>3, <2>4, <4>1, <4>2
      <3>3. CASE m \notin Path(n)
        <4>1. FullIn(t, m)
          BY <1>3, <1>8, <3>3
        <4> QED
          BY <1>8, <2>1, <3>2, <3>3, <4>1
      <3>4. CASE m = n
        <4>1. LeftEdge(n) <= LeftEdge(k) /\ RightEdge(k) <= RightEdge(n)
          BY <1>8, <2>1, <3>4, AboveHas
        <4>2. /\ LeftEdge(k) \in Nat /\ RightEdge(k) \in Nat /\ LeftEdge(k) < RightEdge(k)
              /\ LeftEdge(n) \in Nat /\ RightEdge(n) \in Nat
          BY <1>1, <2>1, NodeIs
        <4> QED
          BY <3>1, <4>1, <4>2 DEF Apart
      <3>5. CASE m \in Ancestors(n)
        <4>1. PICK h \in n[1]..(m[1] - 1) :
                k = Sibling(Above(n, h)) \/ Sibling(Above(n, h)) \in Ancestors(k)
          BY <1>1, <1>8, <2>1, <2>4, <3>1, <3>5, BelowPath
        <4> DEFINE b == Sibling(Above(n, h))
                   q == Above(n, h + 1)
        <4>2. m \in Path(n)
          BY <3>5 DEF Path
        <4>3. m[1] \in n[1]..HEIGHT /\ m = Above(n, m[1])
          BY <1>1, <4>2, PathIs
        <4>4. h \in n[1]..(HEIGHT - 1) /\ h + 1 \in n[1]..HEIGHT /\ h < m[1] /\ h \in Nat /\ m[1] \in Nat
          BY <1>1, <4>3
        <4>5. FullIn(t, b)
          BY <1>8, <4>2, FullPath
        <4>6. b \in Node /\ b \notin Path(n) /\ b[1] = h /\ Ancestors(b) = {q} \cup Ancestors(q)
              /\ q \in Ancestors(n) /\ q[1] = h + 1
          BY <1>1, <4>4, Beside
        <4> HIDE DEF b
        <4>7. CASE b \in Ancestors(k)
          BY <3>2, <4>5, <4>6, <4>7
        <4>8. CASE k = b
          <5>1. FullIn(v, k)
            BY <1>3, <2>4, <4>5, <4>8
          <5>2. p = q
            <6>1. p \in Ancestors(b) /\ p[1] = h + 1
              BY <2>2, <4>6, <4>8
            <6> HIDE DEF p, q
            <6>2. p \in Ancestors(n)
              <7>1. Ancestors(q) \subseteq Ancestors(n)
                BY <1>1, <4>6, AboveTransitive
              <7> QED
                BY <4>6, <6>1, <7>1
            <6>3. p \in Path(n)
              BY <6>2 DEF Path
            <6>4. p = Above(n, p[1])
              BY <1>1, <6>3, PathIs
            <6> QED
              BY <6>1, <6>4 DEF q
          <5>3. FullIn(v, q)
            <6>1. CASE h + 1 = m[1]
              BY <1>8, <4>3, <6>1
            <6>2. CASE h + 1 # m[1]
              <7>1. h + 1 \in n[1]..(m[1] - 1)
                BY <1>1, <4>4, <6>2
              <7> QED
                BY <1>8, <4>2, <7>1, FullPath
            <6> QED
              BY <6>1, <6>2
          <5> QED
            BY <1>5, <5>1, <5>2, <5>3
        <4> QED
          BY <4>1, <4>7, <4>8 DEF b
      <3> QED
        BY <3>3, <3>4, <3>5 DEF Path
    <2> QED
      BY <2>3, <2>4
  <1> QED
    BY <1>7, <1>8 DEF TemporaryBelow

\* After the addition the tree may be used.
LEMMA AddedUsable ==
  ASSUME NEW t, NEW L, NEW n, NEW s, NEW M, NEW u, NEW v, NEW low, Adds(t, L, n, s, M, u, v, low)
  PROVE  Typed(v) /\ Usable(v, M)
  BY AddedHolds, AddedOpen, AddedTyped, AddedTemporary DEF Usable

-----------------------------------------------------------------------------
\* Trees with the same columns and the same end are read alike.
LEMMA SameTree ==
  ASSUME NEW t, NEW L, Typed(t), Usable(t, L), NEW v \in Forest,
         v.leaves = t.leaves, v.temp = t.temp, v.next = t.next, v.first \in {0, t.first}
  PROVE  Typed(v) /\ Usable(v, L)
  <1>1. \A n : get(v, n) = get(t, n)
    BY DEF get
  <1>2. \A m : Linked(v, m) <=> Linked(t, m)
    BY <1>1 DEF Linked
  <1>3. \A n : OpenIn(v, n) <=> OpenIn(t, n)
    BY <1>2 DEF OpenIn
  <1>4. HoldsRoot(v, L)
    BY <1>1 DEF Usable, HoldsRoot, StoredTrue, get_root
  <1>5. LeavesOpen(v)
    BY <1>3 DEF Usable, LeavesOpen
  <1>6. EndOpen(v)
    BY <1>2 DEF Usable, EndOpen
  <1>7. TemporaryBelow(v)
    BY DEF Usable, TemporaryBelow, FullIn
  <1>8. None # 0
    BY SentinelsAssumption
  <1>9. Typed(v)
    BY <1>8 DEF Typed
  <1> QED
    BY <1>4, <1>5, <1>6, <1>7, <1>9 DEF Usable

\* The tree with its indexes moved to a group.
Behind(t, e, s) == update_first_index(update_next_index(t, e), s)

\* What add_hash_at_height leaves of a tree.
AddTo(t, n, hash, temporary) == Last(add_hash_at_height(t, n, hash, temporary))

\* The last write, unless the hash is that of zero notes within the tree.
PathWritten(t, u, n, hash, low, e) ==
  IF hash = zero_note_hashes[n[1]] /\ e < t.next THEN u
  ELSE set_batched(u, PathHashes(u, n, hash), PathCounts(u, n, low))

\* add_hash_at_height moves the indexes and writes the path.
LEMMA AddToIs ==
  ASSUME NEW t, NEW n, n[1] \in {0, OUTPLUSONELOG}, NEW hash, NEW temporary
  PROVE  LET e == calc_next_index(RightEdge(n) - 1)
             u == Behind(t, e, calc_first_index(LeftEdge(n)))
         IN  AddTo(t, n, hash, temporary) = PathWritten(t, u, n, hash, Lowest(temporary), e)
  <1> DEFINE e == calc_next_index(RightEdge(n) - 1)
             t1 == update_next_index(t, e)
             u == update_first_index(t1, calc_first_index(LeftEdge(n)))
             skipped == hash = zero_note_hashes[n[1]] /\ e < t.next
             w == set_batched(u, PathHashes(u, n, hash), PathCounts(u, n, Lowest(temporary)))
             writes == add_hash_at_height(t, n, hash, temporary)
  <1>1. writes = IF skipped THEN <<t1, u>> ELSE <<t1, u, w>>
    BY DEF add_hash_at_height, ClimbHash, ClimbCount, Climbed, Counted, PathHashes, PathCounts, Path, Lowest
  <1> HIDE DEF skipped, w, u, t1, writes
  <1>2. ASSUME skipped PROVE Last(writes) = u
    <2>1. writes = <<t1, u>>
      BY <1>1, <1>2, Zenon
    <2> QED
      BY <2>1, LastOfTwo
  <1>3. ASSUME ~ skipped PROVE Last(writes) = w
    <2>1. writes = <<t1, u, w>>
      BY <1>1, <1>3, Zenon
    <2> QED
      BY <2>1, LastOfThree
  <1>4. Last(writes) = IF skipped THEN u ELSE w
    BY <1>2, <1>3
  <1>5. u = Behind(t, e, calc_first_index(LeftEdge(n)))
    BY DEF u, t1, Behind
  <1>6. AddTo(t, n, hash, temporary) = PathWritten(t, u, n, hash, Lowest(temporary), e)
    BY <1>4 DEF skipped, w, PathWritten, AddTo, writes
  <1> HIDE DEF e
  <1> QED
    BY <1>5, <1>6 DEF e

\* The indexes of a place: the group it is in, and the tree with its end behind it.
LEMMA BehindIs ==
  ASSUME NEW t, Typed(t), NEW L, NEW n, NEW s, NEW M, Placed(t, L, n, s, M)
  PROVE  LET u == Behind(t, s + GroupSize, s)
         IN  /\ calc_next_index(RightEdge(n) - 1) = s + GroupSize
             /\ calc_first_index(LeftEdge(n)) = s
             /\ u \in Forest /\ EndedBehind(t, u, s) /\ u.first = 0
  <1> DEFINE u == Behind(t, s + GroupSize, s)
             t1 == update_next_index(t, s + GroupSize)
  <1>1. /\ s \in Nat /\ GroupSize \in Nat /\ GroupSize >= 1 /\ Whole(s) /\ s <= t.next
        /\ s <= LeftEdge(n) /\ RightEdge(n) <= s + GroupSize /\ n \in Node
    BY GroupSizeIs DEF Placed, Whole
  <1>2. LeftEdge(n) \in Nat /\ RightEdge(n) \in Nat /\ LeftEdge(n) < RightEdge(n)
    BY <1>1, NodeIs
  <1>3. calc_next_index(RightEdge(n) - 1) = s + GroupSize
    <2>1. RightEdge(n) - 1 \in Nat /\ s <= RightEdge(n) - 1 /\ RightEdge(n) - 1 < s + GroupSize
      BY <1>1, <1>2
    <2> QED
      BY <1>1, <2>1, GroupUnique
  <1>4. calc_first_index(LeftEdge(n)) = s
    <2>1. LeftEdge(n) < s + GroupSize
      BY <1>1, <1>2
    <2> QED
      BY <1>1, <1>2, <2>1, GroupUnique
  <1>5. t \in Forest /\ t.next \in Nat /\ t.first \in {0, None} /\ (t.first = None => t.next = 0)
    BY DEF Typed, Whole
  <1>6. s + GroupSize \in Nat
    BY <1>1
  <1>7. /\ t1 \in Forest /\ t1.leaves = t.leaves /\ t1.temp = t.temp /\ t1.first = t.first
        /\ t1.next = IF s + GroupSize >= t.next THEN s + GroupSize ELSE t.next
    BY <1>5, <1>6 DEF update_next_index, Forest
  <1> HIDE DEF t1
  <1>8. t.first = None => s = 0
    BY <1>1, <1>5
  <1>9. None # 0
    BY SentinelsAssumption
  <1>10. /\ u \in Forest /\ u.leaves = t1.leaves /\ u.temp = t1.temp /\ u.next = t1.next
         /\ u.first = IF t1.first = None \/ s < t1.first THEN s ELSE t1.first
    BY <1>1, <1>7 DEF Behind, t1, update_first_index, Forest
  <1> HIDE DEF u
  <1>11. u.first = 0
    <2>1. CASE t.first = None
      BY <1>7, <1>8, <1>10, <2>1
    <2>2. CASE t.first = 0
      BY <1>1, <1>7, <1>9, <1>10, <2>2
    <2> QED
      BY <1>5, <2>1, <2>2
  <1>12. EndedBehind(t, u, s)
    BY <1>7, <1>10 DEF EndedBehind
  <1> QED
    BY <1>3, <1>4, <1>10, <1>11, <1>12 DEF u

\* The leaves of an empty hash.
LEMMA EmptyLeaves ==
  ASSUME NEW n \in Node, NEW L, NEW i \in Below(n)
  PROVE  /\ HashOf(L, n) = zero_note_hashes[n[1]] => L[i] = ZeroNote
         /\ HashOf(L, n) = default_hashes[n[1]] => L[i] = Default
  <1>1. ASSUME HashOf(L, n) = zero_note_hashes[n[1]] PROVE L[i] = ZeroNote
    <2>1. zero_note_hashes[n[1]] = [k \in 1..Width[n[1]] |-> ZeroNote]
      BY EmptyHashes
    <2>2. HashOf(L, n) = [k \in 1..Width[n[1]] |-> ZeroNote]
      BY <1>1, <2>1, Zenon
    <2> QED
      BY <2>2, LeavesOfEqual
  <1>2. ASSUME HashOf(L, n) = default_hashes[n[1]] PROVE L[i] = Default
    <2>1. default_hashes[n[1]] = [k \in 1..Width[n[1]] |-> Default]
      BY EmptyHashes
    <2>2. HashOf(L, n) = [k \in 1..Width[n[1]] |-> Default]
      BY <1>2, <2>1, Zenon
    <2> QED
      BY <2>2, LeavesOfEqual
  <1> QED
    BY <1>1, <1>2

\* An empty hash is that of empty leaves.
LEMMA EmptyFromLeaves ==
  ASSUME NEW n \in Node, NEW L
  PROVE  /\ (\A i \in Below(n) : L[i] = ZeroNote) => HashOf(L, n) = zero_note_hashes[n[1]]
         /\ (\A i \in Below(n) : L[i] = Default) => HashOf(L, n) = default_hashes[n[1]]
  <1>1. ASSUME \A i \in Below(n) : L[i] = ZeroNote PROVE HashOf(L, n) = zero_note_hashes[n[1]]
    <2>1. HashOf(L, n) = [k \in 1..Width[n[1]] |-> ZeroNote]
      BY <1>1, BelowHas DEF HashOf
    <2>2. zero_note_hashes[n[1]] = [k \in 1..Width[n[1]] |-> ZeroNote]
      BY EmptyHashes
    <2> QED
      BY <2>1, <2>2, Zenon
  <1>2. ASSUME \A i \in Below(n) : L[i] = Default PROVE HashOf(L, n) = default_hashes[n[1]]
    <2>1. HashOf(L, n) = [k \in 1..Width[n[1]] |-> Default]
      BY <1>2, BelowHas DEF HashOf
    <2>2. default_hashes[n[1]] = [k \in 1..Width[n[1]] |-> Default]
      BY EmptyHashes
    <2> QED
      BY <2>1, <2>2, Zenon
  <1> QED
    BY <1>1, <1>2

\* When the hash of zero notes is added within the tree nothing changes.
LEMMA PlacedSame ==
  ASSUME NEW t, Typed(t), NEW L, HoldsRoot(t, L), NEW n, NEW s, NEW M, Placed(t, L, n, s, M),
         HashOf(M, n) = zero_note_hashes[n[1]], s + GroupSize < t.next
  PROVE  M = L
  <1>1. /\ n \in Node /\ s \in Nat /\ GroupSize \in Nat /\ RightEdge(n) <= s + GroupSize
        /\ t.next \in Nat /\ Capacity \in Nat
        /\ L \in Vectors(Values) /\ M \in Vectors(Values) /\ FilledTo(L, t.next)
    BY GroupSizeIs DEF Placed, Whole, Typed, HoldsRoot
  <1>2. /\ LeftEdge(n) \in Nat /\ RightEdge(n) \in Nat /\ LeftEdge(n) < RightEdge(n)
        /\ RightEdge(n) <= Capacity
    BY <1>1, NodeIs
  <1>3. HashOf(L, n) = zero_note_hashes[n[1]]
    <2> SUFFICES ASSUME HashOf(L, n) = default_hashes[n[1]] PROVE FALSE
      BY DEF Placed
    <2>2. LeftEdge(n) \in Below(n) /\ LeftEdge(n) \in 0..(Capacity - 1)
      BY <1>1, <1>2 DEF Below
    <2>3. L[LeftEdge(n)] = Default
      BY <1>1, <2>2, EmptyLeaves
    <2>4. t.next <= LeftEdge(n)
      BY <1>1, <2>2, <2>3 DEF FilledTo
    <2> QED
      BY <1>1, <1>2, <2>4
  <1>5. ASSUME NEW i \in 0..(Capacity - 1) PROVE M[i] = L[i]
    <2>1. CASE i < LeftEdge(n) \/ RightEdge(n) <= i
      <3>1. M[i] = IF t.next <= i /\ i < s + GroupSize THEN ZeroNote ELSE L[i]
        BY <2>1 DEF Placed
      <3> QED
        BY <1>1, <3>1
    <2>2. CASE LeftEdge(n) <= i /\ i < RightEdge(n)
      <3>1. i \in Below(n)
        BY <2>2 DEF Below
      <3>2. L[i] = ZeroNote
        BY <1>1, <1>3, <3>1, EmptyLeaves
      <3>3. M[i] = ZeroNote
        BY <1>1, <1>3, <3>1, EmptyLeaves
      <3> QED
        BY <3>2, <3>3
    <2> QED
      BY <1>2, <2>1, <2>2
  <1>6. M = [i \in 0..(Capacity - 1) |-> M[i]] /\ L = [i \in 0..(Capacity - 1) |-> L[i]]
    BY <1>1 DEF Vectors
  <1> QED
    BY <1>5, <1>6, Zenon

\* After add_hash_at_height the tree may be used, and has the leaves it had.
LEMMA AddToUsable ==
  ASSUME NEW t, Typed(t), NEW L, Usable(t, L), NEW n, NEW s, NEW M, Placed(t, L, n, s, M), OpenIn(t, n),
         n[1] \in {0, OUTPLUSONELOG}, NEW temporary \in BOOLEAN,
         temporary => HashOf(M, n) # zero_note_hashes[n[1]]
  PROVE  LET v == AddTo(t, n, HashOf(M, n), temporary)
         IN  /\ Typed(v) /\ Usable(v, M)
             /\ \A m \in DOMAIN t.leaves : m[1] = 0 => m \in DOMAIN v.leaves
  <1> DEFINE u == Behind(t, s + GroupSize, s)
             low == Lowest(temporary)
             v == AddTo(t, n, HashOf(M, n), temporary)
  <1>1. HoldsRoot(t, L) /\ n \in Node /\ n[1] \in Nat /\ M \in Vectors(Values)
    BY NodeIs DEF Usable, Placed
  <1>2. u \in Forest /\ EndedBehind(t, u, s) /\ u.first = 0
    BY BehindIs
  <1>3. v = PathWritten(t, u, n, HashOf(M, n), low, s + GroupSize)
    <2>1. calc_next_index(RightEdge(n) - 1) = s + GroupSize /\ calc_first_index(LeftEdge(n)) = s
      BY BehindIs
    <2>2. AddTo(t, n, HashOf(M, n), temporary)
            = PathWritten(t, Behind(t, calc_next_index(RightEdge(n) - 1), calc_first_index(LeftEdge(n))),
                          n, HashOf(M, n), Lowest(temporary), calc_next_index(RightEdge(n) - 1))
      BY AddToIs
    <2> QED
      BY <2>1, <2>2
  <1>4. low \in 0..1 /\ (low = 1 => HashOf(M, n) # zero_note_hashes[n[1]])
    BY DEF Lowest
  <1> HIDE DEF u, v, low
  <1>5. CASE HashOf(M, n) = zero_note_hashes[n[1]] /\ s + GroupSize < t.next
    <2>1. v = u
      BY <1>3, <1>5 DEF PathWritten
    <2>2. M = L
      BY <1>1, <1>5, PlacedSame
    <2>3. u.leaves = t.leaves /\ u.temp = t.temp /\ u.next = t.next
      <3>1. s \in Nat /\ GroupSize \in Nat /\ t.next \in Nat
        BY GroupSizeIs DEF Placed, Whole, Typed
      <3> QED
        BY <1>2, <1>5, <3>1 DEF EndedBehind
    <2>4. Typed(u) /\ Usable(u, L)
      BY <1>2, <2>3, SameTree
    <2> QED
      BY <2>1, <2>2, <2>3, <2>4 DEF v
  <1>6. CASE ~ (HashOf(M, n) = zero_note_hashes[n[1]] /\ s + GroupSize < t.next)
    <2>1. v = set_batched(u, PathHashes(u, n, HashOf(M, n)), PathCounts(u, n, low))
      BY <1>3, <1>6 DEF PathWritten
    <2>2. \A h \in n[1]..(HEIGHT - 1) : get(u, Sibling(Above(n, h))) = HashOf(M, Sibling(Above(n, h)))
      BY <1>1, <1>2, BesideTrue
    <2>3. Wrote(u, v, n, M, low)
      BY <1>1, <1>2, <1>4, <2>1, <2>2, PathWrites DEF EndedBehind
    <2>4. Adds(t, L, n, s, M, u, v, low)
      BY <1>2, <1>4, <2>3 DEF Adds
    <2>5. Typed(v) /\ Usable(v, M)
      BY <2>4, AddedUsable
    <2>6. ASSUME NEW m \in DOMAIN t.leaves, m[1] = 0 PROVE m \in DOMAIN v.leaves
      <3>1. m \notin Ancestors(n)
        <4> SUFFICES ASSUME m \in Ancestors(n) PROVE FALSE
          OBVIOUS
        <4>1. n[1] < m[1]
          BY <1>1, AboveHas
        <4> QED
          BY <1>1, <2>6, <4>1
      <3>2. m # n
        BY <1>1, <1>2, <3>1, StoredApart
      <3>3. m \notin Path(n)
        BY <3>1, <3>2 DEF Path
      <3> QED
        BY <1>2, <2>3, <3>3 DEF Wrote, EndedBehind
    <2> QED
      BY <2>5, <2>6 DEF v
  <1> QED
    BY <1>5, <1>6

-----------------------------------------------------------------------------
\* The assumption about the leaves, in the terms of the lemmas.
LEMMA LeafFacts ==
  /\ Default \notin LeafValues /\ ZeroNote \in LeafValues /\ LeafValues \subseteq Values
  /\ Default \in Values /\ ZeroNote # Default
  /\ LeafHashes \subseteq LeafValues /\ ZeroNote \notin LeafHashes
  /\ Commitments \subseteq Rows(GroupSize, LeafValues)
  BY LeafAssumption, SentinelsAssumption DEF LeafValues, Values, Rows

\* The ledger with the leaves of a node replaced is what the placement describes.
LEMMA ReplacedIs ==
  ASSUME NEW n \in Node, n[1] \in {0, OUTPLUSONELOG}, Typed(tree), Usable(tree, ledger),
         NEW s, s = calc_first_index(LeftEdge(n)), s <= tree.next,
         RightEdge(n) <= s + GroupSize, s + GroupSize <= Capacity,
         NEW hash \in Rows(Width[n[1]], LeafValues),
         HashOf(ledger, n) \in {default_hashes[n[1]], zero_note_hashes[n[1]]}
  PROVE  /\ Placed(tree, ledger, n, s, Replaced(n, hash))
         /\ HashOf(Replaced(n, hash), n) = hash
  <1> DEFINE M == Replaced(n, hash)
             new(i) == IF i >= LeftEdge(n) /\ i < RightEdge(n) THEN hash[i - LeftEdge(n) + 1]
                       ELSE IF i >= tree.next /\ i < s + GroupSize THEN ZeroNote ELSE ledger[i]
  <1>1. /\ LeftEdge(n) \in Nat /\ RightEdge(n) = LeftEdge(n) + Width[n[1]] /\ Width[n[1]] \in Nat
        /\ RightEdge(n) <= Capacity /\ RightEdge(n) \in Nat
    BY NodeIs
  <1>2. Whole(s) /\ calc_next_index(LeftEdge(n)) = s + GroupSize /\ s <= LeftEdge(n)
    BY <1>1, GroupOf
  <1>3. ledger \in Vectors(Values)
    BY DEF Usable, HoldsRoot
  <1>4. M = [i \in 0..(Capacity - 1) |-> new(i)]
    BY <1>2 DEF Replaced, Index
  <1>5. ASSUME NEW i \in Below(n) PROVE new(i) = hash[i - LeftEdge(n) + 1] /\ new(i) \in LeafValues
    <2>1. i - LeftEdge(n) + 1 \in 1..Width[n[1]] /\ i >= LeftEdge(n) /\ i < RightEdge(n)
      BY <1>1 DEF Below
    <2>2. hash[i - LeftEdge(n) + 1] \in LeafValues
      BY <2>1 DEF Rows
    <2> QED
      BY <2>1, <2>2
  <1>6. ASSUME NEW i \in 0..(Capacity - 1), i < LeftEdge(n) \/ RightEdge(n) <= i
        PROVE  new(i) = IF tree.next <= i /\ i < s + GroupSize THEN ZeroNote ELSE ledger[i]
    <2>1. ~ (i >= LeftEdge(n) /\ i < RightEdge(n))
      BY <1>1, <1>6
    <2>2. tree.next \in Nat
      BY DEF Typed, Whole
    <2>3. i >= tree.next <=> tree.next <= i
      BY <2>2
    <2> QED
      BY <2>1, <2>3
  <1>7. ASSUME NEW i \in 0..(Capacity - 1) PROVE new(i) \in Values
    <2>1. CASE i < LeftEdge(n) \/ RightEdge(n) <= i
      <3>1. ledger[i] \in Values
        BY <1>3 DEF Vectors
      <3> HIDE DEF new
      <3> QED
        BY <1>6, <2>1, <3>1, LeafFacts
    <2>2. CASE LeftEdge(n) <= i /\ i < RightEdge(n)
      <3>1. i \in Below(n)
        BY <2>2 DEF Below
      <3> HIDE DEF new
      <3> QED
        BY <1>5, <3>1, LeafFacts
    <2> QED
      BY <1>1, <2>1, <2>2
  <1>8. \A i \in Below(n) : i \in 0..(Capacity - 1)
    BY BelowIs
  <1> HIDE DEF new
  <1>9. M \in Vectors(Values)
    BY <1>4, <1>7 DEF Vectors
  <1>10. \A i \in 0..(Capacity - 1) :
           i < LeftEdge(n) \/ RightEdge(n) <= i =>
             M[i] = IF tree.next <= i /\ i < s + GroupSize THEN ZeroNote ELSE ledger[i]
    BY <1>4, <1>6
  <1>11. \A i \in Below(n) : M[i] # Default
    BY <1>4, <1>5, <1>8, LeafFacts
  <1>12. n[1] <= OUTPLUSONELOG
    BY SizesAssumption
  <1>13. HashOf(M, n) = hash
    <2>1. ASSUME NEW k \in 1..Width[n[1]] PROVE M[LeftEdge(n) + k - 1] = hash[k]
      <3>1. LeftEdge(n) + k - 1 \in Below(n)
        BY BelowHas
      <3>2. (LeftEdge(n) + k - 1) - LeftEdge(n) + 1 = k
        BY <1>1
      <3> QED
        BY <1>4, <1>5, <1>8, <3>1, <3>2
    <2>2. HashOf(M, n) = [k \in 1..Width[n[1]] |-> M[LeftEdge(n) + k - 1]]
      BY DEF HashOf
    <2>3. hash = [k \in 1..Width[n[1]] |-> hash[k]]
      BY DEF Rows
    <2> HIDE DEF M
    <2> QED
      BY <2>1, <2>2, <2>3, Zenon
  <1> HIDE DEF M
  <1>14. Placed(tree, ledger, n, s, M)
    BY <1>2, <1>9, <1>10, <1>11, <1>12 DEF Placed
  <1> QED
    BY <1>13, <1>14 DEF M

\* A hash is added: what the three operations that add one have in common.
LEMMA AddKeeps ==
  ASSUME NEW n \in Node, n[1] \in {0, OUTPLUSONELOG}, Typed(tree), Usable(tree, ledger),
         NEW s, s = calc_first_index(LeftEdge(n)), s <= tree.next,
         RightEdge(n) <= s + GroupSize, s + GroupSize <= Capacity,
         NEW hash \in Rows(Width[n[1]], LeafValues),
         HashOf(ledger, n) \in {default_hashes[n[1]], zero_note_hashes[n[1]]},
         OpenIn(tree, n), NEW temporary \in BOOLEAN, temporary => hash # zero_note_hashes[n[1]],
         tree' = AddTo(tree, n, hash, temporary), ledger' = Replaced(n, hash)
  PROVE  /\ Typed(tree') /\ Usable(tree', ledger') /\ ledger' \in Vectors(Values)
         /\ \A m \in DOMAIN tree.leaves : m[1] = 0 => m \in DOMAIN tree'.leaves
  <1>1. Placed(tree, ledger, n, s, ledger') /\ HashOf(ledger', n) = hash
    BY ReplacedIs
  <1>2. ledger' \in Vectors(Values)
    BY <1>1 DEF Placed
  <1>3. tree' = AddTo(tree, n, HashOf(ledger', n), temporary)
    BY <1>1
  <1>4. temporary => HashOf(ledger', n) # zero_note_hashes[n[1]]
    BY <1>1
  <1>5. LET v == AddTo(tree, n, HashOf(ledger', n), temporary)
        IN  /\ Typed(v) /\ Usable(v, ledger')
            /\ \A m \in DOMAIN tree.leaves : m[1] = 0 => m \in DOMAIN v.leaves
    BY <1>1, <1>4, AddToUsable
  <1> QED
    BY <1>2, <1>3, <1>5

\* A leaf as the place of a hash.
LEMMA LeafPlace ==
  ASSUME NEW index \in 0..(Capacity - 1), NEW s, s = calc_first_index(index)
  PROVE  LET n == <<0, index>>
         IN  /\ n \in Node /\ n[1] = 0 /\ LeftEdge(n) = index /\ Width[n[1]] = 1
             /\ s = calc_first_index(LeftEdge(n)) /\ RightEdge(n) <= s + GroupSize
             /\ s + GroupSize <= Capacity
             /\ \A hash \in LeafValues : <<hash>> \in Rows(Width[n[1]], LeafValues)
  <1> DEFINE n == <<0, index>>
  <1>1. n \in Node /\ n[1] = 0 /\ LeftEdge(n) = index /\ RightEdge(n) = index + 1
    BY LeafNode
  <1> HIDE DEF n
  <1>2. GroupSize \in Nat /\ GroupSize >= 1 /\ Capacity \in Nat /\ Whole(Capacity)
    BY GroupSizeIs DEF Whole
  <1>3. index \in Nat /\ index < Capacity
    BY <1>2
  <1>4. Whole(s) /\ s <= index /\ index < s + GroupSize /\ s \in Nat
    BY <1>3, GroupOf DEF Whole
  <1>5. s + GroupSize <= Capacity
    BY <1>2, <1>3, <1>4, NextWhole
  <1>6. Width[n[1]] = 1
    BY <1>1, WidthIs
  <1>7. \A hash \in LeafValues : <<hash>> \in [1..1 -> LeafValues]
    OBVIOUS
  <1>8. \A hash \in LeafValues : <<hash>> \in Rows(Width[n[1]], LeafValues)
    BY <1>6, <1>7 DEF Rows
  <1>9. RightEdge(n) <= s + GroupSize
    BY <1>1, <1>2, <1>3, <1>4
  <1> QED
    BY <1>1, <1>4, <1>5, <1>6, <1>8, <1>9 DEF n

\* The hash of a leaf that is not set.
LEMMA LeafUnset ==
  ASSUME NEW index \in 0..(Capacity - 1), NEW L, L[index] \in {Default, ZeroNote}
  PROVE  HashOf(L, <<0, index>>) \in {default_hashes[0], zero_note_hashes[0]}
  <1> DEFINE n == <<0, index>>
  <1>1. n \in Node /\ n[1] = 0 /\ LeftEdge(n) = index /\ RightEdge(n) = index + 1
    BY LeafNode
  <1> HIDE DEF n
  <1>2. \A i \in Below(n) : i = index
    BY <1>1 DEF Below
  <1>3. CASE L[index] = Default
    <2>0. \A i \in Below(n) : L[i] = Default
      BY <1>2, <1>3
    <2>1. HashOf(L, n) = default_hashes[n[1]]
      BY <1>1, <2>0, EmptyFromLeaves
    <2> QED
      BY <1>1, <2>1 DEF n
  <1>4. CASE L[index] = ZeroNote
    <2>0. \A i \in Below(n) : L[i] = ZeroNote
      BY <1>2, <1>4
    <2>1. HashOf(L, n) = zero_note_hashes[n[1]]
      BY <1>1, <2>0, EmptyFromLeaves
    <2> QED
      BY <1>1, <2>1 DEF n
  <1> QED
    BY <1>3, <1>4

\* Permanent leaves, as an argument of add_hash.
Permanent == FALSE

\* The leaves that are stored stay stored.
LeavesStay == \A m \in DOMAIN tree.leaves : m[1] = 0 => m \in DOMAIN tree'.leaves

\* add_hash.
LEMMA AddHashKeeps ==
  ASSUME IInv, NEW index \in Index, NEW hash \in {ZeroNote} \cup LeafHashes, NEW temporary \in BOOLEAN,
         temporary => hash \in LeafHashes, AddHash(index, hash, temporary)
  PROVE  IInv' /\ LeavesStay
  <1> DEFINE n == <<0, index>>
             s == calc_first_index(index)
  <1>1. intact /\ Typed(tree) /\ Usable(tree, ledger) /\ UNCHANGED intact
    BY DEF IInv, AddHash
  <1>2. index \in 0..(Capacity - 1) /\ hash \in LeafValues
    BY LeafFacts DEF Index
  <1>3. /\ n \in Node /\ n[1] = 0 /\ Width[n[1]] = 1
        /\ s = calc_first_index(LeftEdge(n)) /\ RightEdge(n) <= s + GroupSize
        /\ s + GroupSize <= Capacity
        /\ <<hash>> \in Rows(Width[n[1]], LeafValues)
    BY <1>2, LeafPlace
  <1>4. HashOf(ledger, n) \in {default_hashes[n[1]], zero_note_hashes[n[1]]}
    <2>1. ledger[index] \in {Default, ZeroNote}
      BY DEF AddHash
    <2> QED
      BY <1>2, <1>3, <2>1, LeafUnset
  <1>5. s <= tree.next /\ OpenIn(tree, n)
    BY DEF AddHash, Open, OpenIn, Linked
  <1>6. temporary => <<hash>> # zero_note_hashes[n[1]]
    <2> SUFFICES ASSUME temporary, <<hash>> = zero_note_hashes[n[1]] PROVE FALSE
      OBVIOUS
    <2>1. zero_note_hashes[n[1]] = [k \in 1..1 |-> ZeroNote]
      BY <1>3, EmptyHashes
    <2>2. <<hash>>[1] = ZeroNote
      BY <2>1
    <2> QED
      BY <2>2, LeafFacts
  <1>7. tree' = AddTo(tree, n, <<hash>>, temporary) /\ ledger' = Replaced(n, <<hash>>)
    BY DEF AddHash, AddTo
  <1> HIDE DEF n, s
  <1> DEFINE row == <<hash>>
  <1> HIDE DEF row
  <1>8. /\ row \in Rows(Width[n[1]], LeafValues)
        /\ temporary => row # zero_note_hashes[n[1]]
        /\ tree' = AddTo(tree, n, row, temporary) /\ ledger' = Replaced(n, row)
    BY <1>3, <1>6, <1>7 DEF row
  <1>9. /\ Typed(tree') /\ Usable(tree', ledger') /\ ledger' \in Vectors(Values)
        /\ \A m \in DOMAIN tree.leaves : m[1] = 0 => m \in DOMAIN tree'.leaves
    BY <1>1, <1>3, <1>4, <1>5, <1>8, AddKeeps
  <1> QED
    BY <1>1, <1>9 DEF IInv, LeavesStay

\* append_hash.
LEMMA AppendHashKeeps ==
  ASSUME IInv, NEW hash \in LeafHashes, NEW temporary \in BOOLEAN, AppendHash(hash, temporary)
  PROVE  IInv' /\ LeavesStay
  <1> DEFINE n == <<0, tree.next>>
             s == tree.next
  <1>1. intact /\ Typed(tree) /\ Usable(tree, ledger) /\ UNCHANGED intact
    BY DEF IInv, AppendHash
  <1>2. tree.next \in 0..(Capacity - 1) /\ hash \in LeafValues /\ Whole(tree.next)
    <2>1. tree.next < MaxLeaves /\ MaxLeaves \in 0..Capacity
      BY BoundsAssumption DEF AppendHash
    <2> QED
      BY <1>1, <2>1, LeafFacts, GroupSizeIs DEF Typed, Whole
  <1>3. s = calc_first_index(tree.next)
    BY <1>2, GroupUnique, GroupSizeIs DEF Whole
  <1>4. /\ n \in Node /\ n[1] = 0 /\ Width[n[1]] = 1 /\ LeftEdge(n) = tree.next
        /\ s = calc_first_index(LeftEdge(n)) /\ RightEdge(n) <= s + GroupSize
        /\ s + GroupSize <= Capacity
        /\ <<hash>> \in Rows(Width[n[1]], LeafValues)
    BY <1>2, <1>3, LeafPlace
  <1>5. HashOf(ledger, n) \in {default_hashes[n[1]], zero_note_hashes[n[1]]}
    <2>1. ledger[tree.next] = Default
      BY <1>1, <1>2 DEF Usable, HoldsRoot, FilledTo, Whole
    <2> QED
      BY <1>2, <1>4, <2>1, LeafUnset
  <1>6. s <= tree.next
    BY <1>2
  <1>7. OpenIn(tree, n)
    <2> SUFFICES ASSUME NEW m \in Ancestors(n), m \in DOMAIN tree.leaves PROVE Linked(tree, m)
      BY DEF OpenIn
    <2>1. m \in Node /\ RightEdge(n) <= RightEdge(m) /\ RightEdge(n) \in Nat /\ RightEdge(m) \in Nat
      BY <1>4, AboveHas, NodeIs
    <2>2. RightEdge(n) = tree.next + 1
      BY <1>2, LeafNode
    <2>3. LeftEdge(m) < tree.next \/ LeftEdge(m) >= tree.next
      BY <2>1, <1>2, NodeIs
    <2>4. LeftEdge(m) < tree.next
      BY <1>1 DEF Usable, HoldsRoot, StoredTrue
    <2>5. tree.next < RightEdge(m)
      BY <1>2, <2>1, <2>2
    <2> QED
      BY <1>1, <2>4, <2>5 DEF Usable, EndOpen
  <1>8. <<hash>> # zero_note_hashes[n[1]]
    <2> SUFFICES ASSUME <<hash>> = zero_note_hashes[n[1]] PROVE FALSE
      OBVIOUS
    <2>1. zero_note_hashes[n[1]] = [k \in 1..1 |-> ZeroNote]
      BY <1>4, EmptyHashes
    <2>2. <<hash>>[1] = ZeroNote
      BY <2>1
    <2> QED
      BY <2>2, LeafFacts
  <1>9. tree' = AddTo(tree, n, <<hash>>, temporary) /\ ledger' = Replaced(n, <<hash>>)
    BY DEF AppendHash, AddTo, append_hash
  <1> HIDE DEF n, s
  <1> DEFINE row == <<hash>>
  <1> HIDE DEF row
  <1>10. /\ row \in Rows(Width[n[1]], LeafValues)
         /\ temporary => row # zero_note_hashes[n[1]]
         /\ tree' = AddTo(tree, n, row, temporary) /\ ledger' = Replaced(n, row)
    BY <1>4, <1>8, <1>9 DEF row
  <1>11. /\ Typed(tree') /\ Usable(tree', ledger') /\ ledger' \in Vectors(Values)
         /\ \A m \in DOMAIN tree.leaves : m[1] = 0 => m \in DOMAIN tree'.leaves
    BY <1>1, <1>4, <1>5, <1>6, <1>7, <1>10, AddKeeps
  <1> QED
    BY <1>1, <1>11 DEF IInv, LeavesStay

\* add_commitment.
LEMMA AddCommitmentKeeps ==
  ASSUME IInv, NEW group \in 0..(Capacity \div GroupSize - 1), NEW hash \in Commitments,
         AddCommitment(group, hash)
  PROVE  IInv' /\ LeavesStay
  <1> DEFINE n == <<OUTPLUSONELOG, group>>
             s == LeftEdge(n)
  <1>1. intact /\ Typed(tree) /\ Usable(tree, ledger) /\ UNCHANGED intact
    BY DEF IInv, AddCommitment
  <1>2. /\ GroupSize \in Nat /\ GroupSize >= 1 /\ Capacity \in Nat /\ OUTPLUSONELOG \in 0..HEIGHT
        /\ HEIGHT \in Nat /\ GroupSize = Width[OUTPLUSONELOG]
    BY GroupSizeIs, SizesAssumption DEF GroupSize
  <1>3. group \in Nat
    <2>1. Capacity \div GroupSize \in Nat
      BY <1>2, Division
    <2> QED
      BY <2>1
  <1>4. RightEdge(n) = group * GroupSize + GroupSize /\ LeftEdge(n) = group * GroupSize /\ group * GroupSize \in Nat
    BY <1>2, <1>3, ProductFacts DEF RightEdge, LeftEdge
  <1>5. RightEdge(n) <= Capacity
    <2>1. RightEdge(n) <= MaxLeaves /\ MaxLeaves \in 0..Capacity
      BY BoundsAssumption DEF AddCommitment
    <2> QED
      BY <1>2, <1>4, <2>1
  <1>6. n \in Node
    <2> DEFINE w == Width[HEIGHT - OUTPLUSONELOG]
    <2>1. HEIGHT - OUTPLUSONELOG \in 0..HEIGHT /\ OUTPLUSONELOG + (HEIGHT - OUTPLUSONELOG) = HEIGHT
      BY <1>2
    <2>2. w \in Nat
      BY <2>1, WidthIs
    <2>3. Capacity = GroupSize * w
      <3>1. Width[OUTPLUSONELOG + (HEIGHT - OUTPLUSONELOG)] = Width[OUTPLUSONELOG] * Width[HEIGHT - OUTPLUSONELOG]
        BY <1>2, <2>1, WidthSum
      <3> QED
        BY <1>2, <2>1, <3>1 DEF Capacity
    <2> HIDE DEF w
    <2>4. group < w
      <3> SUFFICES ASSUME w <= group PROVE FALSE
        BY <1>3, <2>2
      <3>1. group - w \in Nat /\ (group - w) * GroupSize \in Nat
        BY <1>2, <1>3, <2>2, ProductFacts
      <3>2. group * GroupSize = w * GroupSize + (group - w) * GroupSize
        BY <1>2, <1>3, <2>2
      <3>3. GroupSize * w = w * GroupSize
        BY <1>2, <2>2
      <3>4. group * GroupSize + GroupSize <= w * GroupSize
        BY <1>4, <1>5, <2>3, <3>3
      <3>5. w * GroupSize \in Nat
        BY <1>2, <2>2, ProductFacts
      <3> QED
        BY <1>2, <1>4, <3>1, <3>2, <3>4, <3>5
    <2> QED
      BY <1>2, <1>3, <2>4, NodeAt DEF w
  <1>7. n[1] = OUTPLUSONELOG /\ Width[n[1]] = GroupSize /\ n[1] \in {0, OUTPLUSONELOG}
    BY <1>2
  <1>8. Whole(s) /\ RightEdge(n) = s + GroupSize
    <2>1. group * GroupSize % GroupSize = 0
      BY <1>2, <1>3
    <2> QED
      BY <1>4, <2>1 DEF Whole
  <1>9. s = calc_first_index(LeftEdge(n))
    BY <1>2, <1>4, <1>8, GroupUnique
  <1>10. RightEdge(n) <= s + GroupSize /\ s + GroupSize <= Capacity
    BY <1>2, <1>4, <1>5, <1>8
  <1>11. s <= tree.next /\ OpenIn(tree, n)
    BY DEF AddCommitment, Open, OpenIn, Linked
  <1>12. HashOf(ledger, n) \in {default_hashes[n[1]], zero_note_hashes[n[1]]}
    BY <1>7 DEF AddCommitment
  <1>13. tree' = AddTo(tree, n, hash, Permanent) /\ ledger' = Replaced(n, hash)
    BY DEF AddCommitment, AddTo, Permanent
  <1>14. hash \in Rows(Width[n[1]], LeafValues)
    BY <1>7, LeafFacts
  <1>15. Permanent \in BOOLEAN /\ (Permanent => hash # zero_note_hashes[n[1]])
    BY DEF Permanent
  <1> HIDE DEF n, s
  <1>16. /\ Typed(tree') /\ Usable(tree', ledger') /\ ledger' \in Vectors(Values)
         /\ \A m \in DOMAIN tree.leaves : m[1] = 0 => m \in DOMAIN tree'.leaves
    BY <1>1, <1>6, <1>7, <1>9, <1>10, <1>11, <1>12, <1>13, <1>14, <1>15, AddKeeps
  <1> QED
    BY <1>1, <1>16 DEF IInv, LeavesStay

-----------------------------------------------------------------------------
\* No leaves.
NoLeaves == [i \in Index |-> Default]

\* A tree without nodes and without an end holds nothing, truly.
LEMMA NothingUsable ==
  ASSUME NEW v \in Forest, v.leaves = NoNodes, v.temp = NoNodes, v.next = 0, v.first = None
  PROVE  Typed(v) /\ Usable(v, NoLeaves) /\ NoLeaves \in Vectors(Values)
  <1>1. NoLeaves \in Vectors(Values)
    BY LeafFacts DEF NoLeaves, Vectors, Index
  <1>2. FilledTo(NoLeaves, v.next)
    BY DEF FilledTo, NoLeaves, Index
  <1>3. DOMAIN v.leaves = {} /\ DOMAIN v.temp = {}
    BY DEF NoNodes
  <1>4. get_root(v) = HashOf(NoLeaves, Root)
    <2>1. Root \in Node /\ Root[1] = HEIGHT /\ LeftEdge(Root) = 0 /\ RightEdge(Root) = Capacity
      BY RootIs
    <2>2. ~ RightEdge(Root) <= v.next
      BY <2>1, GroupSizeIs
    <2>3. get_root(v) = default_hashes[Root[1]]
      BY <1>3, <2>2 DEF get_root, get
    <2>4. HashOf(NoLeaves, Root) = default_hashes[Root[1]]
      BY <1>2, <2>1, BeyondEnd
    <2> QED
      BY <2>3, <2>4
  <1>5. Usable(v, NoLeaves)
    BY <1>1, <1>2, <1>3, <1>4 DEF Usable, HoldsRoot, StoredTrue, LeavesOpen, EndOpen, TemporaryBelow
  <1>6. Whole(v.next) /\ v.next <= Capacity
    BY GroupSizeIs DEF Whole
  <1>7. Typed(v)
    BY <1>3, <1>6 DEF Typed
  <1> QED
    BY <1>1, <1>5, <1>7

\* new of an empty database.
LEMMA InitHolds == Init => IInv
  <1> SUFFICES ASSUME Init PROVE IInv
    OBVIOUS
  <1>1. tree = EmptyTree /\ ledger = NoLeaves /\ intact = TRUE
    BY DEF Init, NoLeaves
  <1>2. NoNodes \in PartialHashes(Values) /\ NoNodes \in Counts
    <2>1. NoNodes \in [{} -> Nat]
      BY DEF NoNodes
    <2> QED
      BY <2>1, NoNodesPartial DEF Counts
  <1>3. EmptyTree \in Forest
    BY <1>2 DEF EmptyTree, Forest
  <1>4. /\ EmptyTree.leaves = NoNodes /\ EmptyTree.temp = NoNodes /\ EmptyTree.next = 0
        /\ EmptyTree.first = None
    BY DEF EmptyTree
  <1>5. Typed(EmptyTree) /\ Usable(EmptyTree, NoLeaves) /\ NoLeaves \in Vectors(Values)
    BY <1>3, <1>4, NothingUsable
  <1> QED
    BY <1>1, <1>5 DEF IInv

\* wipe, also after a failed rollback.
LEMMA WipeKeeps ==
  ASSUME IInv, Wipe
  PROVE  IInv' /\ tree'.next = 0
  <1> DEFINE t == tree
             t1 == [t EXCEPT !.leaves = NoNodes, !.temp = NoNodes]
             t2 == [t1 EXCEPT !.next = 0, !.first = None, !.db_first = None]
             t3 == [t2 EXCEPT !.db_next = 0]
             t4 == [t3 EXCEPT !.stable = 0]
  <1>1. wipe(t) = <<t1, t2, t3, t4>>
    BY DEF wipe
  <1>2. NoNodes \in PartialHashes(Values) /\ NoNodes \in Counts
    <2>1. NoNodes \in [{} -> Nat]
      BY DEF NoNodes
    <2> QED
      BY <2>1, NoNodesPartial DEF Counts
  <1>3. t \in Forest
    BY DEF IInv, Typed
  <1>4. t1 \in Forest /\ t1.leaves = NoNodes /\ t1.temp = NoNodes
    BY <1>2, <1>3 DEF Forest
  <1> HIDE DEF t1
  <1>5. t2 \in Forest /\ t2.leaves = NoNodes /\ t2.temp = NoNodes /\ t2.next = 0 /\ t2.first = None
    BY <1>4 DEF Forest
  <1> HIDE DEF t2
  <1>6. t3 \in Forest /\ t3.leaves = NoNodes /\ t3.temp = NoNodes /\ t3.next = 0 /\ t3.first = None
    BY <1>5 DEF Forest
  <1> HIDE DEF t3
  <1>7. t4 \in Forest /\ t4.leaves = NoNodes /\ t4.temp = NoNodes /\ t4.next = 0 /\ t4.first = None
    BY <1>6 DEF Forest
  <1> HIDE DEF t4
  <1>8. Last(wipe(t)) = t4
    BY <1>1 DEF Last
  <1>9. Typed(t4) /\ Usable(t4, NoLeaves) /\ NoLeaves \in Vectors(Values)
    BY <1>7, NothingUsable
  <1>10. tree' = t4 /\ ledger' = NoLeaves /\ intact' = TRUE
    BY <1>8 DEF Wipe, NoLeaves
  <1> QED
    BY <1>7, <1>9, <1>10 DEF IInv

-----------------------------------------------------------------------------
\* clean_before_index: the nodes whose children it removes.
EmptiedBy(t, index) ==
  {n \in DOMAIN t.leaves : n[1] > 0 /\ RightEdge(n) <= index /\ FullIn(t, n)}
\* What it removes.
GoneBy(t, index) ==
  {LeftChild(n) : n \in EmptiedBy(t, index)} \cup {RightChild(n) : n \in EmptiedBy(t, index)}

\* The tree that clean_before_index leaves.
LEMMA CleanedIs ==
  ASSUME NEW t, Typed(t), NEW index \in Nat
  PROVE  LET v == Last(clean_before_index(t, index))
         IN  /\ v \in Forest /\ v.next = t.next /\ v.first = t.first
             /\ \A n : /\ n \in DOMAIN v.leaves <=> n \in DOMAIN t.leaves /\ n \notin GoneBy(t, index)
                       /\ n \in DOMAIN v.temp <=> n \in DOMAIN t.temp /\ n \notin GoneBy(t, index)
             /\ \A n \in DOMAIN v.leaves : v.leaves[n] = t.leaves[n]
             /\ \A n \in DOMAIN v.temp : v.temp[n] = t.temp[n]
  <1> DEFINE emptied == {n \in DOMAIN t.leaves :
                           /\ n[1] > 0
                           /\ RightEdge(n) <= index
                           /\ subtree_contains_only_temporary_leaves(t, n)}
             gone == {LeftChild(n) : n \in emptied} \cup {RightChild(n) : n \in emptied}
             u == remove_batched(t, gone)
             v == Last(clean_before_index(t, index))
  <1>1. \A n \in DOMAIN t.leaves : subtree_contains_only_temporary_leaves(t, n) <=> FullIn(t, n)
    <2> SUFFICES ASSUME NEW n \in DOMAIN t.leaves
                 PROVE  temporary_count(t, n) = Width[n[1]] <=> FullIn(t, n)
      BY DEF subtree_contains_only_temporary_leaves
    <2>1. n \in Node
      BY PartialIs DEF Typed, Forest
    <2>2. Width[n[1]] >= 1 /\ Width[n[1]] \in Nat
      BY <2>1, NodeIs, WidthPositive
    <2> QED
      BY <2>2 DEF temporary_count, FullIn
  <1>2. emptied = EmptiedBy(t, index)
    BY <1>1 DEF EmptiedBy
  <1>3. gone = GoneBy(t, index)
    <2> HIDE DEF emptied
    <2> QED
      BY <1>2 DEF GoneBy
  <1>4. v = [u EXCEPT !.clean = index]
    <2>1. clean_before_index(t, index) = <<[u EXCEPT !.clean = index]>>
      BY DEF clean_before_index
    <2> HIDE DEF u
    <2> QED
      BY <2>1 DEF Last
  <1> HIDE DEF gone
  <1>5. /\ u \in Forest /\ SameIndexes(t, u)
        /\ DOMAIN u.leaves = DOMAIN t.leaves \ gone
        /\ \A n \in DOMAIN u.leaves : u.leaves[n] = t.leaves[n]
        /\ DOMAIN u.temp = DOMAIN t.temp \ gone
        /\ \A n \in DOMAIN u.temp : u.temp[n] = t.temp[n]
    BY RemovedIs DEF Typed
  <1> HIDE DEF u
  <1>6. v \in Forest /\ v.next = u.next /\ v.first = u.first /\ v.leaves = u.leaves /\ v.temp = u.temp
    BY <1>4, <1>5 DEF Forest
  <1> HIDE DEF v
  <1>7. v.next = t.next /\ v.first = t.first
    BY <1>5, <1>6 DEF SameIndexes
  <1>8. \A n : /\ n \in DOMAIN v.leaves <=> n \in DOMAIN t.leaves /\ n \notin GoneBy(t, index)
               /\ n \in DOMAIN v.temp <=> n \in DOMAIN t.temp /\ n \notin GoneBy(t, index)
    BY <1>3, <1>5, <1>6
  <1>9. /\ \A n \in DOMAIN v.leaves : v.leaves[n] = t.leaves[n]
        /\ \A n \in DOMAIN v.temp : v.temp[n] = t.temp[n]
    BY <1>5, <1>6
  <1> QED
    BY <1>6, <1>7, <1>8, <1>9 DEF v

\* What is removed has its parent emptied, and is not the child of another node.
LEMMA GoneIs ==
  ASSUME NEW t, Typed(t), NEW index, NEW c \in GoneBy(t, index)
  PROVE  \E n \in EmptiedBy(t, index) :
            /\ n \in Node /\ n \in Ancestors(c) /\ c \in Node /\ c[1] = n[1] - 1
            /\ c \in {LeftChild(n), RightChild(n)}
            /\ \A m \in Node : m[1] > 0 /\ c \in {LeftChild(m), RightChild(m)} => m = n
  <1>1. PICK n \in EmptiedBy(t, index) : c \in {LeftChild(n), RightChild(n)}
    BY DEF GoneBy
  <1>2. n \in Node /\ n[1] > 0
    BY PartialIs DEF Typed, Forest, EmptiedBy
  <1>3. c \in Node /\ c[1] = n[1] - 1 /\ Ancestors(c) = {n} \cup Ancestors(n)
    BY <1>1, <1>2, AncestorsOfChild
  <1>4. ASSUME NEW m \in Node, m[1] > 0, c \in {LeftChild(m), RightChild(m)} PROVE m = n
    <2>1. c[1] = m[1] - 1 /\ Ancestors(c) = {m} \cup Ancestors(m)
      BY <1>4, AncestorsOfChild
    <2>2. m = n \/ m \in Ancestors(n)
      BY <1>3, <2>1
    <2>3. m[1] = n[1]
      <3>1. m[1] \in 0..HEIGHT /\ n[1] \in 0..HEIGHT /\ HEIGHT \in Nat
        BY <1>2, NodeIs, SizesAssumption
      <3> QED
        BY <1>3, <2>1, <3>1
    <2>4. m \in Ancestors(n) => n[1] < m[1]
      BY <1>2, AboveHas
    <2>5. n[1] \in Nat
      BY <1>2, NodeIs
    <2> QED
      BY <2>2, <2>3, <2>4, <2>5
  <1> QED
    BY <1>1, <1>2, <1>3, <1>4

\* Everything stored below an emptied node is removed.
LEMMA BelowEmptied ==
  ASSUME NEW t, Typed(t), TemporaryBelow(t), NEW index, index \in Nat,
         NEW m \in EmptiedBy(t, index), NEW k \in DOMAIN t.leaves, m \in Ancestors(k)
  PROVE  k \in GoneBy(t, index) /\ FullIn(t, k)
  <1> DEFINE p == Above(k, k[1] + 1)
  <1>1. k \in Node /\ m \in Node /\ FullIn(t, m) /\ m \in DOMAIN t.temp /\ RightEdge(m) <= index /\ m[1] > 0
    BY PartialIs DEF Typed, Forest, EmptiedBy, FullIn
  <1>2. /\ p \in Node /\ p[1] = k[1] + 1 /\ (p = m \/ m \in Ancestors(p))
        /\ k \in {LeftChild(p), RightChild(p)}
    BY <1>1, ParentBelow
  <1>3. FullIn(t, k) /\ p \in DOMAIN t.leaves
    BY <1>1 DEF TemporaryBelow
  <1> HIDE DEF p
  <1>4. FullIn(t, p)
    BY <1>1, <1>2, <1>3 DEF TemporaryBelow
  <1>5. RightEdge(p) <= index
    <2>1. RightEdge(p) <= RightEdge(m)
      <3>1. CASE p = m
        BY <1>1, <3>1, NodeIs
      <3>2. CASE m \in Ancestors(p)
        BY <1>2, <3>2, AboveHas
      <3> QED
        BY <1>2, <3>1, <3>2
    <2>2. RightEdge(p) \in Nat /\ RightEdge(m) \in Nat
      BY <1>1, <1>2, NodeIs
    <2> QED
      BY <1>1, <2>1, <2>2
  <1>6. p[1] > 0
    <2>1. k[1] \in Nat
      BY <1>1, NodeIs
    <2> QED
      BY <1>2, <2>1
  <1>7. p \in EmptiedBy(t, index)
    BY <1>3, <1>4, <1>5, <1>6 DEF EmptiedBy
  <1> QED
    BY <1>2, <1>3, <1>7 DEF GoneBy

\* A cleaned tree may be used as before, and has its permanent leaves.
LEMMA CleanedUsable ==
  ASSUME NEW t, Typed(t), NEW L, Usable(t, L), NEW index \in Nat
  PROVE  LET v == Last(clean_before_index(t, index))
         IN  /\ Typed(v) /\ Usable(v, L)
             /\ \A m \in DOMAIN t.leaves : m[1] = 0 /\ m \notin DOMAIN t.temp => m \in DOMAIN v.leaves
  <1> DEFINE v == Last(clean_before_index(t, index))
             gone == GoneBy(t, index)
             emptied == EmptiedBy(t, index)
  <1>1. /\ v \in Forest /\ v.next = t.next /\ v.first = t.first
        /\ \A n : /\ n \in DOMAIN v.leaves <=> n \in DOMAIN t.leaves /\ n \notin gone
                  /\ n \in DOMAIN v.temp <=> n \in DOMAIN t.temp /\ n \notin gone
        /\ \A n \in DOMAIN v.leaves : v.leaves[n] = t.leaves[n]
        /\ \A n \in DOMAIN v.temp : v.temp[n] = t.temp[n]
    BY CleanedIs
  <1> HIDE DEF v, gone, emptied
  <1>2. \A n \in DOMAIN t.leaves : n \in Node
    BY PartialIs DEF Typed, Forest
  <1>3. \A n : n \notin gone => get(v, n) = get(t, n)
    BY <1>1 DEF get
  <1>4. /\ HoldsRoot(t, L) /\ LeavesOpen(t) /\ EndOpen(t) /\ TemporaryBelow(t)
        /\ t.next \in Nat
    BY DEF Usable, Typed, Whole
  <1>5. ASSUME NEW m \in DOMAIN t.leaves, NEW k \in DOMAIN t.leaves, m \in emptied, m \in Ancestors(k)
        PROVE  k \in gone /\ FullIn(t, k)
    BY <1>4, <1>5, BelowEmptied DEF gone, emptied
  <1>6. ASSUME NEW c \in gone
        PROVE  \E n \in emptied :
                  /\ n \in Node /\ n \in Ancestors(c) /\ c \in Node /\ c[1] = n[1] - 1
                  /\ \A m \in Node : m[1] > 0 /\ c \in {LeftChild(m), RightChild(m)} => m = n
    BY <1>6, GoneIs DEF gone, emptied
  <1>7. \A n \in emptied : n \in DOMAIN t.leaves /\ FullIn(t, n) /\ n \in DOMAIN t.temp
    BY DEF emptied, EmptiedBy, FullIn
  <1>8. Typed(v)
    <2>1. ASSUME NEW n \in DOMAIN v.leaves PROVE v.leaves[n] \in Rows(Width[n[1]], Values)
      BY <1>1 DEF Typed
    <2>2. ASSUME NEW n \in DOMAIN v.temp PROVE n \in DOMAIN v.leaves /\ v.temp[n] \in 1..Width[n[1]]
      BY <1>1 DEF Typed
    <2>3. /\ Whole(v.next) /\ v.next <= Capacity
          /\ v.first \in {0, None} /\ (v.first = None => v.next = 0)
      BY <1>1 DEF Typed
    <2> QED
      BY <1>1, <2>1, <2>2, <2>3 DEF Typed
  <1>9. HoldsRoot(v, L)
    <2>1. StoredTrue(v, L)
      BY <1>1, <1>4 DEF HoldsRoot, StoredTrue
    <2>2. Root \notin gone
      <3> SUFFICES ASSUME Root \in gone PROVE FALSE
        OBVIOUS
      <3>1. PICK n \in emptied : n \in Node /\ Root \in Node /\ Root[1] = n[1] - 1
        BY <1>6
      <3>2. Root[1] = HEIGHT /\ n[1] \in 0..HEIGHT /\ HEIGHT \in Nat
        BY <3>1, RootIs, NodeIs, SizesAssumption
      <3> QED
        BY <3>1, <3>2
    <2>3. get_root(v) = get_root(t)
      BY <1>3, <2>2 DEF get_root
    <2> QED
      BY <1>1, <1>4, <2>1, <2>3 DEF HoldsRoot
  <1>10. ASSUME NEW m \in DOMAIN v.leaves, m[1] > 0, m \notin emptied, Linked(t, m)
         PROVE  Linked(v, m)
    <2>1. m \in DOMAIN t.leaves /\ m \in Node /\ v.leaves[m] = t.leaves[m]
      BY <1>1, <1>2
    <2>2. ASSUME NEW c \in {LeftChild(m), RightChild(m)} PROVE c \notin gone
      BY <1>6, <1>10, <2>1
    <2> QED
      BY <1>3, <1>10, <2>1, <2>2 DEF Linked
  <1>11. LeavesOpen(v)
    <2> SUFFICES ASSUME NEW k \in DOMAIN v.leaves, k[1] = 0, NEW m \in Ancestors(k), m \in DOMAIN v.leaves
                 PROVE  Linked(v, m)
      BY DEF LeavesOpen, OpenIn
    <2>1. k \in DOMAIN t.leaves /\ m \in DOMAIN t.leaves /\ k \notin gone /\ k \in Node
      BY <1>1, <1>2
    <2>2. m \notin emptied
      BY <1>5, <2>1
    <2>3. Linked(t, m)
      BY <1>4, <2>1 DEF LeavesOpen, OpenIn
    <2>4. m[1] > 0
      BY <2>1, AboveHas
    <2> QED
      BY <1>10, <2>2, <2>3, <2>4
  <1>12. EndOpen(v)
    <2> SUFFICES ASSUME NEW m \in DOMAIN v.leaves, LeftEdge(m) < v.next, v.next < RightEdge(m)
                 PROVE  Linked(v, m)
      BY DEF EndOpen
    <2>1. m \in DOMAIN t.leaves /\ m \in Node /\ Linked(t, m)
      BY <1>1, <1>2, <1>4 DEF EndOpen
    <2>2. LeftEdge(m) \in Nat /\ RightEdge(m) = LeftEdge(m) + Width[m[1]] /\ m[1] \in Nat
      BY <2>1, NodeIs
    <2>3. m \notin emptied
      <3> SUFFICES ASSUME m \in emptied PROVE FALSE
        OBVIOUS
      <3>1. RightEdge(m) <= t.next
        BY <1>4, <1>7 DEF TemporaryBelow
      <3>2. RightEdge(m) \in Nat
        BY <2>1, NodeIs
      <3> QED
        BY <1>1, <1>4, <3>1, <3>2
    <2>4. m[1] > 0
      <3>1. m[1] = 0 => Width[m[1]] = 1
        BY WidthIs
      <3> QED
        BY <1>1, <1>4, <2>2, <3>1
    <2> QED
      BY <1>10, <2>1, <2>3, <2>4
  <1>13. TemporaryBelow(v)
    <2> SUFFICES ASSUME NEW m \in DOMAIN v.temp, FullIn(v, m)
                 PROVE  /\ RightEdge(m) <= v.next
                        /\ \A k \in DOMAIN v.leaves : m \in Ancestors(k) =>
                             FullIn(v, k) /\ Above(k, k[1] + 1) \in DOMAIN v.leaves
      BY DEF TemporaryBelow
    <2>1. m \in DOMAIN t.temp /\ FullIn(t, m)
      BY <1>1 DEF FullIn
    <2>2. RightEdge(m) <= v.next
      BY <1>1, <1>4, <2>1 DEF TemporaryBelow
    <2>3. ASSUME NEW k \in DOMAIN v.leaves, m \in Ancestors(k)
          PROVE  FullIn(v, k) /\ Above(k, k[1] + 1) \in DOMAIN v.leaves
      <3> DEFINE p == Above(k, k[1] + 1)
      <3>1. k \in DOMAIN t.leaves /\ k \notin gone /\ k \in Node
        BY <1>1, <1>2
      <3>2. FullIn(t, k) /\ p \in DOMAIN t.leaves
        BY <1>4, <2>1, <2>3, <3>1 DEF TemporaryBelow
      <3>3. FullIn(v, k)
        BY <1>1, <3>1, <3>2 DEF FullIn
      <3>4. p \in Node /\ p \in Ancestors(k)
        BY <2>3, <3>1, ParentBelow
      <3> HIDE DEF p
      <3>5. p \notin gone
        <4> SUFFICES ASSUME p \in gone PROVE FALSE
          OBVIOUS
        <4>1. PICK n \in emptied : n \in Ancestors(p)
          BY <1>6
        <4>2. n \in Ancestors(k)
          BY <3>1, <3>4, <4>1, AboveTransitive
        <4> QED
          BY <1>5, <1>7, <3>1, <4>2
      <3>6. p \in DOMAIN v.leaves
        BY <1>1, <3>2, <3>5
      <3> QED
        BY <3>3, <3>6 DEF p
    <2> QED
      BY <2>2, <2>3
  <1>14. ASSUME NEW m \in DOMAIN t.leaves, m[1] = 0, m \notin DOMAIN t.temp PROVE m \in DOMAIN v.leaves
    <2>1. m \notin gone
      <3> SUFFICES ASSUME m \in gone PROVE FALSE
        OBVIOUS
      <3>1. PICK n \in emptied : n \in Ancestors(m)
        BY <1>6
      <3>2. FullIn(t, m)
        BY <1>5, <1>7, <3>1
      <3> QED
        BY <1>14, <3>2 DEF FullIn
    <2> QED
      BY <1>1, <2>1
  <1>15. Usable(v, L)
    BY <1>9, <1>11, <1>12, <1>13 DEF Usable
  <1> QED
    BY <1>8, <1>14, <1>15 DEF v

\* clean and clean_before_index.
LEMMA CleanKeeps ==
  ASSUME IInv, NEW index \in CleanPoints, CleanBefore(index)
  PROVE  /\ IInv'
         /\ \A m \in DOMAIN tree.leaves :
              m[1] = 0 /\ m \notin DOMAIN tree.temp => m \in DOMAIN tree'.leaves
  <1>1. /\ intact /\ Typed(tree) /\ Usable(tree, ledger) /\ ledger \in Vectors(Values)
        /\ UNCHANGED <<ledger, intact>> /\ tree' = Last(clean_before_index(tree, index))
    BY DEF IInv, CleanBefore
  <1>2. index \in Nat
    BY BoundsAssumption
  <1>3. LET v == Last(clean_before_index(tree, index))
        IN  /\ Typed(v) /\ Usable(v, ledger)
            /\ \A m \in DOMAIN tree.leaves : m[1] = 0 /\ m \notin DOMAIN tree.temp => m \in DOMAIN v.leaves
    BY <1>1, <1>2, CleanedUsable
  <1>4. /\ Typed(tree') /\ Usable(tree', ledger)
        /\ \A m \in DOMAIN tree.leaves : m[1] = 0 /\ m \notin DOMAIN tree.temp => m \in DOMAIN tree'.leaves
    BY <1>1, <1>3
  <1> QED
    BY <1>1, <1>4 DEF IInv

-----------------------------------------------------------------------------
\* rollback: the end it moves the tree to, and the tree it has once the nodes beyond
\* the index are removed.
EndAt(index) == IF index > 0 THEN calc_next_index(index - 1) ELSE 0

EndedAt(t, index) == [t EXCEPT !.next = EndAt(index), !.db_next = EndAt(index)]
EmptiedAt(t, index) ==
  IF index = 0 THEN [EndedAt(t, index) EXCEPT !.first = None, !.db_first = None] ELSE EndedAt(t, index)
ShortAt(t, index) == remove_batched(EmptiedAt(t, index), {n \in DOMAIN t.leaves : Obsolete(n, index)})

\* The end is not before the index and not behind the tree.
LEMMA EndAtIs ==
  ASSUME NEW t, Typed(t), NEW index \in 0..t.next
  PROVE  /\ EndAt(index) \in Nat /\ index \in Nat /\ t.next \in Nat
         /\ index <= EndAt(index) /\ EndAt(index) <= t.next /\ EndAt(index) <= Capacity
         /\ Whole(EndAt(index)) /\ (index = 0 => EndAt(index) = 0)
  <1>1. t.next \in Nat /\ Whole(t.next) /\ t.next <= Capacity /\ Capacity \in Nat /\ index \in Nat
        /\ GroupSize \in Nat /\ GroupSize >= 1
    BY GroupSizeIs DEF Typed, Whole
  <1>2. CASE index = 0
    <2>1. EndAt(index) = 0 /\ Whole(0)
      BY <1>1, <1>2 DEF EndAt, Whole
    <2> QED
      BY <1>1, <1>2, <2>1
  <1>3. CASE index > 0
    <2> DEFINE s == calc_first_index(index - 1)
    <2>1. index - 1 \in Nat
      BY <1>1, <1>3
    <2>2. /\ Whole(s) /\ Whole(calc_next_index(index - 1)) /\ calc_next_index(index - 1) = s + GroupSize
          /\ s <= index - 1 /\ index - 1 < calc_next_index(index - 1)
      BY <2>1, GroupOf
    <2> HIDE DEF s
    <2>3. EndAt(index) = s + GroupSize /\ Whole(EndAt(index)) /\ s \in Nat
      BY <1>3, <2>2 DEF EndAt, Whole
    <2>4. s < t.next
      BY <1>1, <2>2, <2>3
    <2>5. s + GroupSize <= t.next
      BY <1>1, <2>2, <2>4, NextWhole
    <2> QED
      BY <1>1, <1>3, <2>2, <2>3, <2>5
  <1> QED
    BY <1>1, <1>2, <1>3

\* What rollback returns and leaves: refused when what it needs may have been cleaned
\* away, else the root that is rebuilt.
LEMMA RollbackWas ==
  ASSUME NEW t, Typed(t), NEW index \in 0..t.next
  PROVE  LET undo == rollback(t, index)
             s == ShortAt(t, index)
             e == EndAt(index)
         IN  \/ undo.root = None /\ Last(undo.writes) = t
             \/ /\ undo.root = rebuilt_node(s, e, Root)
                /\ Last(undo.writes) = reset_stable_index(rebuild(s, e))
  <1> DEFINE next == IF index > 0 THEN calc_next_index(index - 1) ELSE 0
             t1 == [t EXCEPT !.next = next, !.db_next = next]
             t2 == IF index = 0 THEN [t1 EXCEPT !.first = None, !.db_first = None] ELSE t1
             t3 == remove_batched(t2, {n \in DOMAIN t.leaves : Obsolete(n, index)})
             refused == index < t.clean /\ nodes_request_index(t, index) < t.clean
             kept == IF t.first # None /\ index <= t.first THEN 0 ELSE index
  <1>1. kept = index
    <2>1. t.first \in {0, None} /\ None # 0
      BY SentinelsAssumption DEF Typed
    <2>2. index \in Nat
      BY EndAtIs
    <2> QED
      BY <2>1, <2>2
  <1>2. next = EndAt(index)
    BY DEF EndAt
  <1>3. t1 = EndedAt(t, index)
    <2> HIDE DEF next
    <2> QED
      BY <1>2 DEF EndedAt
  <1>4. t2 = EmptiedAt(t, index)
    <2> HIDE DEF t1
    <2> QED
      BY <1>3 DEF EmptiedAt
  <1>5. t3 = ShortAt(t, index)
    <2> HIDE DEF t2
    <2> QED
      BY <1>4 DEF ShortAt
  <1>6. rollback(t, index) =
          IF refused THEN [root |-> None, writes |-> <<t>>]
          ELSE [root |-> rebuilt_node(t3, next, Root),
                writes |-> <<t1, t2, t3, rebuild(t3, next), reset_stable_index(rebuild(t3, next))>>]
    <2>1. rollback(t, index) =
            LET k == kept
                n0 == IF k > 0 THEN calc_next_index(k - 1) ELSE 0
                u1 == [t EXCEPT !.next = n0, !.db_next = n0]
                u2 == IF k = 0 THEN [u1 EXCEPT !.first = None, !.db_first = None] ELSE u1
                u3 == remove_batched(u2, {n \in DOMAIN t.leaves : Obsolete(n, k)})
            IN  IF k < t.clean /\ nodes_request_index(t, k) < t.clean
                THEN [root |-> None, writes |-> <<t>>]
                ELSE [root |-> rebuilt_node(u3, n0, Root),
                      writes |-> <<u1, u2, u3, rebuild(u3, n0), reset_stable_index(rebuild(u3, n0))>>]
      BY DEF rollback
    <2> HIDE DEF kept
    <2> QED
      BY <1>1, <2>1
  <1> HIDE DEF t1, t2, t3, next, refused
  <1>7. CASE refused
    <2>1. rollback(t, index) = [root |-> None, writes |-> <<t>>]
      BY <1>6, <1>7, Zenon
    <2>2. rollback(t, index).root = None /\ Last(rollback(t, index).writes) = t
      BY <2>1 DEF Last
    <2> QED
      BY <2>2
  <1>8. CASE ~ refused
    <2>1. rollback(t, index) =
            [root |-> rebuilt_node(t3, next, Root),
             writes |-> <<t1, t2, t3, rebuild(t3, next), reset_stable_index(rebuild(t3, next))>>]
      BY <1>6, <1>8, Zenon
    <2>2. /\ rollback(t, index).root = rebuilt_node(t3, next, Root)
          /\ Last(rollback(t, index).writes) = reset_stable_index(rebuild(t3, next))
      BY <2>1 DEF Last
    <2> QED
      BY <1>2, <1>5, <2>2
  <1> QED
    BY <1>7, <1>8

\* What is left once the nodes beyond the index are removed.
LEMMA ShortIs ==
  ASSUME NEW t, Typed(t), NEW L, HoldsRoot(t, L), NEW index \in 0..t.next
  PROVE  LET s == ShortAt(t, index)
             e == EndAt(index)
         IN  /\ s \in Forest /\ Truncated(s, L, e) /\ s.next = e
             /\ s.first = IF index = 0 THEN None ELSE t.first
             /\ \A n : n \in DOMAIN s.leaves <=> n \in DOMAIN t.leaves /\ RightEdge(n) <= index
             /\ \A n \in DOMAIN s.leaves : s.leaves[n] = t.leaves[n]
             /\ \A n : n \in DOMAIN s.temp <=> n \in DOMAIN t.temp /\ RightEdge(n) <= index
             /\ \A n \in DOMAIN s.temp : s.temp[n] = t.temp[n]
  <1> DEFINE gone == {n \in DOMAIN t.leaves : Obsolete(n, index)}
             u == EmptiedAt(t, index)
             s == remove_batched(u, gone)
             e == EndAt(index)
  <1>1. e \in Nat /\ index \in Nat /\ index <= e
    BY EndAtIs
  <1> HIDE DEF e
  <1>2. t \in Forest
    BY DEF Typed
  <1>3. /\ u \in Forest /\ u.leaves = t.leaves /\ u.temp = t.temp /\ u.next = e
        /\ u.first = IF index = 0 THEN None ELSE t.first
    <2> DEFINE w == EndedAt(t, index)
    <2>1. /\ w \in Forest /\ w.leaves = t.leaves /\ w.temp = t.temp /\ w.next = e /\ w.first = t.first
      BY <1>1, <1>2 DEF EndedAt, Forest, e
    <2> HIDE DEF w
    <2>2. u = IF index = 0 THEN [w EXCEPT !.first = None, !.db_first = None] ELSE w
      BY DEF EmptiedAt, w
    <2> QED
      BY <2>1, <2>2 DEF Forest
  <1> HIDE DEF u
  <1>4. /\ s \in Forest /\ SameIndexes(u, s)
        /\ DOMAIN s.leaves = DOMAIN u.leaves \ gone
        /\ \A n \in DOMAIN s.leaves : s.leaves[n] = u.leaves[n]
        /\ DOMAIN s.temp = DOMAIN u.temp \ gone
        /\ \A n \in DOMAIN s.temp : s.temp[n] = u.temp[n]
    BY <1>3, RemovedIs
  <1> HIDE DEF s
  <1>5. \A n \in DOMAIN t.leaves : n \in Node /\ RightEdge(n) \in Nat
    <2>1. \A n \in DOMAIN t.leaves : n \in Node
      BY PartialIs DEF Typed, Forest
    <2> QED
      BY <2>1, NodeIs
  <1>6. \A n \in DOMAIN t.leaves : n \in gone <=> ~ RightEdge(n) <= index
    BY <1>1, <1>5 DEF Obsolete
  <1>7. \A n \in gone : n \in DOMAIN t.leaves
    OBVIOUS
  <1> HIDE DEF gone
  <1>8. \A n : n \in DOMAIN s.leaves <=> n \in DOMAIN t.leaves /\ RightEdge(n) <= index
    BY <1>3, <1>4, <1>6
  <1>9. \A n : n \in DOMAIN s.temp <=> n \in DOMAIN t.temp /\ RightEdge(n) <= index
    <2>1. \A n \in DOMAIN t.temp : n \in DOMAIN t.leaves
      BY DEF Typed
    <2> QED
      BY <1>3, <1>4, <1>6, <2>1
  <1>10. s.next = e /\ s.first = IF index = 0 THEN None ELSE t.first
    BY <1>3, <1>4 DEF SameIndexes
  <1>11. /\ \A n \in DOMAIN s.leaves : s.leaves[n] = t.leaves[n]
         /\ \A n \in DOMAIN s.temp : s.temp[n] = t.temp[n]
    BY <1>3, <1>4
  <1>12. Truncated(s, L, e)
    <2> SUFFICES ASSUME NEW n \in DOMAIN s.leaves
                 PROVE  /\ n \in Node /\ RightEdge(n) <= e /\ s.leaves[n] = HashOf(L, n)
                        /\ s.leaves[n] # zero_note_hashes[n[1]]
      BY <1>10 DEF Truncated
    <2>1. n \in DOMAIN t.leaves /\ RightEdge(n) <= index /\ s.leaves[n] = t.leaves[n]
      BY <1>8, <1>11
    <2>2. t.leaves[n] = HashOf(L, n) /\ t.leaves[n] # zero_note_hashes[n[1]]
      BY <2>1 DEF HoldsRoot, StoredTrue
    <2>3. RightEdge(n) <= e
      BY <1>1, <1>5, <2>1
    <2> QED
      BY <1>5, <2>1, <2>2, <2>3
  <1>13. ShortAt(t, index) = s
    BY DEF ShortAt, s, gone, u
  <1> QED
    BY <1>4, <1>8, <1>9, <1>10, <1>11, <1>12, <1>13 DEF e

\* What rollback rebuilds: the nodes it comes to on the way down, when their hashes are
\* known; those that are left stay as they are.
LEMMA RebuiltIs ==
  ASSUME NEW L \in Vectors(Values), NEW s \in Forest, NEW e \in Nat, NEW next \in Nat, e <= next,
         FilledTo(L, next), Truncated(s, L, e), DOMAIN s.temp \subseteq DOMAIN s.leaves
  PROVE  LET v == rebuild(s, e)
             known == Kept(s, e)
         IN  /\ v \in Forest /\ SameIndexes(s, v)
             /\ \A n \in DOMAIN s.leaves : n \in DOMAIN v.leaves /\ v.leaves[n] = s.leaves[n]
             /\ \A n \in DOMAIN v.leaves :
                   \/ n \in DOMAIN s.leaves
                   \/ /\ n \in Visited(known) /\ v.leaves[n] = HashOf(Cut(L, e), n)
                      /\ v.leaves[n] # zero_note_hashes[n[1]]
             /\ \A n \in Visited(known) :
                   hashes_above(known)[n] # None /\ HashOf(Cut(L, e), n) # zero_note_hashes[n[1]] =>
                     n \in DOMAIN v.leaves
             /\ \A n : n \in DOMAIN v.temp <=> n \in DOMAIN s.temp
             /\ \A n \in DOMAIN v.temp : v.temp[n] = s.temp[n]
  <1> DEFINE known == Kept(s, e)
             f == hashes_above(known)
             restored == {n \in Visited(known) : f[n] # None}
             new == [n \in restored |-> f[n]]
             none == [n \in DOMAIN new |-> 0]
             M == Cut(L, e)
             v == set_batched(s, new, none)
  <1>0. NoneIsNoHash(Values) /\ Default \in Values
    BY NoneIsNoValue, LeafFacts
  <1>1. \A n \in Node : Reached(known, n) => f[n] \in {None, HashOf(M, n)}
    BY <1>0, RebuiltRoot
  <1>2. M \in Vectors(Values)
    BY <1>0, CutIs
  <1>3. \A n \in Visited(known) : n \in Node /\ Reached(known, n) /\ n \notin DOMAIN known
    BY DEF Visited, Reached
  <1>4. rebuild(s, e) = v
    BY DEF rebuild, put_hashes
  <1>5. DOMAIN known = {m \in Node : Beyond(m, e) \/ m \in DOMAIN s.leaves}
    BY KeptIs
  <1> HIDE DEF known, f, M
  <1>6. \A n \in restored : f[n] \in Seq(Values)
    <2> SUFFICES ASSUME NEW n \in restored PROVE f[n] \in Seq(Values)
      OBVIOUS
    <2>1. n \in Node /\ f[n] = HashOf(M, n)
      BY <1>1, <1>3
    <2>2. f[n] \in [1..Width[n[1]] -> Values] /\ Width[n[1]] \in Nat
      BY <1>2, <2>1, HashType, NodeIs
    <2> QED
      BY <2>2
  <1>7. restored \in SUBSET Node
    BY <1>3
  <1>8. \A n \in restored : n \notin DOMAIN s.leaves /\ n \in Visited(known) /\ f[n] = HashOf(M, n)
    BY <1>1, <1>3, <1>5
  <1>9. \A n \in Visited(known) : f[n] # None => n \in restored
    OBVIOUS
  <1> HIDE DEF restored
  <1>10. new \in [restored -> Seq(Values)]
    BY <1>6
  <1>11. DOMAIN new = restored /\ \A n \in restored : new[n] = f[n]
    OBVIOUS
  <1>12. new \in PartialHashes(Values)
    BY <1>7, <1>10, PartialMake
  <1> HIDE DEF new
  <1>13. none \in [DOMAIN new -> Nat] /\ DOMAIN none = DOMAIN new /\ \A n \in DOMAIN none : ~ none[n] > 0
    OBVIOUS
  <1> HIDE DEF none
  <1>14. /\ v \in Forest /\ SameIndexes(s, v)
         /\ v.leaves = PutLeaves(s.leaves, new)
         /\ v.temp = PutCounts(s.temp, none)
    BY <1>12, <1>13, SetBatchedIs
  <1> HIDE DEF v
  <1>15. /\ DOMAIN v.leaves = (DOMAIN s.leaves \ DOMAIN new) \cup Stored(new)
         /\ \A n \in Stored(new) : v.leaves[n] = new[n]
         /\ \A n \in DOMAIN s.leaves \ DOMAIN new : v.leaves[n] = s.leaves[n]
    BY <1>14 DEF PutLeaves, Stored
  <1>16. \A n : n \in Stored(new) <=> n \in DOMAIN new /\ new[n] # zero_note_hashes[n[1]]
    BY DEF Stored
  <1>17. \A n \in DOMAIN s.leaves : n \in DOMAIN v.leaves /\ v.leaves[n] = s.leaves[n]
    BY <1>8, <1>11, <1>15
  <1>18. \A n \in DOMAIN v.leaves :
            \/ n \in DOMAIN s.leaves
            \/ /\ n \in Visited(known) /\ v.leaves[n] = HashOf(M, n)
               /\ v.leaves[n] # zero_note_hashes[n[1]]
    BY <1>8, <1>11, <1>15, <1>16
  <1>19. \A n \in Visited(known) :
            f[n] # None /\ HashOf(M, n) # zero_note_hashes[n[1]] => n \in DOMAIN v.leaves
    BY <1>8, <1>9, <1>11, <1>15, <1>16
  <1>20. /\ DOMAIN v.temp = (DOMAIN s.temp \ DOMAIN none) \cup {m \in DOMAIN none : none[m] > 0}
         /\ \A n \in DOMAIN v.temp : v.temp[n] = IF n \in DOMAIN none THEN none[n] ELSE s.temp[n]
    BY <1>14 DEF PutCounts
  <1>21. \A n \in DOMAIN s.temp : n \notin DOMAIN none
    BY <1>8, <1>11, <1>13
  <1>22. /\ \A n : n \in DOMAIN v.temp <=> n \in DOMAIN s.temp
         /\ \A n \in DOMAIN v.temp : v.temp[n] = s.temp[n]
    BY <1>13, <1>20, <1>21
  <1> QED
    BY <1>4, <1>14, <1>17, <1>18, <1>19, <1>22 DEF v, M, known, f

\* Also a rollback that fails leaves a tree with its types.
LEMMA RolledTyped ==
  ASSUME NEW t, Typed(t), NEW L, HoldsRoot(t, L), NEW index \in 0..t.next
  PROVE  Typed(rebuild(ShortAt(t, index), EndAt(index)))
  <1> DEFINE s == ShortAt(t, index)
             e == EndAt(index)
             v == rebuild(s, e)
             known == Kept(s, e)
  <1>1. /\ e \in Nat /\ index \in Nat /\ t.next \in Nat /\ e <= t.next /\ e <= Capacity /\ Whole(e)
        /\ (index = 0 => e = 0)
    BY EndAtIs
  <1>2. /\ s \in Forest /\ Truncated(s, L, e) /\ s.next = e
        /\ s.first = IF index = 0 THEN None ELSE t.first
        /\ \A n : n \in DOMAIN s.leaves <=> n \in DOMAIN t.leaves /\ RightEdge(n) <= index
        /\ \A n \in DOMAIN s.leaves : s.leaves[n] = t.leaves[n]
        /\ \A n : n \in DOMAIN s.temp <=> n \in DOMAIN t.temp /\ RightEdge(n) <= index
        /\ \A n \in DOMAIN s.temp : s.temp[n] = t.temp[n]
    BY ShortIs
  <1> HIDE DEF s, e
  <1>3. DOMAIN s.temp \subseteq DOMAIN s.leaves
    BY <1>2 DEF Typed
  <1>4. L \in Vectors(Values) /\ FilledTo(L, t.next)
    BY DEF HoldsRoot
  <1>5. /\ v \in Forest /\ SameIndexes(s, v)
        /\ \A n \in DOMAIN s.leaves : n \in DOMAIN v.leaves /\ v.leaves[n] = s.leaves[n]
        /\ \A n \in DOMAIN v.leaves :
              \/ n \in DOMAIN s.leaves
              \/ n \in Visited(known) /\ v.leaves[n] = HashOf(Cut(L, e), n)
        /\ \A n : n \in DOMAIN v.temp <=> n \in DOMAIN s.temp
        /\ \A n \in DOMAIN v.temp : v.temp[n] = s.temp[n]
    BY <1>1, <1>2, <1>3, <1>4, RebuiltIs
  <1> HIDE DEF v, known
  <1>6. Cut(L, e) \in Vectors(Values)
    BY <1>1, <1>4, LeafFacts, CutIs
  <1>7. ASSUME NEW n \in DOMAIN v.leaves PROVE v.leaves[n] \in Rows(Width[n[1]], Values)
    <2>1. CASE n \in DOMAIN s.leaves
      BY <1>2, <1>5, <2>1 DEF Typed
    <2>2. CASE n \in Visited(known) /\ v.leaves[n] = HashOf(Cut(L, e), n)
      <3>1. n \in Node
        BY <2>2 DEF Visited
      <3> QED
        BY <1>6, <2>2, <3>1, HashType DEF Rows
    <2> QED
      BY <1>5, <2>1, <2>2
  <1>8. ASSUME NEW n \in DOMAIN v.temp PROVE n \in DOMAIN v.leaves /\ v.temp[n] \in 1..Width[n[1]]
    BY <1>2, <1>3, <1>5 DEF Typed
  <1>9. v.next = e /\ v.first = IF index = 0 THEN None ELSE t.first
    BY <1>2, <1>5 DEF SameIndexes
  <1>10. v.first \in {0, None} /\ (v.first = None => v.next = 0)
    <2>1. t.first \in {0, None} /\ (t.first = None => t.next = 0)
      BY DEF Typed
    <2> QED
      BY <1>1, <1>9, <2>1
  <1>11. Typed(v)
    BY <1>1, <1>5, <1>7, <1>8, <1>9, <1>10 DEF Typed
  <1> QED
    BY <1>11 DEF v, s, e

\* When rollback returns a root, the index is the end of a group: the leaves behind it
\* in its group would have to be known.
LEMMA RolledWhole ==
  ASSUME NEW t, Typed(t), NEW L, HoldsRoot(t, L), NEW index \in 0..t.next,
         rebuilt_node(ShortAt(t, index), EndAt(index), Root) # None
  PROVE  EndAt(index) = index
  <1> DEFINE s == ShortAt(t, index)
             e == EndAt(index)
             known == Kept(s, e)
             k == <<0, index>>
  <1>1. /\ e \in Nat /\ index \in Nat /\ t.next \in Nat /\ index <= e /\ e <= t.next /\ e <= Capacity
    BY EndAtIs
  <1>2. /\ Truncated(s, L, e)
        /\ \A n : n \in DOMAIN s.leaves <=> n \in DOMAIN t.leaves /\ RightEdge(n) <= index
    BY ShortIs
  <1> HIDE DEF s, e
  <1>3. L \in Vectors(Values) /\ FilledTo(L, t.next)
    BY DEF HoldsRoot
  <1>4. hashes_above(known)[Root] # None
    BY DEF rebuilt_node, s, e
  <1>5. \A n \in Visited(known) : n[1] # 0
    BY <1>1, <1>2, <1>3, <1>4, NoneIsNoValue, LeafFacts, RebuiltRoot
  <1> SUFFICES ASSUME index < e PROVE FALSE
    BY <1>1 DEF e
  <1>6. index \in 0..(Capacity - 1)
    BY <1>1, GroupSizeIs
  <1>7. k \in Node /\ k[1] = 0 /\ LeftEdge(k) = index /\ RightEdge(k) = index + 1
    BY <1>6, LeafNode
  <1> HIDE DEF k
  <1>8. DOMAIN known = {m \in Node : Beyond(m, e) \/ m \in DOMAIN s.leaves}
    BY KeptIs
  <1> HIDE DEF known
  <1>9. ASSUME NEW m \in Node, LeftEdge(m) <= index, index + 1 <= RightEdge(m) PROVE m \notin DOMAIN known
    <2>1. LeftEdge(m) \in Nat /\ RightEdge(m) \in Nat
      BY NodeIs
    <2>2. ~ Beyond(m, e) /\ ~ RightEdge(m) <= index
      BY <1>1, <1>9, <2>1 DEF Beyond
    <2> QED
      BY <1>2, <1>8, <2>2
  <1>10. k \notin DOMAIN known
    BY <1>1, <1>7, <1>9
  <1>11. ASSUME NEW m \in Ancestors(k) PROVE m \notin DOMAIN known
    <2>1. m \in Node /\ LeftEdge(m) <= LeftEdge(k) /\ RightEdge(k) <= RightEdge(m)
      BY <1>7, AboveHas
    <2> QED
      BY <1>7, <1>9, <2>1
  <1>12. k \in Visited(known)
    BY <1>7, <1>10, <1>11 DEF Visited
  <1> QED
    BY <1>5, <1>7, <1>12

\* What a rollback that returned a root leaves: the tree t up to e as s, rebuilt as v.
Rolled(t, L, e, s, v) ==
  /\ Typed(t) /\ Usable(t, L) /\ Typed(v)
  /\ e \in Nat /\ e <= t.next /\ Truncated(s, L, e) /\ v.next = e
  /\ \A n : n \in DOMAIN s.leaves <=> n \in DOMAIN t.leaves /\ RightEdge(n) <= e
  /\ \A n \in DOMAIN s.leaves : n \in DOMAIN v.leaves /\ v.leaves[n] = t.leaves[n]
  /\ \A n \in DOMAIN v.leaves :
        \/ n \in DOMAIN s.leaves
        \/ /\ n \in Visited(Kept(s, e)) /\ v.leaves[n] = HashOf(Cut(L, e), n)
           /\ v.leaves[n] # zero_note_hashes[n[1]]
  /\ \A n \in Visited(Kept(s, e)) :
        /\ n[1] # 0 /\ LeftEdge(n) < e
        /\ HashOf(Cut(L, e), n) # zero_note_hashes[n[1]] => n \in DOMAIN v.leaves
  /\ \A n : n \in DOMAIN v.temp <=> n \in DOMAIN t.temp /\ RightEdge(n) <= e
  /\ \A n \in DOMAIN v.temp : v.temp[n] = t.temp[n]

\* It is what rollback leaves.
LEMMA RolledIs ==
  ASSUME NEW t, Typed(t), NEW L, Usable(t, L), NEW index \in 0..t.next,
         rebuilt_node(ShortAt(t, index), EndAt(index), Root) # None
  PROVE  Rolled(t, L, index, ShortAt(t, index), rebuild(ShortAt(t, index), EndAt(index)))
  <1> DEFINE s == ShortAt(t, index)
             v == rebuild(s, index)
             known == Kept(s, index)
  <1>0. HoldsRoot(t, L)
    BY DEF Usable
  <1>1. EndAt(index) = index
    BY <1>0, RolledWhole
  <1>2. index \in Nat /\ t.next \in Nat /\ index <= t.next
    BY EndAtIs
  <1>3. /\ s \in Forest /\ Truncated(s, L, index) /\ s.next = index
        /\ \A n : n \in DOMAIN s.leaves <=> n \in DOMAIN t.leaves /\ RightEdge(n) <= index
        /\ \A n \in DOMAIN s.leaves : s.leaves[n] = t.leaves[n]
        /\ \A n : n \in DOMAIN s.temp <=> n \in DOMAIN t.temp /\ RightEdge(n) <= index
        /\ \A n \in DOMAIN s.temp : s.temp[n] = t.temp[n]
    BY <1>0, <1>1, ShortIs
  <1>4. Typed(v)
    BY <1>0, <1>1, RolledTyped
  <1>5. rebuilt_node(s, index, Root) # None
    BY <1>1
  <1> HIDE DEF s
  <1>6. hashes_above(known)[Root] # None
    BY <1>5 DEF rebuilt_node
  <1>7. L \in Vectors(Values) /\ FilledTo(L, t.next)
    BY <1>0 DEF HoldsRoot
  <1>8. DOMAIN s.temp \subseteq DOMAIN s.leaves
    BY <1>3 DEF Typed
  <1>9. \A n \in Visited(known) : hashes_above(known)[n] # None /\ n[1] # 0 /\ LeftEdge(n) < index
    BY <1>2, <1>3, <1>6, <1>7, NoneIsNoValue, LeafFacts, RebuiltRoot
  <1>10. /\ SameIndexes(s, v)
         /\ \A n \in DOMAIN s.leaves : n \in DOMAIN v.leaves /\ v.leaves[n] = s.leaves[n]
         /\ \A n \in DOMAIN v.leaves :
               \/ n \in DOMAIN s.leaves
               \/ /\ n \in Visited(known) /\ v.leaves[n] = HashOf(Cut(L, index), n)
                  /\ v.leaves[n] # zero_note_hashes[n[1]]
         /\ \A n \in Visited(known) :
               hashes_above(known)[n] # None /\ HashOf(Cut(L, index), n) # zero_note_hashes[n[1]] =>
                 n \in DOMAIN v.leaves
         /\ \A n : n \in DOMAIN v.temp <=> n \in DOMAIN s.temp
         /\ \A n \in DOMAIN v.temp : v.temp[n] = s.temp[n]
    BY <1>2, <1>3, <1>7, <1>8, RebuiltIs
  <1> HIDE DEF v
  <1>11. v.next = index
    BY <1>3, <1>10 DEF SameIndexes
  <1>12. \A n \in DOMAIN s.leaves : n \in DOMAIN v.leaves /\ v.leaves[n] = t.leaves[n]
    BY <1>3, <1>10
  <1>13. \A n \in Visited(known) :
           /\ n[1] # 0 /\ LeftEdge(n) < index
           /\ HashOf(Cut(L, index), n) # zero_note_hashes[n[1]] => n \in DOMAIN v.leaves
    BY <1>9, <1>10
  <1>14. /\ \A n : n \in DOMAIN v.temp <=> n \in DOMAIN t.temp /\ RightEdge(n) <= index
         /\ \A n \in DOMAIN v.temp : v.temp[n] = t.temp[n]
    BY <1>3, <1>10
  <1>15. Rolled(t, L, index, s, v)
    BY <1>2, <1>3, <1>4, <1>10, <1>11, <1>12, <1>13, <1>14 DEF Rolled, known
  <1> QED
    BY <1>1, <1>15 DEF s, v

\* What rollback comes to on its way down is read truly afterwards.
LEMMA RolledRead ==
  ASSUME NEW t, NEW L, NEW e, NEW s, NEW v, Rolled(t, L, e, s, v),
         NEW n \in Node, Reached(Kept(s, e), n)
  PROVE  get(v, n) = HashOf(Cut(L, e), n)
  <1> DEFINE known == Kept(s, e)
             M == Cut(L, e)
  <1>1. /\ e \in Nat /\ t.next \in Nat /\ e <= t.next /\ L \in Vectors(Values) /\ FilledTo(L, t.next)
        /\ v.next = e /\ Truncated(s, L, e)
    BY DEF Rolled, Typed, Usable, HoldsRoot, Whole
  <1>2. M \in Vectors(Values) /\ FilledTo(M, e)
    BY <1>1, LeafFacts, CutIs
  <1>3. DOMAIN known = {m \in Node : Beyond(m, e) \/ m \in DOMAIN s.leaves}
    BY KeptIs
  <1>4. LeftEdge(n) \in Nat /\ RightEdge(n) \in Nat /\ LeftEdge(n) < RightEdge(n)
    BY NodeIs
  <1>5. CASE n \in DOMAIN s.leaves
    <2>1. n \in DOMAIN v.leaves /\ v.leaves[n] = t.leaves[n] /\ n \in DOMAIN t.leaves /\ RightEdge(n) <= e
      BY <1>5 DEF Rolled
    <2>2. t.leaves[n] = HashOf(L, n)
      BY <2>1 DEF Rolled, Usable, HoldsRoot, StoredTrue
    <2>3. HashOf(M, n) = HashOf(L, n)
      BY <1>1, <2>1, CutBefore
    <2> QED
      BY <2>1, <2>2, <2>3 DEF get
  <1>6. CASE n \notin DOMAIN s.leaves /\ Beyond(n, e)
    <2>1. e <= LeftEdge(n)
      BY <1>1, <1>4, <1>6 DEF Beyond
    <2>2. n \notin DOMAIN v.leaves
      <3>1. n \notin Visited(known)
        BY <1>1, <1>4, <2>1 DEF Rolled
      <3> QED
        BY <1>6, <3>1 DEF Rolled
    <2>3. ~ RightEdge(n) <= v.next
      BY <1>1, <1>4, <2>1
    <2>4. HashOf(M, n) = default_hashes[n[1]]
      BY <1>1, <1>2, <2>1, BeyondEnd
    <2> QED
      BY <2>2, <2>3, <2>4 DEF get
  <1>7. CASE n \notin DOMAIN known
    <2>1. n \in Visited(known)
      BY <1>7 DEF Visited, Reached
    <2>2. n \notin DOMAIN s.leaves
      BY <1>3, <1>7
    <2>3. CASE n \in DOMAIN v.leaves
      <3>1. v.leaves[n] = HashOf(M, n)
        BY <2>2, <2>3 DEF Rolled
      <3> QED
        BY <2>3, <3>1 DEF get
    <2>4. CASE n \notin DOMAIN v.leaves
      <3>1. HashOf(M, n) = zero_note_hashes[n[1]]
        BY <2>1, <2>4 DEF Rolled
      <3>2. RightEdge(n) <= v.next
        BY <1>1, <1>2, <3>1, ZeroIsFilled
      <3> QED
        BY <2>4, <3>1, <3>2 DEF get
    <2> QED
      BY <2>3, <2>4
  <1> QED
    BY <1>3, <1>5, <1>6, <1>7

\* The nodes stored anew have the hash of what is read of their children, those that
\* are left keep it.
LEMMA RolledLinked ==
  ASSUME NEW t, NEW L, NEW e, NEW s, NEW v, Rolled(t, L, e, s, v), NEW m \in DOMAIN v.leaves, m[1] > 0,
         m \in DOMAIN s.leaves => Linked(t, m)
  PROVE  Linked(v, m)
  <1> DEFINE known == Kept(s, e)
             M == Cut(L, e)
  <1>1. /\ e \in Nat /\ t.next \in Nat /\ e <= t.next /\ L \in Vectors(Values) /\ FilledTo(L, t.next)
        /\ v.next = e
    BY DEF Rolled, Typed, Usable, HoldsRoot, Whole
  <1>2. M \in Vectors(Values)
    BY <1>1, LeafFacts, CutIs
  <1>3. m \in Node
    BY PartialIs DEF Rolled, Typed, Forest
  <1>4. DOMAIN known = {k \in Node : Beyond(k, e) \/ k \in DOMAIN s.leaves}
    BY KeptIs
  <1>5. CASE m \in DOMAIN s.leaves
    <2>1. /\ v.leaves[m] = t.leaves[m] /\ m \in DOMAIN t.leaves /\ RightEdge(m) <= e /\ Linked(t, m)
      BY <1>5 DEF Rolled
    <2>2. ASSUME NEW c \in {LeftChild(m), RightChild(m)} PROVE get(v, c) = get(t, c)
      <3>1. c \in Node /\ RightEdge(c) <= RightEdge(m) /\ m \in Ancestors(c)
        BY <1>3, AncestorsOfChild
      <3>2. RightEdge(c) \in Nat /\ RightEdge(m) \in Nat
        BY <1>3, <3>1, NodeIs
      <3>3. RightEdge(c) <= e /\ RightEdge(c) <= t.next
        BY <1>1, <2>1, <3>1, <3>2
      <3>4. c \notin Visited(known)
        <4>1. m \in DOMAIN known
          BY <1>3, <1>4, <1>5
        <4> QED
          BY <3>1, <4>1 DEF Visited
      <3>5. CASE c \in DOMAIN t.leaves
        <4>1. c \in DOMAIN s.leaves
          BY <3>3, <3>5 DEF Rolled
        <4>2. c \in DOMAIN v.leaves /\ v.leaves[c] = t.leaves[c]
          BY <4>1 DEF Rolled
        <4> QED
          BY <3>5, <4>2 DEF get
      <3>6. CASE c \notin DOMAIN t.leaves
        <4>1. c \notin DOMAIN s.leaves
          BY <3>6 DEF Rolled
        <4>2. c \notin DOMAIN v.leaves
          BY <3>4, <4>1 DEF Rolled
        <4> QED
          BY <1>1, <3>3, <3>6, <4>2 DEF get
      <3> QED
        BY <3>5, <3>6
    <2> QED
      BY <2>1, <2>2 DEF Linked
  <1>6. CASE m \notin DOMAIN s.leaves
    <2>1. m \in Visited(known) /\ v.leaves[m] = HashOf(M, m)
      BY <1>6 DEF Rolled
    <2>2. Reached(known, m) /\ m \notin DOMAIN known
      BY <2>1 DEF Visited, Reached
    <2>3. ASSUME NEW c \in {LeftChild(m), RightChild(m)} PROVE get(v, c) = HashOf(M, c)
      <3>1. Reached(known, c)
        BY <1>3, <2>2, ChildReached
      <3>2. c \in Node
        BY <1>3, AncestorsOfChild
      <3> QED
        BY <3>1, <3>2, RolledRead
    <2>4. poseidon(HashOf(M, LeftChild(m)), HashOf(M, RightChild(m))) = HashOf(M, m)
      BY <1>2, <1>3, HashOfChildren
    <2> QED
      BY <2>1, <2>3, <2>4 DEF Linked
  <1> QED
    BY <1>5, <1>6

\* After a rollback that returned a root the tree may be used: it holds the leaves up
\* to its end.
LEMMA RolledUsable ==
  ASSUME NEW t, NEW L, NEW e, NEW s, NEW v, Rolled(t, L, e, s, v)
  PROVE  Usable(v, Cut(L, e))
  <1> DEFINE known == Kept(s, e)
             M == Cut(L, e)
  <1>1. /\ e \in Nat /\ t.next \in Nat /\ e <= t.next /\ L \in Vectors(Values) /\ FilledTo(L, t.next)
        /\ v.next = e
    BY DEF Rolled, Typed, Usable, HoldsRoot, Whole
  <1>2. M \in Vectors(Values) /\ FilledTo(M, e)
    BY <1>1, LeafFacts, CutIs
  <1>3. \A m \in DOMAIN v.leaves : m \in Node
    BY PartialIs DEF Rolled, Typed, Forest
  <1>4. \A m \in DOMAIN s.leaves : m \in DOMAIN t.leaves /\ RightEdge(m) <= e /\ v.leaves[m] = t.leaves[m]
    BY DEF Rolled
  <1>5. HoldsRoot(v, M)
    <2>1. ASSUME NEW m \in DOMAIN v.leaves
          PROVE  /\ v.leaves[m] = HashOf(M, m) /\ LeftEdge(m) < v.next
                 /\ v.leaves[m] # zero_note_hashes[m[1]]
      <3>1. CASE m \in DOMAIN s.leaves
        <4>1. t.leaves[m] = HashOf(L, m) /\ t.leaves[m] # zero_note_hashes[m[1]]
          BY <1>4, <3>1 DEF Rolled, Usable, HoldsRoot, StoredTrue
        <4>2. HashOf(M, m) = HashOf(L, m)
          BY <1>1, <1>3, <1>4, <3>1, CutBefore
        <4>3. LeftEdge(m) \in Nat /\ RightEdge(m) \in Nat /\ LeftEdge(m) < RightEdge(m)
          BY <1>3, NodeIs
        <4> QED
          BY <1>1, <1>4, <3>1, <4>1, <4>2, <4>3
      <3>2. CASE m \notin DOMAIN s.leaves
        BY <1>1, <3>2 DEF Rolled
      <3> QED
        BY <3>1, <3>2
    <2>2. StoredTrue(v, M)
      BY <2>1 DEF StoredTrue
    <2>3. Root \in Node /\ Ancestors(Root) = {}
      <3>1. Root \in Node /\ Root[1] = HEIGHT
        BY RootIs
      <3>2. ASSUME NEW m \in Ancestors(Root) PROVE FALSE
        <4>1. m \in Node /\ Root[1] < m[1]
          BY <3>1, AboveHas
        <4>2. m[1] \in 0..HEIGHT /\ HEIGHT \in Nat
          BY <4>1, NodeIs, SizesAssumption
        <4> QED
          BY <3>1, <4>1, <4>2
      <3> QED
        BY <3>1, <3>2
    <2>4. Reached(known, Root)
      BY <2>3 DEF Reached
    <2>5. get_root(v) = HashOf(M, Root)
      BY <2>3, <2>4, RolledRead DEF get_root
    <2> QED
      BY <1>1, <1>2, <2>2, <2>5 DEF HoldsRoot
  <1>6. LeavesOpen(v)
    <2> SUFFICES ASSUME NEW k \in DOMAIN v.leaves, k[1] = 0, NEW m \in Ancestors(k), m \in DOMAIN v.leaves
                 PROVE  Linked(v, m)
      BY DEF LeavesOpen, OpenIn
    <2>1. k \in DOMAIN s.leaves
      BY DEF Rolled
    <2>2. m \in DOMAIN s.leaves => Linked(t, m)
      BY <1>4, <2>1 DEF Rolled, Usable, LeavesOpen, OpenIn
    <2>3. m[1] > 0
      BY <1>3, AboveHas
    <2> QED
      BY <2>2, <2>3, RolledLinked
  <1>7. EndOpen(v)
    <2> SUFFICES ASSUME NEW m \in DOMAIN v.leaves, LeftEdge(m) < v.next, v.next < RightEdge(m)
                 PROVE  Linked(v, m)
      BY DEF EndOpen
    <2>1. m \in Node /\ LeftEdge(m) \in Nat /\ RightEdge(m) = LeftEdge(m) + Width[m[1]] /\ RightEdge(m) \in Nat
          /\ m[1] \in Nat
      BY <1>3, NodeIs
    <2>2. m \notin DOMAIN s.leaves
      BY <1>1, <1>4, <2>1
    <2>3. m[1] > 0
      <3>1. m[1] = 0 => Width[m[1]] = 1
        BY WidthIs
      <3> QED
        BY <1>1, <2>1, <3>1
    <2> QED
      BY <2>2, <2>3, RolledLinked
  <1>8. TemporaryBelow(v)
    <2> SUFFICES ASSUME NEW m \in DOMAIN v.temp, FullIn(v, m)
                 PROVE  /\ RightEdge(m) <= v.next
                        /\ \A k \in DOMAIN v.leaves : m \in Ancestors(k) =>
                             FullIn(v, k) /\ Above(k, k[1] + 1) \in DOMAIN v.leaves
      BY DEF TemporaryBelow
    <2>1. m \in DOMAIN t.temp /\ RightEdge(m) <= e /\ FullIn(t, m) /\ m \in DOMAIN t.leaves
      BY DEF Rolled, FullIn, Typed
    <2>2. m \in DOMAIN s.leaves
      BY <2>1 DEF Rolled
    <2>3. m \in Node
      BY <2>1, PartialIs DEF Rolled, Typed, Forest
    <2>4. ASSUME NEW k \in DOMAIN v.leaves, m \in Ancestors(k)
          PROVE  FullIn(v, k) /\ Above(k, k[1] + 1) \in DOMAIN v.leaves
      <3> DEFINE p == Above(k, k[1] + 1)
      <3>1. k \in Node
        BY <1>3
      <3>2. k \notin Visited(known)
        <4>1. m \in DOMAIN known
          BY <2>2, <2>3, KeptIs
        <4> QED
          BY <2>4, <4>1 DEF Visited
      <3>3. k \in DOMAIN s.leaves
        BY <3>2 DEF Rolled
      <3>4. k \in DOMAIN t.leaves /\ RightEdge(k) <= e
        BY <1>4, <3>3
      <3>5. FullIn(t, k) /\ p \in DOMAIN t.leaves
        BY <2>1, <2>4, <3>4 DEF Rolled, Usable, TemporaryBelow
      <3>6. p \in Node /\ (p = m \/ m \in Ancestors(p))
        BY <2>4, <3>1, ParentBelow
      <3> HIDE DEF p
      <3>7. RightEdge(p) <= e
        <4>1. RightEdge(p) <= RightEdge(m)
          <5>1. CASE p = m
            BY <2>3, <5>1, NodeIs
          <5>2. CASE m \in Ancestors(p)
            BY <3>6, <5>2, AboveHas
          <5> QED
            BY <3>6, <5>1, <5>2
        <4>2. RightEdge(p) \in Nat /\ RightEdge(m) \in Nat
          BY <2>3, <3>6, NodeIs
        <4> QED
          BY <1>1, <2>1, <4>1, <4>2
      <3>8. p \in DOMAIN v.leaves
        BY <3>5, <3>7 DEF Rolled
      <3>9. FullIn(v, k)
        BY <3>4, <3>5 DEF Rolled, FullIn
      <3> QED
        BY <3>8, <3>9 DEF p
    <2> QED
      BY <1>1, <2>1, <2>4
  <1> QED
    BY <1>5, <1>6, <1>7, <1>8 DEF Usable

\* The index up to which the tree is known to be stable is no part of it.
LEMMA ResetIs ==
  ASSUME NEW t, Typed(t)
  PROVE  LET v == reset_stable_index(t)
         IN  /\ Typed(v) /\ v \in Forest /\ v.leaves = t.leaves /\ v.temp = t.temp
             /\ v.next = t.next /\ v.first = t.first
  <1> DEFINE v == reset_stable_index(t)
  <1>1. t \in Forest
    BY DEF Typed
  <1>2. /\ v \in Forest /\ v.leaves = t.leaves /\ v.temp = t.temp
        /\ v.next = t.next /\ v.first = t.first
    BY <1>1 DEF reset_stable_index, Forest
  <1> HIDE DEF v
  <1>3. Typed(v)
    BY <1>2 DEF Typed
  <1> QED
    BY <1>2, <1>3 DEF v

\* A rollback that returns a root leaves the ledger up to the index.
LEMMA PrefixIs ==
  ASSUME Typed(tree), NEW index \in Nat
  PROVE  Prefix(RollbackPoint(index)) = Cut(ledger, index)
  <1>1. RollbackPoint(index) = index
    BY DEF RollbackPoint, Typed
  <1>2. Prefix(index) = Cut(ledger, index)
    BY DEF Prefix, Cut, Index
  <1> QED
    BY <1>1, <1>2

\* rollback: when it fails the tree has its types, when it returns a root the tree may
\* be used.  Unless it removes a group the leaves stay.
LEMMA RollbackKeeps ==
  ASSUME IInv, NEW index \in 0..Capacity, Rollback(index)
  PROVE  IInv' /\ (intact' /\ tree'.next >= tree.next => LeavesStay)
  <1> DEFINE undo == rollback(tree, index)
             s == ShortAt(tree, index)
             e == EndAt(index)
             v == rebuild(s, e)
  <1>1. intact /\ Typed(tree) /\ Usable(tree, ledger) /\ ledger \in Vectors(Values) /\ index <= tree.next
    BY DEF IInv, Rollback
  <1>2. tree' = Last(undo.writes) /\ intact' = (undo.root # None)
        /\ ledger' = IF undo.root # None THEN Prefix(RollbackPoint(index)) ELSE ledger
    BY DEF Rollback
  <1>3. index \in Nat /\ tree.next \in Nat /\ index \in 0..tree.next
    BY <1>1, GroupSizeIs DEF Typed, Whole
  <1>4. HoldsRoot(tree, ledger) /\ FilledTo(ledger, tree.next)
    BY <1>1 DEF Usable, HoldsRoot
  <1>5. \/ undo.root = None /\ Last(undo.writes) = tree
        \/ /\ undo.root = rebuilt_node(s, e, Root)
           /\ Last(undo.writes) = reset_stable_index(v)
    BY <1>1, <1>3, RollbackWas
  <1> HIDE DEF undo
  <1>6. CASE undo.root = None /\ Last(undo.writes) = tree
    BY <1>1, <1>2, <1>6 DEF IInv
  <1>7. CASE undo.root = rebuilt_node(s, e, Root) /\ Last(undo.writes) = reset_stable_index(v)
    <2>1. Typed(v)
      BY <1>1, <1>3, <1>4, RolledTyped
    <2>2. /\ Typed(tree') /\ tree' \in Forest /\ tree'.leaves = v.leaves /\ tree'.temp = v.temp
          /\ tree'.next = v.next /\ tree'.first = v.first
      <3> HIDE DEF v
      <3> QED
        BY <1>2, <1>7, <2>1, ResetIs
    <2>3. CASE undo.root = None
      BY <1>1, <1>2, <2>2, <2>3 DEF IInv
    <2>4. CASE undo.root # None
      <3>1. rebuilt_node(s, e, Root) # None
        BY <1>7, <2>4
      <3>2. Rolled(tree, ledger, index, s, v)
        BY <1>1, <1>3, <3>1, RolledIs
      <3> HIDE DEF s, v, e
      <3>3. Usable(v, Cut(ledger, index))
        BY <3>2, RolledUsable
      <3>4. Usable(tree', Cut(ledger, index))
        BY <2>1, <2>2, <3>3, SameTree
      <3>5. ledger' = Cut(ledger, index)
        BY <1>1, <1>2, <1>3, <2>4, PrefixIs
      <3>6. Cut(ledger, index) \in Vectors(Values)
        BY <3>4 DEF Usable, HoldsRoot
      <3>7. intact' = TRUE
        BY <1>2, <2>4
      <3>8. IInv'
        BY <2>2, <3>4, <3>5, <3>6, <3>7 DEF IInv
      <3>9. ASSUME tree'.next >= tree.next, NEW m \in DOMAIN tree.leaves, m[1] = 0
            PROVE  m \in DOMAIN tree'.leaves
        <4>1. v.next = index
          BY <3>2 DEF Rolled
        <4>2. index = tree.next
          BY <1>1, <1>3, <2>2, <3>9, <4>1
        <4>3. LeftEdge(m) < tree.next /\ m \in Node
          BY <1>1, <1>4, <3>9 DEF HoldsRoot, StoredTrue, Typed, Forest, PartialHashes
        <4>4. RightEdge(m) = LeftEdge(m) + 1 /\ LeftEdge(m) \in Nat
          BY <3>9, <4>3, NodeIs, WidthIs
        <4>5. RightEdge(m) <= index
          BY <1>3, <4>2, <4>3, <4>4
        <4>6. m \in DOMAIN s.leaves
          BY <3>2, <3>9, <4>5 DEF Rolled
        <4> QED
          BY <2>2, <3>2, <4>6 DEF Rolled
      <3> QED
        BY <3>8, <3>9 DEF LeavesStay
    <2> QED
      BY <2>3, <2>4
  <1> QED
    BY <1>5, <1>6, <1>7

-----------------------------------------------------------------------------
\* What a step does to the permanent leaves.
PermanentKept ==
  tree'.next >= tree.next /\ tree.next > 0 /\ intact /\ intact' =>
    PermanentLeaves(tree) \subseteq DOMAIN tree'.leaves

\* A step after which the stored leaves are still stored keeps the permanent ones.
LEMMA StayKeeps ==
  ASSUME LeavesStay
  PROVE  PermanentLeaves(tree) \subseteq DOMAIN tree'.leaves
  BY DEF LeavesStay, PermanentLeaves

\* Every step keeps the invariant, and the permanent leaves unless it removes a group
\* or empties the tree.
LEMMA NextKeeps ==
  ASSUME IInv, [Next]_vars
  PROVE  IInv' /\ PermanentKept
  <1>1. ASSUME NEW index \in Index, AddHash(index, ZeroNote, FALSE)
        PROVE  IInv' /\ PermanentKept
    <2>1. AddHash(index, ZeroNote, Permanent) /\ Permanent \in BOOLEAN
          /\ (Permanent => ZeroNote \in LeafHashes) /\ ZeroNote \in {ZeroNote} \cup LeafHashes
      BY <1>1 DEF Permanent
    <2>2. IInv' /\ LeavesStay
      BY <2>1, AddHashKeeps
    <2> QED
      BY <2>2, StayKeeps DEF PermanentKept
  <1>2. ASSUME NEW index \in Index, NEW hash \in LeafHashes, NEW temporary \in BOOLEAN,
               AddHash(index, hash, temporary)
        PROVE  IInv' /\ PermanentKept
    <2>1. IInv' /\ LeavesStay
      BY <1>2, AddHashKeeps
    <2> QED
      BY <2>1, StayKeeps DEF PermanentKept
  <1>3. ASSUME NEW hash \in LeafHashes, NEW temporary \in BOOLEAN, AppendHash(hash, temporary)
        PROVE  IInv' /\ PermanentKept
    <2>1. IInv' /\ LeavesStay
      BY <1>3, AppendHashKeeps
    <2> QED
      BY <2>1, StayKeeps DEF PermanentKept
  <1>4. ASSUME NEW group \in 0..(Capacity \div GroupSize - 1), NEW hash \in Commitments,
               AddCommitment(group, hash)
        PROVE  IInv' /\ PermanentKept
    <2>1. IInv' /\ LeavesStay
      BY <1>4, AddCommitmentKeeps
    <2> QED
      BY <2>1, StayKeeps DEF PermanentKept
  <1>5. ASSUME NEW index \in 0..Capacity, Rollback(index)
        PROVE  IInv' /\ PermanentKept
    <2>1. IInv' /\ (intact' /\ tree'.next >= tree.next => LeavesStay)
      BY <1>5, RollbackKeeps
    <2> QED
      BY <2>1, StayKeeps DEF PermanentKept
  <1>6. ASSUME Wipe PROVE IInv' /\ PermanentKept
    <2>1. IInv' /\ tree'.next = 0
      BY <1>6, WipeKeeps
    <2>2. tree.next \in Nat
      BY DEF IInv, Typed, Whole
    <2>3. ~ (tree'.next >= tree.next /\ tree.next > 0)
      BY <2>1, <2>2
    <2> QED
      BY <2>1, <2>3 DEF PermanentKept
  <1>7. ASSUME NEW index \in CleanPoints, CleanBefore(index)
        PROVE  IInv' /\ PermanentKept
    <2>1. /\ IInv'
          /\ \A m \in DOMAIN tree.leaves :
               m[1] = 0 /\ m \notin DOMAIN tree.temp => m \in DOMAIN tree'.leaves
      BY <1>7, CleanKeeps
    <2> QED
      BY <2>1 DEF PermanentKept, PermanentLeaves
  <1>8. CASE UNCHANGED vars
    BY <1>8 DEF vars, IInv, PermanentKept, PermanentLeaves
  <1> QED
    BY <1>1, <1>2, <1>3, <1>4, <1>5, <1>6, <1>7, <1>8 DEF Next

\* The invariant holds always.
LEMMA Inductive == Spec => []IInv
  <1>1. IInv /\ [Next]_vars => IInv'
    BY NextKeeps
  <1> QED
    BY InitHolds, <1>1, PTL DEF Spec

\* What TypeOK says follows from the invariant.
LEMMA InvariantType ==
  ASSUME IInv
  PROVE  TypeOK
  <1>1. /\ Typed(tree) /\ tree \in Forest /\ ledger \in Vectors(Values) /\ intact \in BOOLEAN
        /\ tree.leaves \in PartialHashes(Values)
    BY DEF IInv, Typed, Forest
  <1>2. DOMAIN tree.leaves \subseteq Node
    BY <1>1, PartialIs
  <1>3. ASSUME NEW n \in DOMAIN tree.leaves PROVE Len(tree.leaves[n]) = Width[n[1]]
    <2>1. tree.leaves[n] \in [1..Width[n[1]] -> Values] /\ Width[n[1]] \in Nat
      BY <1>1, <1>2, NodeIs DEF Typed, Rows
    <2> QED
      BY <2>1
  <1>4. \A n \in DOMAIN tree.temp : n \in Node /\ tree.temp[n] \in 1..Width[n[1]]
    BY <1>1, <1>2 DEF Typed
  <1>5. tree.next \in 0..Capacity /\ tree.next % GroupSize = 0
    BY <1>1, GroupSizeIs DEF Typed, Whole
  <1>6. tree.first \in Index \cup {None}
    <2>1. 0 \in Index
      BY GroupSizeIs DEF Index
    <2> QED
      BY <1>1, <2>1 DEF Typed
  <1>7. DOMAIN ledger = Index
    BY <1>1 DEF Vectors, Index
  <1> QED
    BY <1>1, <1>2, <1>3, <1>4, <1>5, <1>6, <1>7 DEF TypeOK

\* The siblings of a stored leaf are read truly: what is above them is above the leaf.
LEMMA ProofsLead ==
  ASSUME NEW t, NEW L, Typed(t), Usable(t, L), NEW n \in DOMAIN t.leaves, n[1] = 0
  PROVE  FoldProof(t.leaves[n], n[2], get_proof_unchecked(t, n[2])) = get_root(t)
  <1> DEFINE proof == get_proof_unchecked(t, n[2])
  <1>1. /\ n \in Node /\ HoldsRoot(t, L) /\ t.leaves[n] = HashOf(L, n) /\ L \in Vectors(Values)
        /\ OpenIn(t, n) /\ get_root(t) = HashOf(L, Root)
    BY PartialIs DEF Typed, Forest, Usable, HoldsRoot, StoredTrue, LeavesOpen
  <1>2. n = <<0, n[2]>> /\ n[2] \in 0..(Capacity - 1)
    <2>1. n[2] \in Nat /\ n[2] < Width[HEIGHT - n[1]] /\ HEIGHT \in Nat /\ n = <<n[1], n[2]>>
      BY <1>1, NodeIs, SizesAssumption
    <2>2. HEIGHT - n[1] = HEIGHT
      BY <2>1
    <2>3. n[2] < Capacity /\ Capacity \in Nat
      BY <2>1, <2>2, GroupSizeIs DEF Capacity
    <2>4. n[2] \in 0..(Capacity - 1)
      BY <2>1, <2>3
    <2> QED
      BY <2>1, <2>4
  <1>3. \A h \in 0..(HEIGHT - 1) : proof[h] = HashOf(L, Sibling(Above(<<0, n[2]>>, h)))
    <2> SUFFICES ASSUME NEW h \in 0..(HEIGHT - 1)
                 PROVE  proof[h] = HashOf(L, Sibling(Above(<<0, n[2]>>, h)))
      OBVIOUS
    <2>1. proof[h] = get(t, Sibling(Above(<<0, n[2]>>, h)))
      BY DEF get_proof_unchecked
    <2> DEFINE b == Sibling(Above(n, h))
    <2>2. h \in n[1]..(HEIGHT - 1)
      OBVIOUS
    <2>3. b \in Node /\ Ancestors(b) \subseteq Ancestors(n)
      BY <1>1, <2>2, Beside
    <2> HIDE DEF b
    <2>4. OpenIn(t, b)
      BY <1>1, <2>3 DEF OpenIn
    <2>5. get(t, b) = HashOf(L, b)
      BY <1>1, <2>3, <2>4, OpenRead
    <2> QED
      BY <1>2, <2>1, <2>5 DEF b
  <1> HIDE DEF proof
  <1>4. FoldProof(HashOf(L, <<0, n[2]>>), n[2], proof) = HashOf(L, Above(<<0, n[2]>>, HEIGHT))
    BY <1>1, <1>2, <1>3, FoldTrue
  <1>5. Above(n, HEIGHT) = Root
    <2>1. /\ Root \in Node /\ Root[1] = HEIGHT /\ LeftEdge(Root) = 0 /\ RightEdge(Root) = Capacity
      BY RootIs
    <2>2. /\ HEIGHT \in Nat /\ Capacity \in Nat /\ LeftEdge(n) \in Nat /\ RightEdge(n) \in Nat
          /\ LeftEdge(n) < RightEdge(n) /\ RightEdge(n) <= Capacity
      BY <1>1, SizesAssumption, GroupSizeIs, NodeIs
    <2>3. n[1] <= Root[1] /\ LeftEdge(Root) < RightEdge(n) /\ LeftEdge(n) < RightEdge(Root)
      BY <2>1, <2>2
    <2> QED
      BY <1>1, <2>1, <2>3, AboveUnique
  <1> QED
    BY <1>1, <1>2, <1>4, <1>5 DEF proof

\* A root that rollback would return is that of the leaves up to the index.
LEMMA RollbackReturns ==
  ASSUME Typed(tree), Usable(tree, ledger), NEW index \in 0..tree.next
  PROVE  rollback(tree, index).root \in {None, HashOf(Prefix(RollbackPoint(index)), Root)}
  <1> DEFINE s == ShortAt(tree, index)
             e == EndAt(index)
  <1>1. HoldsRoot(tree, ledger) /\ ledger \in Vectors(Values) /\ FilledTo(ledger, tree.next)
    BY DEF Usable, HoldsRoot
  <1>2. index \in Nat /\ tree.next \in Nat /\ e \in Nat /\ e <= tree.next
    BY EndAtIs
  <1>3. \/ rollback(tree, index).root = None
        \/ rollback(tree, index).root = rebuilt_node(s, e, Root)
    BY RollbackWas
  <1>4. Truncated(s, ledger, e)
    BY <1>1, ShortIs
  <1>5. Prefix(RollbackPoint(index)) = Cut(ledger, index)
    BY <1>2, PrefixIs
  <1>6. rebuilt_node(s, e, Root) # None => e = index
    BY <1>1, RolledWhole
  <1> HIDE DEF s, e
  <1>7. rebuilt_node(s, e, Root) \in {None, HashOf(Cut(ledger, e), Root)}
    <2>1. \A n \in Node : Reached(Kept(s, e), n) =>
              hashes_above(Kept(s, e))[n] \in {None, HashOf(Cut(ledger, e), n)}
      BY <1>1, <1>2, <1>4, NoneIsNoValue, LeafFacts, RebuiltRoot
    <2>2. Ancestors(Root) = {}
      BY RootIs, AncestorsAre, NodeIs
    <2> QED
      BY <2>1, <2>2, RootIs DEF Reached, rebuilt_node
  <1> QED
    BY <1>3, <1>5, <1>6, <1>7

-----------------------------------------------------------------------------
\* Hashes are stored under nodes of their height, the end is that of a group, and no
\* node counts more temporary leaves than it has (merkle.rs set_batched,
\* update_path_batched, clean_before_index).
THEOREM RelayerTypeCorrect == Spec => []TypeOK
  <1>1. IInv => TypeOK
    BY InvariantType
  <1> QED
    BY <1>1, Inductive, PTL

\* The root a relayer gives out is the root of the leaves it was told, in whatever
\* order they came and whatever was cleaned (merkle.rs get_root, add_hash,
\* append_hash, add_commitment, clean_before_index, rollback).
THEOREM RelayerRootIsTrue == Spec => []RootIsLedger
  <1>1. IInv => RootIsLedger
    BY DEF IInv, Usable, HoldsRoot, RootIsLedger
  <1> QED
    BY <1>1, Inductive, PTL

\* A proof for a stored leaf leads to that root (merkle.rs get_proof_unchecked).
THEOREM RelayerLeafProofsAreTrue == Spec => []LeafProofsLeadToRoot
  <1>1. ASSUME IInv PROVE LeafProofsLeadToRoot
    <2>1. ASSUME intact, NEW n \in {m \in DOMAIN tree.leaves : m[1] = 0}
          PROVE  FoldProof(tree.leaves[n], n[2], get_proof_unchecked(tree, n[2])) = get_root(tree)
      BY <1>1, <2>1, ProofsLead DEF IInv
    <2> QED
      BY <2>1 DEF LeafProofsLeadToRoot
  <1> QED
    BY <1>1, Inductive, PTL

\* A rollback returns the root of the leaves up to the index or none: not that of
\* another tree when what it needs was cleaned away or was never known (merkle.rs
\* rollback, get_node_full_batched).
THEOREM RelayerRollbackIsTrue == Spec => []RollbackNeverWrong
  <1>1. ASSUME IInv PROVE RollbackNeverWrong
    <2>1. ASSUME intact, NEW index \in 0..tree.next
          PROVE  rollback(tree, index).root \in {None, HashOf(Prefix(RollbackPoint(index)), Root)}
      BY <1>1, <2>1, RollbackReturns DEF IInv
    <2> QED
      BY <2>1 DEF RollbackNeverWrong
  <1> QED
    BY <1>1, Inductive, PTL

\* Cleaning and adding never remove a leaf that is not temporary (merkle.rs
\* clean_before_index, subtree_contains_only_temporary_leaves, add_hash_at_height).
THEOREM PermanentLeavesAreKept == Spec => PermanentLeavesStay
  <1>1. IInv /\ [Next]_vars =>
          [tree'.next >= tree.next /\ tree.next > 0 /\ intact /\ intact' =>
             PermanentLeaves(tree) \subseteq DOMAIN tree'.leaves]_vars
    BY NextKeeps DEF PermanentKept
  <1> QED
    BY <1>1, Inductive, PTL DEF Spec, PermanentLeavesStay

=============================================================================
