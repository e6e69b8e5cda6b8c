----------------------------- MODULE MerkleTree -----------------------------
(***************************************************************************)
(* The persistent commitment tree of libzkbob-rs/src/merkle.rs.            *)
(*                                                                         *)
(* A tree of fixed height whose leaves come in groups of 2^OUTPLUSONELOG   *)
(* (one group per transaction: the account, the notes, zero padding).  A   *)
(* transaction of somebody else is known only by the hash of its group,    *)
(* its commitment.  Nodes are stored sparsely: a node equal to the hash of *)
(* an all-zero-note subtree is never stored, a node right of next_index    *)
(* has the default hash.                                                   *)
(*                                                                         *)
(* Hashes are symbolic.  A hash of height h is the sequence of the 2^h     *)
(* leaf values below it, poseidon concatenates: two hashes are equal iff   *)
(* the subtrees are, which is what collision resistance promises.          *)
(*                                                                         *)
(* The operators named Bug... are variants of the operator after them with *)
(* a plausible mistake; they show that the properties notice it.           *)
(***************************************************************************)
EXTENDS Integers, SequencesExt

CONSTANTS
  HEIGHT,         \* height of the tree (48 in the program)
  OUTPLUSONELOG,  \* log2 of the size of a group of leaves (7)
  Default,        \* the leaf value of an untouched position (Num::ZERO)
  ZeroNote,       \* the hash of zero_note()
  None            \* Option::None

ASSUME SizesAssumption ==
  /\ OUTPLUSONELOG \in Nat
  /\ HEIGHT \in Nat
  /\ OUTPLUSONELOG <= HEIGHT
ASSUME SentinelsAssumption ==
  /\ Default # ZeroNote
  /\ None \notin Int

\* The number of leaves below a node of each height.
Width ==
  LET width[h \in 0..HEIGHT] == IF h = 0 THEN 1 ELSE 2 * width[h - 1]
  IN  [h \in 0..HEIGHT |-> width[h]]

GroupSize == Width[OUTPLUSONELOG]
Capacity == Width[HEIGHT]

\* Nodes are pairs <<height, index>>, as in node_key.
Node == {n \in (0..HEIGHT) \X (0..(Capacity - 1)) : n[2] < Width[HEIGHT - n[1]]}

Root == <<HEIGHT, 0>>
LeftEdge(n) == n[2] * Width[n[1]]
RightEdge(n) == (n[2] + 1) * Width[n[1]]
Sibling(n) == <<n[1], IF n[2] % 2 = 0 THEN n[2] + 1 ELSE n[2] - 1>>
LeftChild(n) == <<n[1] - 1, 2 * n[2]>>
RightChild(n) == <<n[1] - 1, 2 * n[2] + 1>>
\* The node of height h above (or at) node n.
Above(n, h) == <<h, n[2] \div Width[h - n[1]]>>
Ancestors(n) == {Above(n, h) : h \in (n[1] + 1)..HEIGHT}

poseidon(l, r) == l \o r

\* The hash of a node over given leaves.
HashOf(leaves, n) == [k \in 1..Width[n[1]] |-> leaves[LeftEdge(n) + k - 1]]

default_hashes == [h \in 0..HEIGHT |-> [k \in 1..Width[h] |-> Default]]
zero_note_hashes == [h \in 0..HEIGHT |-> [k \in 1..Width[h] |-> ZeroNote]]

calc_first_index(leaf) == (leaf \div GroupSize) * GroupSize
BugNextIndex(leaf) == leaf + 1
calc_next_index(leaf) == (leaf \div GroupSize + 1) * GroupSize

-----------------------------------------------------------------------------
(***************************************************************************)
(* A tree value is the struct MerkleTree with the columns of its database: *)
(* leaves and temp are the columns Leaves and TempLeaves, db_next and      *)
(* db_first the two keys of column NextIndex (None: no such key), stable   *)
(* and clean the two keys of column NamedIndex (an absent key reads as 0), *)
(* next and first the two fields kept in memory.                           *)
(***************************************************************************)
NoNodes == [n \in {} |-> None]

EmptyTree ==
  [leaves |-> NoNodes, temp |-> NoNodes, db_next |-> None, db_first |-> None,
   stable |-> 0, clean |-> 0, next |-> 0, first |-> None]

\* get_with_next_index, get, get_opt and get_root.
BugGetBoundary(t, n) ==
  IF n \in DOMAIN t.leaves THEN t.leaves[n]
  ELSE IF RightEdge(n) < t.next THEN zero_note_hashes[n[1]]
       ELSE default_hashes[n[1]]

BugGetDefault(t, n) ==
  IF n \in DOMAIN t.leaves THEN t.leaves[n] ELSE default_hashes[n[1]]

get(t, n) ==
  IF n \in DOMAIN t.leaves THEN t.leaves[n]
  ELSE IF RightEdge(n) <= t.next THEN zero_note_hashes[n[1]]
       ELSE default_hashes[n[1]]

BugGetOpt(t, n) == get(t, n)

get_opt(t, n) == IF n \in DOMAIN t.leaves THEN t.leaves[n] ELSE None

get_root(t) == get(t, Root)

temporary_count(t, n) == IF n \in DOMAIN t.temp THEN t.temp[n] ELSE 0

BugAnyTemporary(t, n) == temporary_count(t, n) > 0

subtree_contains_only_temporary_leaves(t, n) == temporary_count(t, n) = Width[n[1]]

\* set_batched for every node of hashes; counts gives their temporary leaves.
set_batched(t, hashes, counts) ==
  LET stored  == {n \in DOMAIN hashes : hashes[n] # zero_note_hashes[n[1]]}
      counted == {n \in DOMAIN hashes : counts[n] > 0}
      merge(old, new, keep) ==
        [n \in (DOMAIN old \ DOMAIN hashes) \cup keep |->
           IF n \in keep THEN new[n] ELSE old[n]]
  IN  [t EXCEPT !.leaves = merge(@, hashes, stored),
                !.temp = merge(@, counts, counted)]

put_hashes(t, hashes) == set_batched(t, hashes, [n \in DOMAIN hashes |-> 0])

\* remove_batched for every node of gone.
remove_batched(t, gone) ==
  [t EXCEPT !.leaves = Restrict(@, DOMAIN @ \ gone),
            !.temp = Restrict(@, DOMAIN @ \ gone)]

BugNextNotWritten(t, next) == IF next >= t.next THEN [t EXCEPT !.next = next] ELSE t

update_next_index(t, next) ==
  IF next >= t.next THEN [t EXCEPT !.next = next, !.db_next = next] ELSE t

update_first_index(t, first) ==
  IF t.first = None \/ first < t.first
  THEN [t EXCEPT !.first = first, !.db_first = first]
  ELSE t

\* new: the indexes come from their keys or, in a database that has none,
\* from the stored leaves and commitments.
BugScanLeavesOnly(t) == {n \in DOMAIN t.leaves : n[1] = 0}

Scanned(t) == {n \in DOMAIN t.leaves : n[1] \in {0, OUTPLUSONELOG}}

scan_next_index(t) ==
  Max({0} \cup {calc_next_index(LeftEdge(n)) : n \in Scanned(t)})

scan_first_index(t) ==
  IF Scanned(t) = {} THEN None ELSE Min({LeftEdge(n) : n \in Scanned(t)})

open(t) ==
  [t EXCEPT !.next = IF t.db_next # None THEN t.db_next ELSE scan_next_index(t),
            !.first = IF t.db_first # None THEN t.db_first ELSE scan_first_index(t)]

-----------------------------------------------------------------------------
(***************************************************************************)
(* Reading a tree.                                                         *)
(***************************************************************************)
\* get_proof_unchecked: the siblings on the way from a leaf to the root.
get_proof_unchecked(t, index) ==
  [h \in 0..(HEIGHT - 1) |-> get(t, Sibling(Above(<<0, index>>, h)))]

\* The hash a verifier obtains from a leaf and its proof.
FoldProof(leaf, index, proof) ==
  LET up[h \in 0..HEIGHT] ==
        IF h = 0 THEN leaf
        ELSE IF Above(<<0, index>>, h - 1)[2] % 2 = 0
             THEN poseidon(up[h - 1], proof[h - 1])
             ELSE poseidon(proof[h - 1], up[h - 1])
  IN  up[HEIGHT]

\* get_root_at: the root when the tree ended at index, from the left
\* siblings of index; None when index is too far or a sibling is not stored.
get_root_at(t, index) ==
  LET zeros == Max({h \in 0..HEIGHT : index % Width[h] = 0})
      up[h \in zeros..HEIGHT] ==
        IF h = zeros THEN default_hashes[zeros]
        ELSE LET below == Above(<<0, index>>, h - 1)
                 left  == get_opt(t, Sibling(below))
             IN  IF up[h - 1] = None THEN None
                 ELSE IF below[2] % 2 = 0
                      THEN poseidon(up[h - 1], default_hashes[h - 1])
                      ELSE IF left = None THEN None
                           ELSE poseidon(left, up[h - 1])
  IN  IF index > t.next THEN None ELSE up[HEIGHT]

\* get_left_siblings: the nodes a client needs to start a partial tree at
\* index; None when index is too far.
BugSiblingsOnPath(t, index) ==
  LET path == {Above(<<0, index>>, h) : h \in 0..(HEIGHT - 1)}
  IN  IF index > t.next THEN None
      ELSE [n \in {Sibling(m) : m \in {k \in path : k[2] % 2 = 1}} |-> get(t, Sibling(n))]

get_left_siblings(t, index) ==
  LET path == {Above(<<0, index>>, h) : h \in 0..(HEIGHT - 1)}
      left == {Sibling(n) : n \in {m \in path : m[2] % 2 = 1}}
  IN  IF index > t.next THEN None ELSE [n \in left |-> get(t, n)]

(***************************************************************************)
(* Two functions descend from the root and compute the hashes of nodes     *)
(* from those of their children, down to nodes whose hashes they know:     *)
(* get_virtual_node_full and get_node_full_batched.  A leaf that is not    *)
(* known has no hash, nor have the nodes above it.                         *)
(***************************************************************************)
hash_of_children(l, r) == IF l = None \/ r = None THEN None ELSE poseidon(l, r)

hashes_above(known) ==
  LET value[m \in Node] ==
        IF m \in DOMAIN known THEN known[m]
        ELSE IF m[1] = 0 THEN None
        ELSE hash_of_children(value[LeftChild(m)], value[RightChild(m)])
  IN  value

Visited(known) ==
  {n \in Node : n \notin DOMAIN known /\ \A m \in Ancestors(n) : m \notin DOMAIN known}

(***************************************************************************)
(* get_virtual_node_full.  nodes are the given virtual nodes, b the struct *)
(* UpdateBoundaries.  A node outside the updated range is read from the    *)
(* tree, one inside it but outside the new hashes is padding, one given    *)
(* (or memoized) is taken, any other is computed from its children (at a   *)
(* leaf, in a gap between the groups of one call, the recursion would      *)
(* leave the tree).  The function adds to nodes what it computed on the    *)
(* way to the root: virtual_subtree.                                       *)
(***************************************************************************)
BugUntouched(n, b) ==
  \/ LeftEdge(n) < b.updated_left
  \/ b.updated_right <= LeftEdge(n)

Untouched(n, b) ==
  \/ RightEdge(n) <= b.updated_left
  \/ b.updated_right <= LeftEdge(n)

Padding(n, b) ==
  /\ RightEdge(n) <= b.new_left \/ b.new_right <= LeftEdge(n)
  /\ b.updated_left <= LeftEdge(n)
  /\ RightEdge(n) <= b.updated_right

Settled(t, nodes, b) ==
  [n \in {m \in Node : Untouched(m, b) \/ Padding(m, b) \/ m \in DOMAIN nodes} |->
     IF Untouched(n, b) THEN get(t, n)
     ELSE IF Padding(n, b) THEN zero_note_hashes[n[1]]
     ELSE nodes[n]]

virtual_node(t, nodes, b, n) == hashes_above(Settled(t, nodes, b))[n]

virtual_subtree(t, nodes, b) ==
  LET settled == Settled(t, nodes, b)
      hashes  == hashes_above(settled)
      visited == Visited(settled)
  IN  [n \in visited \cup DOMAIN nodes |-> IF n \in visited THEN hashes[n] ELSE nodes[n]]

-----------------------------------------------------------------------------
(***************************************************************************)
(* Updating a tree.  Every update is the sequence of tree values that its  *)
(* database transactions produce, in the order they are written; its last  *)
(* element is the result.  (A crash keeps the database of a prefix: module *)
(* MerkleTreeCrash.)                                                       *)
(***************************************************************************)

(***************************************************************************)
(* add_hash_at_height with update_path_batched: store one node and         *)
(* recompute its ancestors from the nodes that are stored beside the path. *)
(***************************************************************************)
add_hash_at_height(t, n, hash, temporary) ==
  LET next  == calc_next_index(RightEdge(n) - 1)
      t1    == update_next_index(t, next)
      t2    == IF n[1] \in {0, OUTPLUSONELOG}
               THEN update_first_index(t1, calc_first_index(LeftEdge(n)))
               ELSE t1
      beside(h) == Sibling(Above(n, h))
      up[h \in n[1]..HEIGHT] ==
        IF h = n[1] THEN hash
        ELSE IF Above(n, h - 1)[2] % 2 = 0
             THEN poseidon(up[h - 1], get(t2, beside(h - 1)))
             ELSE poseidon(get(t2, beside(h - 1)), up[h - 1])
      count[h \in n[1]..HEIGHT] ==
        IF h = n[1] THEN IF temporary THEN 1 ELSE 0
        ELSE count[h - 1] + temporary_count(t2, beside(h - 1))
      path == {n} \cup Ancestors(n)
  IN  IF hash = zero_note_hashes[n[1]] /\ next < t.next
      THEN <<t1, t2>>
      ELSE <<t1, t2, set_batched(t2, [m \in path |-> up[m[1]]],
                                     [m \in path |-> count[m[1]]])>>

append_hash(t, hash, temporary) ==
  add_hash_at_height(t, <<0, t.next>>, hash, temporary)

(***************************************************************************)
(* add_leafs_commitments_and_siblings.  batch maps the first index of a    *)
(* group to what the caller knows of it: its leaves, or only the hash of   *)
(* the group.  siblings are nodes of the part of the tree left of a        *)
(* partial tree.                                                           *)
(***************************************************************************)
LeafTx(leafs) == [kind |-> "leafs", leafs |-> leafs]
CommitmentTx(hash) == [kind |-> "commitment", hash |-> hash]

OfKind(batch, kind) == {i \in DOMAIN batch : batch[i].kind = kind}

LastLeaf(batch, i) == i + Len(batch[i].leafs) - 1

\* The zero-note nodes inserted right of the last leaf of a group.
BugPaddingAtLast(last, h) == last \div Width[h]

PaddingAt(last, h) == last \div Width[h] + 1

PaddingNodes(index, last) ==
  {<<h, PaddingAt(last, h)>> :
     h \in {k \in 0..(OUTPLUSONELOG - 1) :
              /\ PaddingAt(last, k) < (index + GroupSize) \div Width[k]
              /\ PaddingAt(last, k) % 2 = 1}}

GivenNodes(batch) ==
  LET commitments == {Above(<<0, i>>, OUTPLUSONELOG) : i \in OfKind(batch, "commitment")}
      leafs == UNION {{<<0, j>> : j \in i..LastLeaf(batch, i)} : i \in OfKind(batch, "leafs")}
      padding == UNION {PaddingNodes(i, LastLeaf(batch, i)) : i \in OfKind(batch, "leafs")}
  IN  [n \in commitments \cup leafs \cup padding |->
         IF n \in commitments THEN batch[LeftEdge(n)].hash
         ELSE IF n \in leafs
              THEN <<batch[calc_first_index(n[2])].leafs[(n[2] % GroupSize) + 1]>>
              ELSE zero_note_hashes[n[1]]]

\* The last index a batch touches: the last leaf of a group of leaves, the
\* FIRST index of a commitment.
LastBound(batch) ==
  Max({LastLeaf(batch, i) : i \in OfKind(batch, "leafs")}
        \cup OfKind(batch, "commitment"))

add_leafs_commitments_and_siblings(t, batch, siblings) ==
  LET last  == Max({LastBound(batch)} \cup {RightEdge(n) - 1 : n \in DOMAIN siblings})
      first == Min(DOMAIN batch \cup {LeftEdge(n) : n \in DOMAIN siblings})
      t1    == update_next_index(t, calc_next_index(last))
      t2    == update_first_index(t1, Min(DOMAIN batch))
      given == GivenNodes(batch)
      nodes == [n \in DOMAIN given \cup DOMAIN siblings |->
                  IF n \in DOMAIN siblings THEN siblings[n] ELSE given[n]]
      b     == [updated_left |-> t.next, updated_right |-> t1.next,
                new_left |-> first, new_right |-> last + 1]
  IN  <<t1, t2, put_hashes(t2, virtual_subtree(t2, nodes, b))>>

NoSiblings == NoNodes

add_leafs_and_commitments(t, batch) ==
  add_leafs_commitments_and_siblings(t, batch, NoSiblings)

(***************************************************************************)
(* get_virtual_subtree: what the tree would be after a batch that is not   *)
(* final yet; get_root_optimistic and get_proof_optimistic_index read it.  *)
(***************************************************************************)
BugVirtualBounds(t, batch) ==
  [updated_left |-> t.next,
   updated_right |-> IF batch = <<>> THEN t.next ELSE LastBound(batch) + 1,
   new_left |-> IF batch = <<>> THEN t.next ELSE Min(DOMAIN batch),
   new_right |-> IF batch = <<>> THEN t.next ELSE LastBound(batch) + 1]

VirtualBounds(t, batch) ==
  [updated_left |-> t.next,
   updated_right |-> IF batch = <<>> THEN t.next ELSE calc_next_index(LastBound(batch)),
   new_left |-> IF batch = <<>> THEN t.next ELSE Min(DOMAIN batch),
   new_right |-> IF batch = <<>> THEN t.next ELSE LastBound(batch) + 1]

get_virtual_subtree(t, batch) ==
  LET b == VirtualBounds(t, batch)
  IN  [nodes |-> virtual_subtree(t, GivenNodes(batch), b), boundaries |-> b]

get_root_optimistic(t, v) == virtual_node(t, v.nodes, v.boundaries, Root)

get_proof_optimistic_index(t, v, index) ==
  [h \in 0..(HEIGHT - 1) |->
     virtual_node(t, v.nodes, v.boundaries, Sibling(Above(<<0, index>>, h)))]

(***************************************************************************)
(* get_root_after_virtual: the root after more commitments at the end (one *)
(* of them: getMerkleRootAfterCommitment of the wasm client).              *)
(* get_proof_after_virtual: the proofs of the leaves of one more group.    *)
(***************************************************************************)
VirtualRange(left, right, end) ==
  [updated_left |-> left, updated_right |-> end, new_left |-> left, new_right |-> right]

get_root_after_virtual(t, hashes) ==
  LET nodes == [n \in {Above(<<0, t.next + (k - 1) * GroupSize>>, OUTPLUSONELOG) :
                         k \in 1..Len(hashes)} |->
                  hashes[(LeftEdge(n) - t.next) \div GroupSize + 1]]
      right == t.next + Len(hashes) * GroupSize
  IN  virtual_node(t, nodes, VirtualRange(t.next, right, right), Root)

BugProofAfterBounds(t, hashes) == t.next + Len(hashes)

ProofAfterBound(t, hashes) == calc_next_index(t.next)

get_proof_after_virtual(t, hashes) ==
  LET nodes == [n \in {<<0, t.next + k - 1>> : k \in 1..Len(hashes)} |->
                  <<hashes[n[2] - t.next + 1]>>]
      b == VirtualRange(t.next, t.next + Len(hashes), ProofAfterBound(t, hashes))
  IN  [k \in 1..Len(hashes) |->
         [h \in 0..(HEIGHT - 1) |->
            virtual_node(t, nodes, b, Sibling(Above(<<0, t.next + k - 1>>, h)))]]

(***************************************************************************)
(* add_hashes: the hashes of one group, zero notes filtered out BEFORE     *)
(* they get their positions; nothing is counted when none is left.         *)
(***************************************************************************)
NonZero(hashes) ==
  LET kept[n \in 0..Len(hashes)] ==
        IF n = 0 THEN <<>>
        ELSE IF hashes[n] = ZeroNote THEN kept[n - 1] ELSE Append(kept[n - 1], hashes[n])
  IN  kept[Len(hashes)]

add_hashes(t, start, hashes) ==
  LET kept  == NonZero(hashes)
      t1    == IF kept = <<>> THEN t ELSE update_next_index(t, calc_next_index(start))
      t2    == IF kept = <<>> THEN t1 ELSE update_first_index(t1, start)
      nodes == [n \in {<<0, start + k - 1>> : k \in 1..Len(kept)} |->
                  <<kept[n[2] - start + 1]>>]
      b     == [updated_left |-> t.next, updated_right |-> t1.next,
                new_left |-> start, new_right |-> start + Len(kept)]
  IN  <<t1, t2, put_hashes(t2, virtual_subtree(t2, nodes, b))>>

(***************************************************************************)
(* rollback.  The result is [root, writes]; root is None when a node that  *)
(* is needed to rebuild the root is not stored.                            *)
(***************************************************************************)

\* get_node_full_batched: the hash of node n within the leaves before right.
Beyond(n, right) == LeftEdge(n) >= right

Kept(t, right) ==
  [n \in {m \in Node : Beyond(m, right) \/ m \in DOMAIN t.leaves} |->
     IF Beyond(n, right) THEN default_hashes[n[1]] ELSE t.leaves[n]]

rebuilt_node(t, right, n) == hashes_above(Kept(t, right))[n]

rebuild(t, right) ==
  LET hashes   == hashes_above(Kept(t, right))
      restored == {n \in Visited(Kept(t, right)) : hashes[n] # None}
  IN  put_hashes(t, [n \in restored |-> hashes[n]])

\* The leftmost leaf clean may have taken away and rollback would need.
nodes_request_index(t, index) ==
  LET path == {Above(<<0, index>>, h) : h \in 0..(HEIGHT - 1)}
  IN  Min({t.next} \cup
          {LeftEdge(n) : n \in {m \in path :
              /\ m[2] % 2 = 1
              /\ ~subtree_contains_only_temporary_leaves(t, Sibling(m))}})

BugObsolete(n, index) == LeftEdge(n) >= index

\* The nodes rollback removes: all that reach beyond the index.
Obsolete(n, index) == RightEdge(n) > index

BugResetAtStart(t) == IF t.next = 0 THEN [t EXCEPT !.stable = 0] ELSE t

reset_stable_index(t) == IF t.next < t.stable THEN [t EXCEPT !.stable = 0] ELSE t

rollback(t, rollback_index) ==
  LET index == IF t.first # None /\ rollback_index <= t.first THEN 0 ELSE rollback_index
      next  == IF index > 0 THEN calc_next_index(index - 1) ELSE 0
      t1    == [t EXCEPT !.next = next, !.db_next = next]
      t2    == IF index = 0 THEN [t1 EXCEPT !.first = None, !.db_first = None] ELSE t1
      t3    == remove_batched(t2, {n \in DOMAIN t.leaves : Obsolete(n, index)})
      t4    == rebuild(t3, next)
  IN  IF index < t.clean /\ nodes_request_index(t, index) < t.clean
      THEN [root |-> None, writes |-> <<t>>]
      ELSE [root |-> rebuilt_node(t3, next, Root),
            writes |-> <<t1, t2, t3, t4, reset_stable_index(t4)>>]

(***************************************************************************)
(* clean_before_index: below a node whose leaves are all temporary only    *)
(* the node itself is kept.  clean() passes u64::MAX.                      *)
(***************************************************************************)
clean_before_index(t, index) ==
  LET emptied == {n \in DOMAIN t.leaves :
                    /\ n[1] > 0
                    /\ RightEdge(n) <= index
                    /\ subtree_contains_only_temporary_leaves(t, n)}
      gone == {LeftChild(n) : n \in emptied} \cup {RightChild(n) : n \in emptied}
  IN  <<[remove_batched(t, gone) EXCEPT !.clean = index]>>

\* wipe: everything but the clean index.
wipe(t) ==
  LET t1 == [t EXCEPT !.leaves = NoNodes, !.temp = NoNodes]
      t2 == [t1 EXCEPT !.next = 0, !.first = None, !.db_first = None]
      t3 == [t2 EXCEPT !.db_next = 0]
  IN  <<t1, t2, t3, [t3 EXCEPT !.stable = 0]>>

set_last_stable_index(t, value) == <<[t EXCEPT !.stable = value]>>

=============================================================================
