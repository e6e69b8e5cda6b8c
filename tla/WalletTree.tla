----------------------------- MODULE WalletTree -----------------------------
(***************************************************************************)
(* The commitment tree as a wallet (State in client/state.rs and the wasm  *)
(* UserAccount) uses it: whole groups arrive in batches, in order, from    *)
(* the start or from a later index with the siblings of the skipped part;  *)
(* they may be delivered again; the chain may be rolled back; the database *)
(* may be closed and opened.                                               *)
(***************************************************************************)
EXTENDS MerkleTree

CONSTANTS
  Leaf,       \* the hashes of accounts and notes
  Txs,        \* what a new group can be: LeafTx or CommitmentTx records
  SkippedParts,  \* the leaves a partial tree may skip: sequences of whole groups
  MaxBatch    \* bound: the most groups delivered by one call

ASSUME BoundsAssumption == MaxBatch \in Nat \ {0}
ASSUME LeafAssumption ==
  /\ Default \notin Leaf /\ ZeroNote \notin Leaf
  /\ \A h \in 0..HEIGHT : None \notin [1..Width[h] -> Leaf \cup {Default, ZeroNote}]

\* A transaction has an account and then notes, the rest of its group is padding;
\* of a foreign one only the hash is known.
GroupTxs ==
  {LeafTx(leafs) : leafs \in UNION {[1..n -> Leaf] : n \in 1..GroupSize}} \cup
  {CommitmentTx(hash) : hash \in [1..GroupSize -> Leaf \cup {ZeroNote}]}

ASSUME TxsAssumption ==
  /\ Txs \subseteq GroupTxs
  /\ \A prefix \in SkippedParts :
       \E n \in 0..(Capacity - 1) :
          n % GroupSize = 0 /\ prefix \in [1..n -> Leaf \cup {ZeroNote}]

VARIABLES
  tree,       \* the tree
  ledger      \* history: the leaves the caller has asked the tree to hold

vars == <<tree, ledger>>

-----------------------------------------------------------------------------
Index == 0..(Capacity - 1)
Aligned(i) == i % GroupSize = 0
NoLeaves == [i \in Index |-> Default]

\* The leaves of a whole group that a transaction stands for.
TxLeaves(tx) ==
  [k \in 1..GroupSize |->
     IF tx.kind = "commitment" THEN tx.hash[k]
     ELSE IF k <= Len(tx.leafs) THEN tx.leafs[k] ELSE ZeroNote]

\* The ledger with a batch added: what lies between its end and the first
\* group of the batch becomes empty groups.
Extended(next, batch) ==
  [i \in Index |->
     IF calc_first_index(i) \in DOMAIN batch
     THEN TxLeaves(batch[calc_first_index(i)])[(i % GroupSize) + 1]
     ELSE IF i >= next /\ i < Min(DOMAIN batch) THEN ZeroNote
     ELSE ledger[i]]

Prefix(r) == [i \in Index |-> IF i < r THEN ledger[i] ELSE Default]

\* The ways a group that is already in the ledger can be told again: by its
\* hash or, if it was told so before, by its leaves up to the last one that is
\* not padding.  (A wallet parses a transaction the same way every time.  A
\* group known by its hash and then told by its leaves would store the leaves
\* without the nodes between them and the hash.)
Known(i) ==
  LET group == HashOf(ledger, Above(<<0, i>>, OUTPLUSONELOG))
      last  == Max({0} \cup {k \in 1..GroupSize : group[k] # ZeroNote})
  IN  {CommitmentTx(group)} \cup
      (IF <<0, i>> \in DOMAIN tree.leaves THEN {LeafTx(SubSeq(group, 1, last))} ELSE {})

\* Batches of n contiguous groups from index start on.
Batches(start, n) ==
  {b \in [{start + g * GroupSize : g \in 0..(n - 1)} ->
            Txs \cup UNION {Known(i) : i \in {j \in Index : j < tree.next /\ Aligned(j)}}] :
     \A i \in DOMAIN b : b[i] \in IF i < tree.next THEN Known(i) ELSE Txs}

Held(i) == tree.first # None => tree.first <= i

-----------------------------------------------------------------------------
Init == tree = EmptyTree /\ ledger = NoLeaves

\* update_state: a batch that starts within the tree, at its end or after
\* groups nobody sends (they stay empty).
AddBatch(start, n) ==
  /\ Held(start)
  /\ start + n * GroupSize <= Capacity
  /\ \E batch \in Batches(start, n) :
       /\ tree' = Last(add_leafs_and_commitments(tree, batch))
       /\ ledger' = Extended(tree.next, batch)

\* The leaves of a part that a partial tree skips, the left siblings on the path
\* to the first group behind it and what a complete tree gives for them.
SkippedLeaves(prefix) ==
  [i \in Index |-> IF i < Len(prefix) THEN prefix[i + 1] ELSE Default]
LeftSiblings(start) ==
  {Sibling(m) : m \in {k \in {Above(<<0, start>>, h) : h \in 0..(HEIGHT - 1)} : k[2] % 2 = 1}}
SiblingHashes(prefix) == [m \in LeftSiblings(Len(prefix)) |-> HashOf(SkippedLeaves(prefix), m)]

\* The ledger of a partial tree after its first batch.
FirstLedger(prefix, batch) ==
  [i \in Index |-> IF i < Len(prefix) THEN SkippedLeaves(prefix)[i]
                   ELSE Extended(Len(prefix), batch)[i]]

\* update_state of a partial tree: the siblings come from a complete tree.
AddFirstBatch(prefix, n) ==
  /\ tree.next = 0
  /\ Len(prefix) + n * GroupSize <= Capacity
  /\ \E batch \in Batches(Len(prefix), n) :
       /\ tree' = Last(add_leafs_commitments_and_siblings(tree, batch, SiblingHashes(prefix)))
       /\ ledger' = FirstLedger(prefix, batch)

\* State.add_hashes: the OUT + 1 hashes of one transaction, padding included.
AddHashes(start, tx) ==
  /\ Held(start)
  /\ tx.kind = "leafs"
  /\ tx \in IF start < tree.next THEN Known(start) ELSE Txs
  /\ tree' = Last(add_hashes(tree, start, TxLeaves(tx)))
  /\ ledger' = Extended(tree.next, [i \in {start} |-> tx])

\* add_commitment: one commitment, at the end of the tree or within it; the
\* binding leaves it to the caller that there is no gap before it.
AddCommitment(start, tx) ==
  /\ Held(start) /\ start <= tree.next
  /\ tx.kind = "commitment"
  /\ tx \in IF start < tree.next THEN Known(start) ELSE Txs
  /\ tree' = Last(add_hash_at_height(tree, Above(<<0, start>>, OUTPLUSONELOG), tx.hash, FALSE))
  /\ ledger' = Extended(tree.next, [i \in {start} |-> tx])

\* A partial tree cannot keep less than its first group: it is emptied.
RollbackPoint(target) == IF tree.first # None /\ target <= tree.first THEN 0 ELSE target

\* State.rollback as far as the tree goes: an index beyond the tree is
\* ignored, any other is rounded down to its group; the tree is wiped when
\* its root cannot be rebuilt.
Rollback(index) ==
  /\ index <= tree.next
  /\ LET target == calc_first_index(index)
         undo == rollback(tree, target)
     IN  IF undo.root = None
         THEN tree' = Last(wipe(Last(undo.writes))) /\ ledger' = NoLeaves
         ELSE /\ tree' = Last(undo.writes)
              /\ ledger' = Prefix(RollbackPoint(target))

Wipe == tree' = Last(wipe(tree)) /\ ledger' = NoLeaves

\* The caller marks a part of the tree as final, or clears the mark (0).  Any
\* index is taken, one beyond the end of the tree too.
SetStableIndex(value) ==
  /\ tree' = Last(set_last_stable_index(tree, value))
  /\ UNCHANGED ledger

\* The database is closed and opened again.
Reopen == tree' = open(tree) /\ UNCHANGED ledger

Next ==
  \/ \E start \in {i \in Index : Aligned(i)}, n \in 1..MaxBatch : AddBatch(start, n)
  \/ \E prefix \in SkippedParts, n \in 1..MaxBatch : AddFirstBatch(prefix, n)
  \/ \E start \in {i \in Index : Aligned(i)} :
       \E tx \in Txs \cup Known(start) : AddHashes(start, tx) \/ AddCommitment(start, tx)
  \/ \E index \in 0..Capacity : Rollback(index)
  \/ Wipe
  \/ \E value \in {i \in 0..Capacity : Aligned(i)} : SetStableIndex(value)
  \/ Reopen

Spec == Init /\ [][Next]_vars

-----------------------------------------------------------------------------
(***************************************************************************)
(* Properties.                                                             *)
(***************************************************************************)
\* The type of the state: hashes are stored under nodes of their height, and
\* what is in memory is what the database would give back.
TypeOK ==
  /\ DOMAIN tree.leaves \subseteq Node
  /\ \A n \in DOMAIN tree.leaves : Len(tree.leaves[n]) = Width[n[1]]
  /\ tree.temp = NoNodes
  /\ tree.next \in {i \in 0..Capacity : Aligned(i)}
  /\ tree.first \in {i \in Index : Aligned(i)} \cup {None}
  /\ tree.db_next \in {tree.next} \cup IF tree.next = 0 THEN {None} ELSE {}
  /\ tree.db_first = tree.first
  /\ tree.stable \in 0..Capacity /\ tree.clean = 0
  /\ DOMAIN ledger = Index

\* get_root: whatever the order and grouping of the batches, repeated
\* deliveries, commitments in place of leaves, skipped prefixes, rollbacks and
\* restarts, the root is the root of the ledger (merkle.rs:204-285, 818-895).
RootIsLedger == get_root(tree) = HashOf(ledger, Root)

\* get_leaf_proof: the siblings of every leaf the tree stores lead to the
\* root (merkle.rs:492-519), also after rollbacks removed and rebuilt nodes.
LeafProofsLeadToRoot ==
  \A n \in {m \in DOMAIN tree.leaves : m[1] = 0} :
     FoldProof(tree.leaves[n], n[2], get_proof_unchecked(tree, n[2])) = get_root(tree)

\* A complete subtree left of index that is empty: it is not stored.
EmptyBlock(index) ==
  \E h \in 0..(HEIGHT - 1) :
     LET n == Above(<<0, index>>, h)
     IN  /\ n[2] % 2 = 1
         /\ HashOf(ledger, Sibling(n)) = zero_note_hashes[h]

\* get_root_at: the root the tree had when it ended at index, never another
\* one; it is there for every group boundary the tree holds unless an empty
\* block hides it (merkle.rs:386-413).
RootAtIsPastRoot ==
  \A index \in {i \in Index : Aligned(i) /\ i <= tree.next} :
     LET r == get_root_at(tree, index)
     IN  /\ r \in {None, HashOf(Prefix(index), Root)}
         /\ r = None => EmptyBlock(index) \/ ~Held(index)

\* rollback: it gives back the root the tree had, and it cannot fail (which
\* would make State wipe the wallet) unless an empty block is in the way
\* (merkle.rs:818-895, state.rs:322-324).
RollbackNeverLosesTree ==
  \A index \in {i \in Index : Aligned(i) /\ i <= tree.next} :
     LET undo == rollback(tree, index)
     IN  /\ undo.root \in {None, HashOf(Prefix(RollbackPoint(index)), Root)}
         /\ undo.root = None => EmptyBlock(index)

\* get_left_siblings: a tree can serve the siblings of any group boundary it
\* holds; with them another client starts a partial tree with the same root
\* (merkle.rs:463-490, 197-203).
SiblingsServePartialTree ==
  \A index \in {i \in Index : Aligned(i) /\ i <= tree.next /\ Held(i)} :
     LET siblings == get_left_siblings(tree, index)
         partial  == IF index = tree.next THEN {}
                     ELSE {add_leafs_commitments_and_siblings(EmptyTree, batch, siblings) :
                             batch \in Batches(index, (tree.next - index) \div GroupSize)}
     IN  /\ \A n \in DOMAIN siblings : siblings[n] = HashOf(ledger, n)
         /\ \A writes \in partial : get_root(Last(writes)) = get_root(tree)

\* get_virtual_subtree: the root and the proofs computed for a batch that is
\* not yet final are those of the tree after the batch, although the bounds
\* of the update are computed another way; also when the tree has grown over a
\* part of the batch, or all of it, since the batch was fetched
\* (merkle.rs:610-711 against 204-285, wasm client/mod.rs:273-298).
OptimisticIsCommitted ==
  \A start \in {i \in Index : Aligned(i) /\ i <= tree.next /\ Held(i)}, n \in 1..MaxBatch :
    start + n * GroupSize <= Capacity =>
      \A batch \in Batches(start, n) :
        LET v     == get_virtual_subtree(tree, batch)
            added == Last(add_leafs_and_commitments(tree, batch))
        IN  /\ get_root_optimistic(tree, v) = get_root(added)
            /\ \A i \in OfKind(batch, "leafs") :
                 get_proof_optimistic_index(tree, v, i) = get_proof_unchecked(added, i)

\* get_root_after_virtual, get_proof_after_virtual: the root after commitments
\* and the proofs of leaves that are not in the tree yet are those the tree
\* gives once they are added (merkle.rs:415-440, 554-580).
AfterVirtualIsCommitted ==
  /\ \A n \in 1..MaxBatch : tree.next + n * GroupSize <= Capacity =>
       \A batch \in Batches(tree.next, n) : OfKind(batch, "leafs") = {} =>
         get_root_after_virtual(tree,
             [k \in 1..n |-> batch[tree.next + (k - 1) * GroupSize].hash])
           = get_root(Last(add_leafs_and_commitments(tree, batch)))
  /\ tree.next < Capacity =>
       \A tx \in {u \in Txs : u.kind = "leafs"} :
         LET added == Last(add_hashes(tree, tree.next, tx.leafs))
         IN  get_proof_after_virtual(tree, tx.leafs)
               = [k \in 1..Len(tx.leafs) |-> get_proof_unchecked(added, tree.next + k - 1)]

\* get_root_at: the code takes it for granted that the nodes it reads are
\* there in a tree that is not corrupted (merkle.rs:405-406).
RootAtNeverMissing ==
  \A index \in {i \in Index : Aligned(i) /\ i <= tree.next /\ Held(i)} :
     get_root_at(tree, index) # None

\* new: a database without index keys (written before they existed) is opened
\* with the indexes it would have had, unless it ends or starts with empty
\* groups or is partial (merkle.rs:81-134).
LegacyDatabaseReopens ==
  LET legacy == open([tree EXCEPT !.db_next = None, !.db_first = None])
      edge(i) == HashOf(ledger, Above(<<0, i>>, OUTPLUSONELOG)) # zero_note_hashes[OUTPLUSONELOG]
  IN  /\ tree.next > 0 /\ edge(tree.next - 1) => legacy.next = tree.next
      /\ tree.first = 0 /\ edge(0) => legacy.first = tree.first

\* A stable index that lies beyond what a rollback or a wipe keeps does not
\* survive it, and one within what is kept does: after a rollback the tree
\* calls no leaf stable that it has lost, and goes on calling stable those it
\* has kept (merkle.rs:890-892, 989, 1020-1029).
StableFollowsTree ==
  [][tree'.next < tree.next =>
       tree'.stable = IF tree.stable <= tree'.next THEN tree.stable ELSE 0]_vars

\* The tree implements a vector of leaves to which its root commits: whatever
\* the step, what the root commits to is kept, extended at its end by whole
\* groups, or cut back to a group boundary (merkle.rs:204-328, 818-990).
Vector == INSTANCE LeafVector WITH
  Size <- Capacity, Group <- GroupSize,
  vector <- [i \in Index |-> get_root(tree)[i + 1]],
  next <- tree.next

IsLeafVector == Vector!Spec

=============================================================================
