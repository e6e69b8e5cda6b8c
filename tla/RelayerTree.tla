---------------------------- MODULE RelayerTree -----------------------------
(***************************************************************************)
(* The commitment tree as a relayer (libzkbob-rs-node/src/merkle.rs) and   *)
(* the tests use it: node by node, in any order within what is known,      *)
(* leaves that may be temporary and cleaned away, rollback to any index    *)
(* with nobody to round it down or to wipe the tree when it fails.         *)
(***************************************************************************)
EXTENDS MerkleTree

CONSTANTS
  LeafHashes,   \* hashes a leaf can have, besides the zero note
  Commitments,  \* hashes a foreign group can have
  CleanPoints,  \* indexes clean_before_index is called with (beyond Capacity: clean)
  MaxLeaves     \* bound: the end of the part of the tree that gets used

ASSUME BoundsAssumption == MaxLeaves \in 0..Capacity /\ CleanPoints \subseteq Nat

\* What a leaf within the tree can be.
LeafValues ==
  {ZeroNote} \cup LeafHashes \cup {hash[k] : hash \in Commitments, k \in 1..GroupSize}

ASSUME LeafAssumption ==
  /\ ZeroNote \notin LeafHashes /\ Default \notin LeafValues
  /\ Commitments \subseteq [1..GroupSize -> LeafValues]
  /\ \A h \in 0..HEIGHT : None \notin [1..Width[h] -> LeafValues \cup {Default}]

VARIABLES
  tree,         \* the tree
  ledger,       \* history: the leaves the caller has asked the tree to hold
  intact        \* the last rollback returned a root: the tree may be used

vars == <<tree, ledger, intact>>

-----------------------------------------------------------------------------
Index == 0..(Capacity - 1)
Held(i) == tree.first # None => tree.first <= i

Prefix(r) == [i \in Index |-> IF i < r THEN ledger[i] ELSE Default]

\* The ledger with the leaves of node n replaced; a new group is padded.
Replaced(n, hash) ==
  [i \in Index |->
     IF i >= LeftEdge(n) /\ i < RightEdge(n) THEN hash[i - LeftEdge(n) + 1]
     ELSE IF i >= tree.next /\ i < calc_next_index(LeftEdge(n)) THEN ZeroNote
     ELSE ledger[i]]

\* The part of the tree around n is known: no stored node above n stands for
\* children that were cleaned away or that are known only by this hash.
Open(n) ==
  \A m \in Ancestors(n) \cap DOMAIN tree.leaves :
     tree.leaves[m] = poseidon(get(tree, LeftChild(m)), get(tree, RightChild(m)))

-----------------------------------------------------------------------------
Init == tree = EmptyTree /\ ledger = [i \in Index |-> Default] /\ intact = TRUE

\* add_hash: a leaf that is not set yet, in a group that is not beyond the
\* next one.  The binding takes any index and any hash: which leaves are told,
\* and when, is what a caller that follows the pool does.
AddHash(index, hash, temporary) ==
  /\ intact /\ index < MaxLeaves
  /\ calc_first_index(index) <= tree.next /\ Held(index)
  /\ ledger[index] \in {Default, ZeroNote}
  /\ Open(<<0, index>>)
  /\ tree' = Last(add_hash_at_height(tree, <<0, index>>, <<hash>>, temporary))
  /\ ledger' = Replaced(<<0, index>>, <<hash>>)
  /\ UNCHANGED intact

\* append_hash: a leaf at the end, which is the start of a new group.
AppendHash(hash, temporary) ==
  /\ intact /\ tree.next < MaxLeaves
  /\ tree' = Last(append_hash(tree, <<hash>>, temporary))
  /\ ledger' = Replaced(<<0, tree.next>>, <<hash>>)
  /\ UNCHANGED intact

\* add_commitment: the hash of a whole group, at the end or in place of an
\* empty group; which one is up to the caller, too.
AddCommitment(group, hash) ==
  LET n == <<OUTPLUSONELOG, group>>
  IN  /\ intact /\ RightEdge(n) <= MaxLeaves
      /\ LeftEdge(n) <= tree.next /\ Held(LeftEdge(n))
      /\ HashOf(ledger, n) \in {default_hashes[OUTPLUSONELOG],
                                zero_note_hashes[OUTPLUSONELOG]}
      /\ Open(n)
      /\ tree' = Last(add_hash_at_height(tree, n, hash, FALSE))
      /\ ledger' = Replaced(n, hash)
      /\ UNCHANGED intact

\* A partial tree cannot keep less than its first group: it is emptied.
RollbackPoint(index) == IF tree.first # None /\ index <= tree.first THEN 0 ELSE index

\* rollback to an index of the tree, at a group boundary or not.
Rollback(index) ==
  LET undo == rollback(tree, index)
  IN  /\ intact /\ index <= tree.next
      /\ tree' = Last(undo.writes)
      /\ intact' = (undo.root # None)
      /\ ledger' = IF undo.root # None THEN Prefix(RollbackPoint(index)) ELSE ledger

\* wipe: also the way out after a failed rollback.
Wipe ==
  /\ tree' = Last(wipe(tree))
  /\ ledger' = [i \in Index |-> Default]
  /\ intact' = TRUE

\* clean_before_index, and clean with an index beyond the tree.
CleanBefore(index) ==
  /\ intact
  /\ tree' = Last(clean_before_index(tree, index))
  /\ UNCHANGED <<ledger, intact>>

Next ==
  \/ \E index \in Index : AddHash(index, ZeroNote, FALSE)
  \/ \E index \in Index, hash \in LeafHashes, temporary \in BOOLEAN :
       AddHash(index, hash, temporary)
  \/ \E hash \in LeafHashes, temporary \in BOOLEAN : AppendHash(hash, temporary)
  \/ \E group \in 0..(Capacity \div GroupSize - 1), hash \in Commitments :
       AddCommitment(group, hash)
  \/ \E index \in 0..Capacity : Rollback(index)
  \/ Wipe
  \/ \E index \in CleanPoints : CleanBefore(index)

Spec == Init /\ [][Next]_vars

-----------------------------------------------------------------------------
(***************************************************************************)
(* Properties.                                                             *)
(***************************************************************************)

\* The type of the state; a temporary count is never more than the leaves of
\* its node.
TypeOK ==
  /\ DOMAIN tree.leaves \subseteq Node
  /\ \A n \in DOMAIN tree.leaves : Len(tree.leaves[n]) = Width[n[1]]
  /\ \A n \in DOMAIN tree.temp : n \in Node /\ tree.temp[n] \in 1..Width[n[1]]
  /\ tree.next \in 0..Capacity /\ tree.next % GroupSize = 0
  /\ tree.first \in Index \cup {None}
  /\ DOMAIN ledger = Index
  /\ intact \in BOOLEAN

\* get_root: the root of the ledger, whatever the order in which the leaves
\* of the known groups arrived and whatever was cleaned (merkle.rs:149-177,
\* 1096-1146, 782-816).
RootIsLedger == intact => get_root(tree) = HashOf(ledger, Root)

\* get_leaf_proof: the siblings of every stored leaf lead to the root, also
\* when subtrees of temporary leaves have been cleaned away.
LeafProofsLeadToRoot ==
  intact =>
    \A n \in {m \in DOMAIN tree.leaves : m[1] = 0} :
       FoldProof(tree.leaves[n], n[2], get_proof_unchecked(tree, n[2])) = get_root(tree)

\* clean_before_index: a leaf that was not added as temporary stays stored,
\* unless the tree is rolled back or wiped (merkle.rs:782-816, 1096-1146).
PermanentLeaves(t) == {n \in DOMAIN t.leaves : n[1] = 0 /\ n \notin DOMAIN t.temp}

PermanentLeavesStay ==
  [][tree'.next >= tree.next /\ tree.next > 0 /\ intact /\ intact' =>
       PermanentLeaves(tree) \subseteq DOMAIN tree'.leaves]_vars

\* rollback never returns a root that is not the root of the kept part; what
\* clean removed makes it fail instead (merkle.rs:818-895).
RollbackNeverWrong ==
  intact =>
    \A index \in 0..tree.next :
       rollback(tree, index).root \in
         {None, HashOf(Prefix(RollbackPoint(index)), Root)}

=============================================================================
