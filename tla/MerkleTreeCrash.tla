-------------------------- MODULE MerkleTreeCrash ---------------------------
(***************************************************************************)
(* WalletTree whose process may stop between two database transactions of  *)
(* one operation: an index is written before the nodes it counts, rollback *)
(* and wipe are several transactions.  After a restart the caller rolls    *)
(* the tree back to an index that was reached before the operation.        *)
(***************************************************************************)
EXTENDS WalletTree

VARIABLE
  safe        \* None, or after a crash: what was below this index is not lost

crashVars == <<tree, ledger, safe>>

-----------------------------------------------------------------------------
CrashInit == Init /\ safe = None

Running == safe = None /\ Next /\ UNCHANGED safe

\* Only some of the transactions reach the database, then it is opened again.
Interrupted(writes) ==
  \E k \in 1..(Len(writes) - 1) : tree' = open(writes[k])

CrashInAddBatch(start, n) ==
  /\ safe = None
  /\ Held(start)
  /\ start + n * GroupSize <= Capacity
  /\ \E batch \in Batches(start, n) : Interrupted(add_leafs_and_commitments(tree, batch))
  /\ safe' = tree.next
  /\ UNCHANGED ledger

\* Until its first batch is there a partial tree has nothing to lose.
CrashInAddFirstBatch(prefix, n) ==
  /\ safe = None
  /\ tree.next = 0
  /\ Len(prefix) + n * GroupSize <= Capacity
  /\ \E batch \in Batches(Len(prefix), n) :
       Interrupted(add_leafs_commitments_and_siblings(tree, batch, SiblingHashes(prefix)))
  /\ safe' = tree.next
  /\ UNCHANGED ledger

CrashInAddHashes(start, tx) ==
  /\ safe = None
  /\ Held(start)
  /\ tx.kind = "leafs"
  /\ tx \in IF start < tree.next THEN Known(start) ELSE Txs
  /\ Interrupted(add_hashes(tree, start, TxLeaves(tx)))
  /\ safe' = tree.next
  /\ UNCHANGED ledger

CrashInAddCommitment(start, tx) ==
  /\ safe = None
  /\ Held(start) /\ start <= tree.next
  /\ tx.kind = "commitment"
  /\ tx \in IF start < tree.next THEN Known(start) ELSE Txs
  /\ Interrupted(add_hash_at_height(tree, Above(<<0, start>>, OUTPLUSONELOG), tx.hash, FALSE))
  /\ safe' = tree.next
  /\ UNCHANGED ledger

\* The interrupted rollback may itself be the recovery from a crash.
Recoverable(index) == index <= tree.next /\ (safe # None => index <= safe)

CrashInRollback(index) ==
  /\ Aligned(index) /\ Recoverable(index)
  /\ Interrupted(rollback(tree, index).writes)
  /\ safe' = RollbackPoint(index)
  /\ UNCHANGED ledger

CrashInWipe ==
  /\ Interrupted(wipe(tree))
  /\ safe' = 0
  /\ UNCHANGED ledger

Recover(index) ==
  /\ safe # None /\ Aligned(index) /\ Recoverable(index)
  /\ Rollback(index)
  /\ safe' = None

CrashNext ==
  \/ Running
  \/ \E start \in {i \in Index : Aligned(i)}, n \in 1..MaxBatch : CrashInAddBatch(start, n)
  \/ \E prefix \in SkippedParts, n \in 1..MaxBatch : CrashInAddFirstBatch(prefix, n)
  \/ \E start \in {i \in Index : Aligned(i)} :
       \E tx \in Txs \cup Known(start) :
          CrashInAddHashes(start, tx) \/ CrashInAddCommitment(start, tx)
  \/ \E index \in 0..Capacity : CrashInRollback(index) \/ Recover(index)
  \/ CrashInWipe

CrashSpec == CrashInit /\ [][CrashNext]_crashVars

-----------------------------------------------------------------------------
(***************************************************************************)
(* Properties.                                                             *)
(***************************************************************************)

\* An operation that runs to its end, also after crashes and recoveries,
\* leaves the root of the ledger.
RootIsLedgerUnlessCrashed == safe = None => RootIsLedger

\* Whatever the transaction after which the process stopped, a rollback to an
\* index reached before gives back the root of that time: it never returns
\* another root, and fails only for an empty block (merkle.rs:157-174, 266-284,
\* 855-892, 962-990).
CrashIsRecoverable ==
  safe # None =>
    \A index \in {i \in Index : Aligned(i) /\ Recoverable(i)} :
      LET undo == rollback(tree, index)
      IN  /\ undo.root \in {None, HashOf(Prefix(RollbackPoint(index)), Root)}
          /\ undo.root = None => EmptyBlock(index)
          /\ undo.root # None => get_root(Last(undo.writes)) = undo.root

=============================================================================
