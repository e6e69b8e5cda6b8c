---------------------------- MODULE Synchronisation ----------------------------
(***************************************************************************)
(* A wallet that follows the chain: the parser (TxParser), the commitment  *)
(* tree (MerkleTree) and the stored accounts and notes together, as the    *)
(* UserAccount of the wasm client drives them.                             *)
(*                                                                         *)
(* The transactions come from a relayer and are parsed by parse_txs, or in *)
(* bulks from cold storage, where the client parses them itself.  Nobody   *)
(* compares the resulting root with the chain.                             *)
(***************************************************************************)
EXTENDS MerkleTree, TxParser

CONSTANTS
  Wallet,     \* the wallet
  Transfers,  \* for the index of a group, the transactions others than deposits there
  Deposits,   \* for the index of a group, the lists of deposits that are due there
  MaxChain    \* bound: transactions of the chain

ASSUME FormatAssumption == OUT + 1 = GroupSize /\ zero_note = ZeroNote
ASSUME ChainAssumption == MaxChain \in Nat /\ MaxChain * GroupSize <= Capacity

VARIABLES
  chain,   \* the transactions of the pool
  tree,    \* State.tree
  txs,     \* State.txs: the stored accounts and notes, by index
  holes    \* history: the groups of the tree it was never told of

vars == <<chain, tree, txs, holes>>

-----------------------------------------------------------------------------
Start(k) == (k - 1) * GroupSize
End == Len(chain) * GroupSize
Starts(from, to) == {i \in from..(to - 1) : i % GroupSize = 0}
TxAt(index) == [index |-> index, tx |-> chain[(index \div GroupSize) + 1]]
Delivered(indexes) == [k \in DOMAIN indexes |-> TxAt(indexes[k])]

\* The hashes of the first leaves of the chain, and the hash of a node.
ChainLeaf(i) == chain[(i \div GroupSize) + 1].out_hashes[(i % GroupSize) + 1]
ChainHash(n, end) ==
  [k \in 1..Width[n[1]] |-> LET i == LeftEdge(n) + k - 1 IN IF i < end THEN ChainLeaf(i) ELSE Default]

\* The wallet's own accounts and notes, which made the hashes of the chain.
OwnEntry(i) == ChainLeaf(i) \notin {zero_account, zero_note} /\ ChainLeaf(i).owner = Wallet

-----------------------------------------------------------------------------
(***************************************************************************)
(* update_state_internal.                                                  *)
(***************************************************************************)

\* The leaves and commitments of a StateUpdate, as MerkleTree takes them.
Batch(update) ==
  [i \in DOMAIN update.new_leafs \cup DOMAIN update.new_commitments |->
     IF i \in DOMAIN update.new_leafs THEN LeafTx(update.new_leafs[i])
     ELSE CommitmentTx(update.new_commitments[i])]

TreeWrites(update, siblings) ==
  IF DOMAIN Batch(update) = {} THEN <<tree, tree, tree>>
  ELSE add_leafs_commitments_and_siblings(tree, Batch(update), siblings)

\* A gap within the batch: the recursion for its hash leaves the tree, and
\* the call with it.
Traps(writes) == \E n \in DOMAIN writes[3].leaves : writes[3].leaves[n] = None

\* add_account replaces what is stored, add_note does not.
WithEntries(update) == Both(Both(update.new_notes, txs), update.new_accounts)

\* A call that traps has written the indexes of the tree.  The page has to
\* be loaded again, which opens what is in the databases.
Updated(update, writes) ==
  IF Traps(writes)
  THEN tree' = open(writes[2]) /\ UNCHANGED txs
  ELSE tree' = writes[3] /\ txs' = WithEntries(update)

-----------------------------------------------------------------------------
Init == chain = <<>> /\ tree = EmptyTree /\ txs = NoEntries /\ holes = {}

\* A transaction is added to the chain: the wallet's or somebody else's.
Mine(tx) ==
  /\ chain' = Append(chain, tx)
  /\ UNCHANGED <<tree, txs, holes>>

\* A batch of delegated deposits, if DelegatedDepositData::create takes them.
MineDeposits(deposits) == Batchable(deposits) /\ Mine(deposit_batch(deposits))

\* The chain drops transactions that the wallet does not have (any more).
Reorganise(k) ==
  /\ k < Len(chain) /\ tree.next <= Start(k + 1)
  /\ chain' = SubSeq(chain, 1, k)
  /\ UNCHANGED <<tree, txs, holes>>

\* parse_txs and update_state: the caller asks the relayer for transactions
\* from an index it has reached on, old ones may come again.
Online(from, to) ==
  /\ from <= tree.next /\ (tree.first # None => tree.first <= from)
  /\ LET update == parse_txs(Wallet, Delivered(SetToSortSeq(Starts(from, to), <)))
     IN  Updated(update, TreeWrites(update, NoSiblings))
  /\ UNCHANGED <<chain, holes>>

\* The same for an empty wallet that skips a part of the chain: it gets the
\* siblings of its first transaction from a complete tree.
OnlinePartial(from, to) ==
  LET path == {Above(<<0, from>>, h) : h \in 0..(HEIGHT - 1)}
      left == {Sibling(n) : n \in {m \in path : m[2] % 2 = 1}}
      update == parse_txs(Wallet, Delivered(SetToSortSeq(Starts(from, to), <)))
  IN  /\ tree.next = 0
      /\ Updated(update, TreeWrites(update, [n \in left |-> ChainHash(n, End)]))
      /\ UNCHANGED <<chain, holes>>

\* The groups of an update that are in the tree after it.
StoredGroups(update, writes) == IF Traps(writes) THEN {} ELSE DOMAIN Batch(update)

\* update_state_cold_storage: the bulks hold the chain, in the order of their
\* files; the caller gives the range it lacks.
ColdStorage(from, to) ==
  /\ from <= tree.next /\ (tree.first # None => tree.first <= from)
  /\ \E files \in {SetToSortSeq(Starts(0, End), <), SetToSortSeq(Starts(0, End), >)} :
       LET update == parse_cold_storage(Wallet, Delivered(files), from, to)
           writes == TreeWrites(update, NoSiblings)
       IN  /\ Updated(update, writes)
           /\ holes' = holes \cup (Starts(tree.next, tree'.next) \ StoredGroups(update, writes))
  /\ UNCHANGED chain

Wiped == /\ tree' = Last(wipe(tree)) /\ txs' = NoEntries /\ holes' = {}

\* State.rollback; it wipes all when the tree cannot be rebuilt.
Rollback(index) ==
  LET target == calc_first_index(index)
      undo == rollback(tree, target)
  IN  /\ index <= tree.next
      /\ IF undo.root = None THEN Wiped
         ELSE /\ tree' = Last(undo.writes)
              /\ txs' = Restrict(txs, {i \in DOMAIN txs : i < target})
              /\ holes' = {i \in holes : i < tree'.next}
      /\ UNCHANGED chain

Wipe == Wiped /\ UNCHANGED chain

Next ==
  \/ Len(chain) < MaxChain /\ \E tx \in Transfers[End] : Mine(tx)
  \/ Len(chain) < MaxChain /\ \E deposits \in Deposits[End] : MineDeposits(deposits)
  \/ \E k \in 0..MaxChain : Reorganise(k)
  \/ \E from, to \in Starts(0, End + 1) : from < to /\ Online(from, to)
  \/ \E from, to \in Starts(0, End + 1) : from < to /\ OnlinePartial(from, to)
  \/ \E from, to \in Starts(0, End + 1) : from < to /\ ColdStorage(from, to)
  \/ \E index \in 0..End : Rollback(index)
  \/ Wipe

Spec == Init /\ [][Next]_vars

-----------------------------------------------------------------------------
(***************************************************************************)
(* Properties.                                                             *)
(***************************************************************************)
InTree(i) == i < tree.next /\ tree.first # None /\ tree.first <= i

\* The type of the state: the tree ends at a group of the chain, an account
\* is stored at the start of a group, a note behind it.
TypeOK ==
  /\ Len(chain) <= MaxChain
  /\ tree.next \in 0..End /\ tree.next % GroupSize = 0
  /\ holes \subseteq Starts(0, tree.next)
  /\ \A i \in DOMAIN txs : txs[i].owner = Wallet /\ txs[i].account = (i % GroupSize = 0)

\* The root is the chain's at the same index, although the tree was filled
\* with what a parser rebuilt from memos that list real outputs only, with
\* commitments elsewhere, online or from cold storage, repeated or partial,
\* with transactions nobody can parse (tx_parser.rs:136-155, 294-307, wasm
\* client/mod.rs:419-431); unless groups were dropped on the way, until the
\* wallet has rolled back to before them.
RootIsChain == holes = {} => get_root(tree) = ChainHash(Root, tree.next)

\* Every stored account and note can be spent: the tree has its hash as a
\* leaf at its index, and a proof that leads to the root (tx_parser.rs:251,
\* client/mod.rs:628-645).
StoredIsSpendable ==
  holes = {} =>
    \A i \in DOMAIN txs :
      /\ get_opt(tree, <<0, i>>) = <<txs[i]>>
      /\ FoldProof(<<txs[i]>>, i, get_proof_unchecked(tree, i)) = get_root(tree)

\* The store has the wallet's own accounts and notes, all of them and at the
\* indexes they have on the chain, but for groups that were dropped.
StoreIsOwn ==
  /\ \A i \in 0..(End - 1) :
       InTree(i) /\ calc_first_index(i) \notin holes /\ OwnEntry(i) => i \in DOMAIN txs
  /\ \A i \in DOMAIN txs : InTree(i) /\ OwnEntry(i) /\ txs[i] = ChainLeaf(i)

\* The history that cold storage returns is the one parse_txs returns for the
\* same transactions, whatever the order of the bulks (wasm client/mod.rs:519).
ColdHistoryIsOnline ==
  \A files \in SetToSeqs(Starts(0, End)) :
    \A from, to \in Starts(0, End + 1) :
      parse_cold_storage(Wallet, Delivered(files), from, to).memos
        = parse_txs(Wallet, Delivered(SetToSortSeq(Starts(from, to), <))).memos

\* "Supposed that partial tree can omit its left part and should have no
\* other gaps" (merkle.rs:198-199).
NoOtherGaps == \A i \in holes : tree.first = None \/ i < tree.first

=============================================================================
