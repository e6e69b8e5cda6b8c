------------------------------ MODULE UserState -----------------------------
(***************************************************************************)
(* The wallet state of libzkbob-rs/src/client/state.rs: the sparse array   *)
(* txs of the wallet's own accounts and notes, the three fields that cache *)
(* its latest entries, and the commitment tree, of which only the indexes  *)
(* matter here (its nodes are module MerkleTree).                          *)
(*                                                                         *)
(* txs and the tree are two databases.  Every call of State writes them in *)
(* several transactions, so an operation is a sequence of steps and the    *)
(* process may stop between two of them.  What is stored is compared with  *)
(* the chain, which grows, and drops its last transactions in a            *)
(* reorganisation.                                                         *)
(***************************************************************************)
EXTENDS Integers

CONSTANTS
  GroupSize,   \* leaves of a transaction: its account, then its notes (OUT + 1)
  MaxIndex,    \* bound: the length the chain can reach
  Accounts,    \* what an own account can be
  Notes,       \* what an own note can be
  None         \* Option::None

ASSUME GroupSizeAssumption == GroupSize \in Nat \ {0}
ASSUME MaxIndexAssumption == MaxIndex \in Nat
ASSUME NoneAssumption == None \notin Nat

VARIABLES
  chain,                 \* the wallet's own entry at an index of the chain, or None
  end,                   \* the end of the chain
  next_index,            \* tree.next_index
  first_index,           \* tree.first_index
  txs,                   \* the stored accounts and notes, by index
  latest_account,        \* cached: the account at latest_account_index
  latest_account_index,  \* cached: the last index of an account in txs
  latest_note_index,     \* cached: the last index of a note in txs, 0 if none
  phase,                 \* the operation under way
  pending,               \* "storing": the entries of the update still to be stored
  target,                \* "rolling": the index the tree has yet to be rolled back to
  trusted,               \* history: below this index the state knows all of the chain
  goal,                  \* history: what trusted becomes when the update is stored
  crashed                \* history: the process stopped within an operation

caches == <<latest_account, latest_account_index, latest_note_index>>
tree == <<next_index, first_index>>
vars == <<chain, end, tree, txs, caches, phase, pending, target, trusted, goal, crashed>>

-----------------------------------------------------------------------------
Index == 0..(MaxIndex - 1)
Boundary == 0..MaxIndex
Aligned(i) == i % GroupSize = 0

\* Transaction::Account and Transaction::Note.  The first leaf of a group is
\* an account, the others are notes.
AccountTx == [kind : {"account"}, value : Accounts]
NoteTx == [kind : {"note"}, value : Notes]
Tx == AccountTx \cup NoteTx
Slot(i) == IF Aligned(i) THEN AccountTx ELSE NoteTx

NoTxs == [i \in {} |-> None]

\* SparseArray.set, and the part of the array that remove_from leaves.
With(f, i, tx) == [j \in DOMAIN f \cup {i} |-> IF j = i THEN tx ELSE f[j]]
BugBelowInclusive(f, i) == [j \in {k \in DOMAIN f : k <= i} |-> f[j]]
BugBelowTooShort(f, i) == [j \in {k \in DOMAIN f : k + 1 < i} |-> f[j]]
Below(f, i) == [j \in {k \in DOMAIN f : k < i} |-> f[j]]

Smaller(i, j) == IF i < j THEN i ELSE j

\* The start of the group of an index: the two shifts by OUTPLUSONELOG.
BugNotRounded(index) == index
GroupStart(index) == (index \div GroupSize) * GroupSize

IndexesOf(f, kind) == {i \in DOMAIN f : f[i].kind = kind}

\* What the loops of State::new and State::rollback over all of f leave in
\* the cached fields: the last account and the last note.
LatestAccount(f, index, account) ==
  \/ /\ IndexesOf(f, "account") = {}
     /\ index = None /\ account = None
  \/ /\ index \in IndexesOf(f, "account")
     /\ \A i \in IndexesOf(f, "account") : i <= index
     /\ account = f[index].value

LatestNote(f, index) ==
  \/ IndexesOf(f, "note") = {} /\ index = 0
  \/ /\ index \in IndexesOf(f, "note")
     /\ \A i \in IndexesOf(f, "note") : i <= index

Recomputed(f) ==
  \E i \in Boundary \cup {None}, n \in Boundary, a \in Accounts \cup {None} :
    /\ LatestAccount(f, i, a) /\ LatestNote(f, n)
    /\ latest_account_index' = i /\ latest_account' = a /\ latest_note_index' = n

-----------------------------------------------------------------------------
Init ==
  /\ chain = [i \in Index |-> None] /\ end = 0
  /\ next_index = 0 /\ first_index = None
  /\ txs = NoTxs
  /\ latest_account = None /\ latest_account_index = None /\ latest_note_index = 0
  /\ phase = "idle" /\ pending = NoTxs /\ target = 0
  /\ trusted = 0 /\ goal = 0 /\ crashed = FALSE

(***************************************************************************)
(* The chain.                                                              *)
(***************************************************************************)

\* A transaction is added to the chain; own tells the entries the wallet can
\* decrypt in it (none of a foreign transaction).
Mine ==
  /\ end + GroupSize <= MaxIndex
  /\ end' = end + GroupSize
  /\ \E account \in AccountTx \cup {None} :
     \E notes \in [(end + 1)..(end + GroupSize - 1) -> NoteTx \cup {None}] :
       chain' = [i \in Index |-> IF i = end THEN account
                                 ELSE IF i \in DOMAIN notes THEN notes[i] ELSE chain[i]]
  /\ UNCHANGED <<tree, txs, caches, phase, pending, target, trusted, goal, crashed>>

\* The chain drops its last transactions.  An update that is being stored
\* may hold some of them.
Reorganise(index) ==
  /\ Aligned(index) /\ index < end
  /\ end' = index
  /\ chain' = [i \in Index |-> IF i < index THEN chain[i] ELSE None]
  /\ trusted' = Smaller(trusted, index)
  /\ goal' = Smaller(goal, index)
  /\ UNCHANGED <<tree, txs, caches, phase, pending, target, crashed>>

(***************************************************************************)
(* update_state: the tree takes the leaves and commitments from index from *)
(* up to index to, then the accounts are stored, then the notes.  The part *)
(* below next_index has been delivered before.  The first update may start *)
(* anywhere (a partial tree).                                              *)
(***************************************************************************)
Update(from, to) ==
  /\ phase = "idle" /\ ~crashed /\ next_index <= trusted
  /\ Aligned(from) /\ Aligned(to) /\ from < to /\ to <= end
  /\ first_index # None => first_index <= from /\ from <= next_index
  /\ next_index' = IF to < next_index THEN next_index ELSE to
  /\ first_index' = IF first_index = None THEN from ELSE first_index
  /\ phase' = "storing"
  /\ pending' = [i \in {j \in from..(to - 1) : chain[j] # None} |-> chain[i]]
  /\ goal' = next_index'
  /\ UNCHANGED <<chain, end, txs, caches, target, trusted, crashed>>

\* add_account caches an account that is not older than the cached one.
BugAnyIsLatest(i) == TRUE
IsLatest(i) == latest_account_index = None \/ latest_account_index <= i

Stored(i) == pending' = [j \in DOMAIN pending \ {i} |-> pending[j]]

\* add_account
AddAccount(i) ==
  /\ phase = "storing" /\ i \in IndexesOf(pending, "account")
  /\ Stored(i)
  /\ txs' = With(txs, i, pending[i])
  /\ IF IsLatest(i)
     THEN latest_account_index' = i /\ latest_account' = pending[i].value
     ELSE UNCHANGED <<latest_account_index, latest_account>>
  /\ UNCHANGED <<chain, end, tree, latest_note_index, phase, target, trusted, goal, crashed>>

\* add_note: an index that is taken is left alone.
AddNote(i) ==
  /\ phase = "storing" /\ i \in DOMAIN pending
  /\ IndexesOf(pending, "account") = {}
  /\ Stored(i)
  /\ IF i \in DOMAIN txs
     THEN UNCHANGED <<txs, latest_note_index>>
     ELSE /\ txs' = With(txs, i, pending[i])
          /\ latest_note_index' = IF i > latest_note_index THEN i ELSE latest_note_index
  /\ UNCHANGED <<chain, end, tree, latest_account_index, latest_account,
                 phase, target, trusted, goal, crashed>>

UpdateReturns ==
  /\ phase = "storing" /\ pending = NoTxs
  /\ phase' = "idle"
  /\ trusted' = goal
  /\ UNCHANGED <<chain, end, tree, txs, caches, pending, target, goal, crashed>>

(***************************************************************************)
(* State.rollback: an index beyond the tree is ignored; any other is       *)
(* rounded down to its group, the txs from there on are removed, the       *)
(* caches computed anew, then the tree is rolled back.  If the tree cannot *)
(* rebuild its root (MerkleTree says when) all is wiped.                   *)
(***************************************************************************)
Rollback(index) ==
  /\ phase = "idle" /\ index <= next_index
  /\ target' = GroupStart(index)
  /\ txs' = Below(txs, target')
  /\ Recomputed(txs')
  /\ phase' = "rolling"
  /\ trusted' = Smaller(trusted, target') /\ goal' = Smaller(goal, target')
  /\ crashed' = (crashed /\ target' > trusted)
  /\ UNCHANGED <<chain, end, tree, pending>>

RollbackTree ==
  /\ phase = "rolling"
  /\ IF first_index # None /\ target <= first_index
     THEN /\ next_index' = 0 /\ first_index' = None
          /\ trusted' = 0 /\ goal' = 0
     ELSE /\ next_index' = target
          /\ first_index' = IF target = 0 THEN None ELSE first_index
          /\ UNCHANGED <<trusted, goal>>
  /\ phase' = "idle" /\ target' = 0
  /\ UNCHANGED <<chain, end, txs, caches, pending, crashed>>

\* The first part of State.wipe: the tree.
WipeTree ==
  /\ next_index' = 0 /\ first_index' = None
  /\ phase' = "wiping" /\ target' = 0
  /\ trusted' = 0 /\ goal' = 0
  /\ UNCHANGED <<chain, end, txs, caches, pending, crashed>>

RollbackTreeFails == phase = "rolling" /\ WipeTree

Wipe == phase = "idle" /\ WipeTree

\* The second part: the txs and the caches.
WipeTxs ==
  /\ phase = "wiping"
  /\ txs' = NoTxs
  /\ latest_account_index' = None /\ latest_account' = None /\ latest_note_index' = 0
  /\ phase' = "idle"
  /\ crashed' = FALSE
  /\ UNCHANGED <<chain, end, tree, pending, target, trusted, goal>>

\* The process stops and State::new reads the databases again.  Within an
\* operation the rest of it is lost; the caller has to roll back or wipe.
Restart ==
  /\ Recomputed(txs)
  /\ phase' = "idle" /\ pending' = NoTxs /\ target' = 0
  /\ goal' = trusted
  /\ crashed' = (crashed \/ phase # "idle")
  /\ UNCHANGED <<chain, end, tree, txs, trusted>>

Next ==
  \/ Mine
  \/ \E index \in Index : Reorganise(index)
  \/ \E from, to \in Boundary : Update(from, to)
  \/ \E i \in Index : AddAccount(i) \/ AddNote(i)
  \/ UpdateReturns
  \/ \E index \in Boundary : Rollback(index)
  \/ RollbackTree \/ RollbackTreeFails
  \/ Wipe \/ WipeTxs
  \/ Restart

Spec == Init /\ [][Next]_vars

-----------------------------------------------------------------------------
(***************************************************************************)
(* Properties.                                                             *)
(***************************************************************************)

\* The type of the state: accounts and notes are stored at their own indexes,
\* the tree ends at a group boundary.
TypeOK ==
  /\ chain \in [Index -> Tx \cup {None}]
  /\ \A i \in Index : chain[i] # None => chain[i] \in Slot(i)
  /\ end \in Boundary /\ Aligned(end)
  /\ next_index \in Boundary /\ Aligned(next_index)
  /\ first_index \in Boundary \cup {None}
  /\ txs \in [DOMAIN txs -> Tx] /\ DOMAIN txs \subseteq Index
  /\ \A i \in DOMAIN txs : txs[i] \in Slot(i)
  /\ pending \in [DOMAIN pending -> Tx] /\ DOMAIN pending \subseteq Index
  /\ \A i \in DOMAIN pending : pending[i] \in Slot(i)
  /\ latest_account_index \in Index \cup {None}
  /\ latest_account \in Accounts \cup {None}
  /\ latest_note_index \in Boundary
  /\ phase \in {"idle", "storing", "rolling", "wiping"}
  /\ target \in Boundary /\ Aligned(target) /\ trusted \in Boundary /\ goal \in Boundary
  /\ crashed \in BOOLEAN

\* The caches that add_account and add_note keep up to date are what a new
\* State would compute from the stored txs, after updates that are delivered
\* again or out of order, rollbacks, wipes and restarts (state.rs:72-101,
\* 137-158, 296-336).
CachesMatchStore ==
  /\ LatestAccount(txs, latest_account_index, latest_account)
  /\ LatestNote(txs, latest_note_index)

\* No stored account or note lies outside the tree: it could not be spent,
\* its proof would not lead to the root.  (Not while wipe is half done: the
\* tree goes first, state.rs:329-332.)
TxsWithinTree ==
  ~crashed /\ phase # "wiping" =>
    \A i \in DOMAIN txs :
      /\ i < next_index
      /\ first_index # None => first_index <= i

\* The store holds exactly what the chain has for the wallet in the part of
\* the tree that is trusted: nothing is lost by a crash, nothing survives of
\* dropped transactions once the caller has rolled back to before them
\* (state.rs:296-327, wasm client/mod.rs:419-442).
StoreMatchesChain ==
  \A i \in Index :
    i < trusted /\ i < next_index /\ first_index # None /\ first_index <= i =>
      IF chain[i] = None THEN i \notin DOMAIN txs
      ELSE i \in DOMAIN txs /\ txs[i] = chain[i]

(***************************************************************************)
(* The inductive invariant behind these properties (UserStateProofs).      *)
(***************************************************************************)

\* A tree without first index is empty.  Below goal the update in storage has
\* what the chain has; goal and trusted lie within the tree and the chain.
IndexesOrdered ==
  /\ first_index = None <=> next_index = 0
  /\ trusted <= goal /\ goal <= next_index /\ goal <= end
  /\ phase # "storing" => goal = trusted /\ pending = NoTxs
  /\ phase = "wiping" => next_index = 0
  /\ phase = "rolling" => target <= next_index /\ goal <= target

InTree(i) == i < next_index /\ first_index # None /\ first_index <= i

\* What is stored, and what is going to be, lies within the tree; only a wipe
\* that stopped between its halves leaves something behind, over an empty tree.
StoredInTree ==
  /\ \A i \in DOMAIN pending : InTree(i)
  /\ \/ phase = "wiping"
     \/ crashed /\ next_index = 0
     \/ \A i \in DOMAIN txs : InTree(i)
  /\ phase = "rolling" => \A i \in DOMAIN txs : i < target

\* Below goal, an entry of the chain is stored or going to be, and what is
\* stored or going to be is an entry of the chain.
StoredOrPending ==
  \A i \in Index : i < goal /\ InTree(i) =>
    /\ i \in DOMAIN pending => chain[i] # None /\ pending[i] = chain[i]
    /\ i \in DOMAIN txs => chain[i] # None /\ txs[i] = chain[i]
    /\ chain[i] # None => i \in DOMAIN txs \cup DOMAIN pending

Inv ==
  /\ TypeOK /\ CachesMatchStore
  /\ IndexesOrdered /\ StoredInTree /\ StoredOrPending /\ StoreMatchesChain

=============================================================================
