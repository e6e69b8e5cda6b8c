--------------------------- MODULE UserStateProofs --------------------------
(***************************************************************************)
(* Proofs about UserState, for every group size, chain and set of accounts *)
(* and notes.  Inv is inductive: one lemma for each of its parts says that *)
(* a step preserves it, action by action.                                  *)
(***************************************************************************)
EXTENDS UserState, TLAPS

(***************************************************************************)
(* Arithmetic of groups.                                                   *)
(***************************************************************************)

\* Division with remainder.
LEMMA DivMod ==
  ASSUME NEW g \in Nat \ {0}, NEW i \in Nat
  PROVE  /\ i \div g \in Nat
         /\ i % g \in 0..(g - 1)
         /\ i = g * (i \div g) + (i % g)
  BY SMTT(30)

\* Quotient and remainder are unique.
LEMMA DivModUnique ==
  ASSUME NEW g \in Nat \ {0}, NEW q \in Nat, NEW p \in Nat,
         NEW r \in 0..(g - 1), NEW s \in 0..(g - 1), g * q + r = g * p + s
  PROVE  r = s
<1>1. g * (q - p) = s - r /\ g * (p - q) = r - s
  BY SMTT(30)
<1>2. CASE q - p >= 1
  <2>1. g * (q - p) >= g  BY <1>2, SMTT(30)
  <2> QED  BY <1>1, <2>1
<1>3. CASE p - q >= 1
  <2>1. g * (p - q) >= g  BY <1>3, SMTT(30)
  <2> QED  BY <1>1, <2>1
<1>4. CASE p = q
  BY <1>1, <1>4
<1> QED  BY <1>2, <1>3, <1>4

\* The remainder of a sum.
LEMMA ModOfSum ==
  ASSUME NEW g \in Nat \ {0}, NEW q \in Nat, NEW r \in 0..(g - 1)
  PROVE  (g * q + r) % g = r
<1> DEFINE i == g * q + r
<1>1. i \in Nat
  OBVIOUS
<1>2. i \div g \in Nat /\ i % g \in 0..(g - 1) /\ i = g * (i \div g) + (i % g)
  BY <1>1, DivMod
<1> QED  BY <1>1, <1>2, DivModUnique

\* The start of a group is a group boundary, not behind the index.
LEMMA GroupStartAligned ==
  ASSUME NEW i \in Nat
  PROVE  /\ GroupStart(i) \in Nat
         /\ GroupStart(i) <= i
         /\ Aligned(GroupStart(i))
  BY GroupSizeAssumption, SMTT(30) DEF GroupStart, Aligned

\* From one group boundary to the next.
LEMMA AlignedNext ==
  ASSUME NEW i \in Nat, Aligned(i)
  PROVE  /\ Aligned(i + GroupSize)
         /\ \A j \in (i + 1)..(i + GroupSize - 1) : ~Aligned(j)
<1> DEFINE q == i \div GroupSize
<1>1. q \in Nat /\ i = GroupSize * q
  BY GroupSizeAssumption, DivMod DEF Aligned
<1>2. Aligned(i + GroupSize)
  <2>1. i + GroupSize = GroupSize * (q + 1) + 0
    BY <1>1, GroupSizeAssumption, SMTT(30)
  <2>2. q + 1 \in Nat /\ 0 \in 0..(GroupSize - 1)
    BY <1>1, GroupSizeAssumption
  <2>3. (GroupSize * (q + 1) + 0) % GroupSize = 0
    BY <2>2, GroupSizeAssumption, ModOfSum
  <2> QED  BY <2>1, <2>3 DEF Aligned
<1>3. ASSUME NEW j \in (i + 1)..(i + GroupSize - 1)
      PROVE  ~Aligned(j)
  <2> DEFINE r == j - i
  <2>1. r \in 0..(GroupSize - 1) /\ r # 0
    BY GroupSizeAssumption
  <2>2. (GroupSize * q + r) % GroupSize = r
    BY <1>1, <2>1, GroupSizeAssumption, ModOfSum
  <2>3. j = GroupSize * q + r
    BY <1>1
  <2> QED  BY <2>1, <2>2, <2>3 DEF Aligned
<1> QED  BY <1>2, <1>3

(***************************************************************************)
(* The type invariant.                                                     *)
(***************************************************************************)

\* An entry belongs to its slot.
EntriesOK(f) ==
  /\ f \in [DOMAIN f -> Tx] /\ DOMAIN f \subseteq Index
  /\ \A i \in DOMAIN f : f[i] \in Slot(i)

\* Adding an entry of the right kind keeps the entries well typed.
LEMMA EntriesWith ==
  ASSUME NEW f, EntriesOK(f), NEW i \in Index, NEW tx \in Tx, tx \in Slot(i)
  PROVE  EntriesOK(With(f, i, tx))
  BY DEF EntriesOK, With

\* So does cutting them off at an index (SparseArray::remove_from).
LEMMA EntriesBelow ==
  ASSUME NEW f, EntriesOK(f), NEW i
  PROVE  EntriesOK(Below(f, i))
  BY DEF EntriesOK, Below

\* And having none.
LEMMA EntriesNone == EntriesOK(NoTxs)
  BY DEF EntriesOK, NoTxs

\* The caches computed from stored entries have their types.
LEMMA RecomputedType ==
  ASSUME NEW f, EntriesOK(f), Recomputed(f)
  PROVE  /\ latest_account_index' \in Index \cup {None}
         /\ latest_account' \in Accounts \cup {None}
         /\ latest_note_index' \in Boundary
  BY DEF Recomputed, LatestAccount, EntriesOK, IndexesOf

\* The initial state has the types.
LEMMA TypeInit == Init => TypeOK
<1> SUFFICES ASSUME Init PROVE TypeOK
  OBVIOUS
<1>1. Aligned(0)
  BY GroupSizeAssumption, ModOfSum, 0 \in 0..(GroupSize - 1), GroupSize * 0 + 0 = 0 DEF Aligned
<1>2. EntriesOK(txs) /\ EntriesOK(pending)
  BY EntriesNone DEF Init
<1>3. chain \in [Index -> Tx \cup {None}] /\ \A i \in Index : chain[i] = None
  BY DEF Init
<1>4. 0 \in Boundary
  BY MaxIndexAssumption DEF Boundary
<1> QED
  BY <1>1, <1>2, <1>3, <1>4 DEF Init, TypeOK, EntriesOK

\* Every step keeps the types, one step of the proof for each action.
LEMMA TypeStep == TypeOK /\ [Next]_vars => TypeOK'
<1> SUFFICES ASSUME TypeOK, [Next]_vars PROVE TypeOK'
  OBVIOUS
<1> USE MaxIndexAssumption
<1>0. EntriesOK(txs) /\ EntriesOK(pending)
  BY DEF TypeOK, EntriesOK
<1>a. Aligned(0)
  BY GroupSizeAssumption, ModOfSum, 0 \in 0..(GroupSize - 1), GroupSize * 0 + 0 = 0 DEF Aligned
<1>1. CASE Mine
  <2>1. end' \in Boundary /\ Aligned(end')
    BY <1>1, AlignedNext, GroupSizeAssumption DEF Mine, TypeOK, Boundary
  <2>2. PICK account \in AccountTx \cup {None},
             notes \in [(end + 1)..(end + GroupSize - 1) -> NoteTx \cup {None}] :
          chain' = [i \in Index |-> IF i = end THEN account
                                    ELSE IF i \in DOMAIN notes THEN notes[i] ELSE chain[i]]
    BY <1>1 DEF Mine
  <2>3. chain' \in [Index -> Tx \cup {None}]
    BY <2>2 DEF TypeOK, Tx
  <2>4. ASSUME NEW i \in Index, chain'[i] # None
        PROVE  chain'[i] \in Slot(i)
    <3>1. CASE i = end
      BY <2>2, <2>4, <3>1 DEF Slot, TypeOK
    <3>2. CASE i \in DOMAIN notes
      <4>1. ~Aligned(i) /\ i # end
        BY <3>2, AlignedNext DEF TypeOK, Boundary
      <4> QED  BY <2>2, <2>4, <3>2, <4>1 DEF Slot
    <3>3. CASE i # end /\ i \notin DOMAIN notes
      BY <2>2, <2>4, <3>3 DEF TypeOK
    <3> QED  BY <3>1, <3>2, <3>3
  <2> QED  BY <1>1, <2>1, <2>3, <2>4 DEF Mine, TypeOK, tree, caches
<1>2. ASSUME NEW index \in Index, Reorganise(index)
      PROVE  TypeOK'
  <2>1. chain' \in [Index -> Tx \cup {None}] /\ \A i \in Index : chain'[i] # None => chain'[i] \in Slot(i)
    BY <1>2 DEF Reorganise, TypeOK
  <2>2. end' \in Boundary /\ Aligned(end') /\ trusted' \in Boundary /\ goal' \in Boundary
    BY <1>2 DEF Reorganise, TypeOK, Index, Boundary, Smaller
  <2> QED  BY <1>2, <2>1, <2>2 DEF Reorganise, TypeOK, tree, caches
<1>3. ASSUME NEW from \in Boundary, NEW to \in Boundary, Update(from, to)
      PROVE  TypeOK'
  <2>1. next_index' \in Boundary /\ Aligned(next_index') /\ goal' \in Boundary
    BY <1>3 DEF Update, TypeOK
  <2>2. first_index' \in Boundary \cup {None}
    BY <1>3 DEF Update, TypeOK
  <2>3. EntriesOK(pending')
    <3>1. from..(to - 1) \subseteq Index
      BY DEF Index, Boundary
    <3> QED  BY <1>3, <3>1 DEF Update, TypeOK, EntriesOK
  <2> QED  BY <1>3, <2>1, <2>2, <2>3 DEF Update, TypeOK, EntriesOK, caches
<1>4. ASSUME NEW i \in Index, AddAccount(i)
      PROVE  TypeOK'
  <2>1. i \in DOMAIN pending /\ pending[i].kind = "account"
    BY <1>4 DEF AddAccount, IndexesOf
  <2>2. EntriesOK(txs') /\ EntriesOK(pending')
    BY <1>0, <1>4, <2>1, EntriesWith DEF AddAccount, Stored, EntriesOK
  <2>3. pending[i].value \in Accounts
    BY <1>0, <2>1 DEF EntriesOK, Tx, AccountTx, NoteTx
  <2>4. latest_account_index' \in Index \cup {None} /\ latest_account' \in Accounts \cup {None}
    BY <1>4, <2>3 DEF AddAccount, TypeOK
  <2> QED  BY <1>4, <2>2, <2>4 DEF AddAccount, TypeOK, EntriesOK, tree
<1>5. ASSUME NEW i \in Index, AddNote(i)
      PROVE  TypeOK'
  <2>1. EntriesOK(txs') /\ EntriesOK(pending')
    BY <1>0, <1>5, EntriesWith DEF AddNote, Stored, EntriesOK
  <2>2. latest_note_index' \in Boundary
    BY <1>5 DEF AddNote, TypeOK, Index, Boundary
  <2> QED  BY <1>5, <2>1, <2>2 DEF AddNote, TypeOK, EntriesOK, tree
<1>6. CASE UpdateReturns
  BY <1>6 DEF UpdateReturns, TypeOK, tree, caches
<1>7. ASSUME NEW index \in Boundary, Rollback(index)
      PROVE  TypeOK'
  <2>1. target' \in Boundary /\ Aligned(target')
    BY <1>7, GroupStartAligned DEF Rollback, Boundary
  <2>2. EntriesOK(txs')
    BY <1>0, <1>7, EntriesBelow DEF Rollback
  <2>3. trusted' \in Boundary /\ goal' \in Boundary /\ crashed' \in BOOLEAN
    BY <1>7, <2>1 DEF Rollback, TypeOK, Smaller
  <2> QED
    BY <1>7, <2>1, <2>2, <2>3, RecomputedType DEF Rollback, TypeOK, EntriesOK, tree
<1>8. CASE RollbackTree
  BY <1>8, <1>a DEF RollbackTree, TypeOK, Boundary, caches
<1>9. CASE WipeTree
  BY <1>9, <1>a DEF WipeTree, TypeOK, Boundary, caches
<1>10. CASE WipeTxs
  <2>1. EntriesOK(txs')
    BY <1>10, EntriesNone DEF WipeTxs
  <2>2. latest_note_index' \in Boundary
    BY <1>10 DEF WipeTxs, Boundary
  <2> QED
    BY <1>10, <2>1, <2>2 DEF WipeTxs, TypeOK, EntriesOK, tree
<1>11. CASE Restart
  <2>1. /\ latest_account_index' \in Index \cup {None}
        /\ latest_account' \in Accounts \cup {None}
        /\ latest_note_index' \in Boundary
    BY <1>0, <1>11, RecomputedType DEF Restart
  <2>2. EntriesOK(txs') /\ EntriesOK(pending')
    BY <1>0, <1>11, EntriesNone DEF Restart
  <2>3. target' \in Boundary /\ Aligned(target') /\ crashed' \in BOOLEAN
    BY <1>11, <1>a DEF Restart, TypeOK, Boundary
  <2>4. /\ UNCHANGED <<chain, end, next_index, first_index>>
        /\ phase' = "idle" /\ trusted' = trusted /\ goal' = trusted
    BY <1>11 DEF Restart, tree
  <2> QED
    BY <2>1, <2>2, <2>3, <2>4 DEF TypeOK, EntriesOK
<1>12. CASE UNCHANGED vars
  BY <1>12 DEF vars, TypeOK, tree, caches
<1> QED
  BY <1>1, <1>2, <1>3, <1>4, <1>5, <1>6, <1>7, <1>8, <1>9, <1>10, <1>11, <1>12
  DEF Next, Wipe, RollbackTreeFails

\* Types are kept by every step (state.rs:72-336).
THEOREM TypeCorrect == Spec => []TypeOK
  BY TypeInit, TypeStep, PTL DEF Spec

(***************************************************************************)
(* The caches.                                                             *)
(***************************************************************************)

\* What With does to the indexes of the accounts and of the notes.
LEMMA IndexesWithAccount ==
  ASSUME NEW f, EntriesOK(f), NEW i \in Index, NEW tx \in AccountTx, Aligned(i)
  PROVE  /\ IndexesOf(With(f, i, tx), "account") = IndexesOf(f, "account") \cup {i}
         /\ IndexesOf(With(f, i, tx), "note") = IndexesOf(f, "note")
<1>1. i \in DOMAIN f => f[i].kind = "account"
  BY DEF EntriesOK, Slot, AccountTx
<1> QED  BY <1>1 DEF With, IndexesOf, AccountTx

\* The same for a note.
LEMMA IndexesWithNote ==
  ASSUME NEW f, NEW i \in Index, i \notin DOMAIN f, NEW tx \in NoteTx
  PROVE  /\ IndexesOf(With(f, i, tx), "account") = IndexesOf(f, "account")
         /\ IndexesOf(With(f, i, tx), "note") = IndexesOf(f, "note") \cup {i}
  BY DEF With, IndexesOf, NoteTx

\* In the initial state the caches are those of an empty store.
LEMMA CachesInit == Init => CachesMatchStore
  BY DEF Init, CachesMatchStore, LatestAccount, LatestNote, IndexesOf, NoTxs

\* Every step keeps the caches equal to what State::new would compute.
LEMMA CachesStep == TypeOK /\ CachesMatchStore /\ [Next]_vars => CachesMatchStore'
<1> SUFFICES ASSUME TypeOK, CachesMatchStore, [Next]_vars PROVE CachesMatchStore'
  OBVIOUS
<1>0. EntriesOK(txs) /\ EntriesOK(pending)
  BY DEF TypeOK, EntriesOK
<1>u. UNCHANGED <<txs, caches>> => CachesMatchStore'
  BY DEF CachesMatchStore, caches
<1>r. Recomputed(txs') => CachesMatchStore'
  BY DEF Recomputed, CachesMatchStore
<1>1. ASSUME NEW i \in Index, AddAccount(i)
      PROVE  CachesMatchStore'
  <2>1. i \in DOMAIN pending /\ pending[i].kind = "account"
    BY <1>1 DEF AddAccount, IndexesOf
  <2>2. pending[i] \in AccountTx /\ Aligned(i)
    BY <1>0, <2>1 DEF EntriesOK, Slot, Tx, AccountTx, NoteTx
  <2>3. txs' = With(txs, i, pending[i])
    BY <1>1 DEF AddAccount
  <2>4. /\ IndexesOf(txs', "account") = IndexesOf(txs, "account") \cup {i}
        /\ IndexesOf(txs', "note") = IndexesOf(txs, "note")
    BY <1>0, <2>2, <2>3, IndexesWithAccount
  <2>5. LatestNote(txs', latest_note_index')
    BY <1>1, <2>4 DEF CachesMatchStore, LatestNote, AddAccount
  <2>6. LatestAccount(txs', latest_account_index', latest_account')
    <3>1. \A j \in IndexesOf(txs, "account") : j \in Index
      BY <1>0 DEF EntriesOK, IndexesOf
    <3>2. txs'[i] = pending[i] /\ \A j \in DOMAIN txs \ {i} : txs'[j] = txs[j]
      BY <2>3 DEF With
    <3>3. CASE IsLatest(i)
      <4>1. latest_account_index' = i /\ latest_account' = pending[i].value
        BY <1>1, <3>3 DEF AddAccount
      <4>2. \A j \in IndexesOf(txs, "account") : j <= i
        BY <3>1, <3>3, NoneAssumption
        DEF IsLatest, CachesMatchStore, LatestAccount, Index
      <4> QED  BY <2>4, <3>2, <4>1, <4>2 DEF LatestAccount, Index
    <3>4. CASE ~IsLatest(i)
      <4>1. UNCHANGED <<latest_account_index, latest_account>>
        BY <1>1, <3>4 DEF AddAccount
      <4>2. /\ latest_account_index \in IndexesOf(txs, "account")
            /\ \A j \in IndexesOf(txs, "account") : j <= latest_account_index
            /\ latest_account = txs[latest_account_index].value
            /\ i <= latest_account_index /\ i # latest_account_index
        BY <3>1, <3>4 DEF IsLatest, CachesMatchStore, LatestAccount, Index
      <4>3. txs'[latest_account_index] = txs[latest_account_index]
        BY <3>2, <4>2 DEF IndexesOf
      <4> QED  BY <2>4, <4>1, <4>2, <4>3 DEF LatestAccount
    <3> QED  BY <3>3, <3>4
  <2> QED  BY <2>5, <2>6 DEF CachesMatchStore
<1>2. ASSUME NEW i \in Index, AddNote(i)
      PROVE  CachesMatchStore'
  <2>1. CASE i \in DOMAIN txs
    BY <1>2, <1>u, <2>1 DEF AddNote, caches
  <2>2. CASE i \notin DOMAIN txs
    <3>1. pending[i] \in NoteTx
      BY <1>0, <1>2 DEF AddNote, EntriesOK, IndexesOf, Tx, AccountTx, NoteTx
    <3>2. txs' = With(txs, i, pending[i])
      BY <1>2, <2>2 DEF AddNote
    <3>3. /\ IndexesOf(txs', "account") = IndexesOf(txs, "account")
          /\ IndexesOf(txs', "note") = IndexesOf(txs, "note") \cup {i}
      BY <2>2, <3>1, <3>2, IndexesWithNote
    <3>4. \A j \in DOMAIN txs : txs'[j] = txs[j]
      BY <2>2, <3>2 DEF With
    <3>5. LatestAccount(txs', latest_account_index', latest_account')
      BY <1>2, <3>3, <3>4 DEF AddNote, CachesMatchStore, LatestAccount, IndexesOf
    <3>6. \A j \in IndexesOf(txs, "note") : j \in Index
      BY <1>0 DEF EntriesOK, IndexesOf
    <3>7. LatestNote(txs', latest_note_index')
      <4>1. latest_note_index' = IF i > latest_note_index THEN i ELSE latest_note_index
        BY <1>2, <2>2 DEF AddNote
      <4>2. latest_note_index \in Nat /\ i \in Nat
        BY MaxIndexAssumption DEF TypeOK, Boundary, Index
      <4> QED
        BY <3>3, <3>6, <4>1, <4>2 DEF CachesMatchStore, LatestNote, Index
    <3> QED  BY <3>5, <3>7 DEF CachesMatchStore
  <2> QED  BY <2>1, <2>2
<1>3. CASE WipeTxs
  BY <1>3 DEF WipeTxs, CachesMatchStore, LatestAccount, LatestNote, IndexesOf, NoTxs
<1>4. ASSUME NEW index \in Boundary, Rollback(index)
      PROVE  CachesMatchStore'
  BY <1>4, <1>r DEF Rollback
<1>5. CASE Restart
  <2>1. txs' = txs /\ Recomputed(txs)
    BY <1>5 DEF Restart
  <2> QED  BY <2>1 DEF Recomputed, CachesMatchStore
<1> QED
  BY <1>u, <1>1, <1>2, <1>3, <1>4, <1>5
  DEF Next, Mine, Reorganise, Update, UpdateReturns, RollbackTree, RollbackTreeFails,
      Wipe, WipeTree, vars, caches

\* The cached latest account and note are those of the store (state.rs:72-101,
\* 137-158, 296-336).
THEOREM CachesCorrect == Spec => []CachesMatchStore
<1>1. Init => TypeOK /\ CachesMatchStore
  BY TypeInit, CachesInit
<1>2. TypeOK /\ CachesMatchStore /\ [Next]_vars => (TypeOK /\ CachesMatchStore)'
  BY TypeStep, CachesStep
<1> QED  BY <1>1, <1>2, PTL DEF Spec

(***************************************************************************)
(* The indexes.                                                            *)
(***************************************************************************)
\* In the initial state the indexes are in order.
LEMMA IndexesInit == Init => IndexesOrdered
  BY MaxIndexAssumption DEF Init, IndexesOrdered

\* Every step keeps the indexes in order.
LEMMA IndexesStep == TypeOK /\ IndexesOrdered /\ [Next]_vars => IndexesOrdered'
<1> SUFFICES ASSUME TypeOK, IndexesOrdered, [Next]_vars PROVE IndexesOrdered'
  OBVIOUS
<1> USE MaxIndexAssumption, GroupSizeAssumption, NoneAssumption
<1>0. /\ end \in Nat /\ next_index \in Nat /\ target \in Nat /\ trusted \in Nat /\ goal \in Nat
      /\ first_index \in Nat \cup {None}
  BY DEF TypeOK, Boundary
<1>1. CASE Mine
  BY <1>0, <1>1 DEF Mine, IndexesOrdered, tree
<1>2. ASSUME NEW index \in Index, Reorganise(index)
      PROVE  IndexesOrdered'
  BY <1>0, <1>2 DEF Reorganise, IndexesOrdered, Smaller, Index, tree
<1>3. ASSUME NEW from \in Boundary, NEW to \in Boundary, Update(from, to)
      PROVE  IndexesOrdered'
  BY <1>0, <1>3 DEF Update, IndexesOrdered, Boundary
<1>4. ASSUME NEW i \in Index, AddAccount(i) \/ AddNote(i)
      PROVE  IndexesOrdered'
  BY <1>4 DEF AddAccount, AddNote, IndexesOrdered, tree
<1>5. CASE UpdateReturns
  BY <1>0, <1>5 DEF UpdateReturns, IndexesOrdered, tree
<1>6. ASSUME NEW index \in Boundary, Rollback(index)
      PROVE  IndexesOrdered'
  <2>1. target' \in Nat /\ target' <= next_index
    BY <1>0, <1>6, GroupStartAligned DEF Rollback, Boundary
  <2> QED
    BY <1>0, <1>6, <2>1 DEF Rollback, IndexesOrdered, Smaller, tree
<1>7. CASE RollbackTree
  BY <1>0, <1>7 DEF RollbackTree, IndexesOrdered
<1>8. CASE WipeTree /\ phase # "storing"
  BY <1>0, <1>8 DEF WipeTree, IndexesOrdered
<1>9. CASE WipeTxs
  BY <1>9 DEF WipeTxs, IndexesOrdered, tree
<1>10. CASE Restart
  BY <1>0, <1>10 DEF Restart, IndexesOrdered, tree
<1>11. CASE UNCHANGED vars
  BY <1>11 DEF vars, IndexesOrdered, tree
<1> QED
  BY <1>1, <1>2, <1>3, <1>4, <1>5, <1>6, <1>7, <1>8, <1>9, <1>10, <1>11
  DEF Next, Wipe, RollbackTreeFails

(***************************************************************************)
(* What is stored lies within the tree.                                    *)
(***************************************************************************)
\* In the initial state nothing is stored.
LEMMA StoredInit == Init => StoredInTree
  BY DEF Init, StoredInTree, NoTxs

\* Every step keeps what is stored within the tree.
LEMMA StoredStep ==
  TypeOK /\ IndexesOrdered /\ StoredInTree /\ [Next]_vars => StoredInTree'
<1> SUFFICES ASSUME TypeOK, IndexesOrdered, StoredInTree, [Next]_vars
             PROVE  StoredInTree'
  OBVIOUS
<1> USE MaxIndexAssumption, GroupSizeAssumption, NoneAssumption
<1>0. /\ end \in Nat /\ next_index \in Nat /\ target \in Nat /\ trusted \in Nat
      /\ first_index \in Nat \cup {None}
      /\ DOMAIN txs \subseteq Nat /\ DOMAIN pending \subseteq Nat
  BY DEF TypeOK, Boundary, Index
<1>1. CASE UNCHANGED <<tree, txs, phase, pending, target, crashed>>
  BY <1>1 DEF StoredInTree, InTree, tree
<1>2. ASSUME NEW from \in Boundary, NEW to \in Boundary, Update(from, to)
      PROVE  StoredInTree'
  <2>1. \A i : InTree(i) /\ i \in Nat => InTree(i)'
    BY <1>0, <1>2 DEF Update, InTree, Boundary
  <2>2. \A i \in from..(to - 1) : InTree(i)'
    BY <1>0, <1>2 DEF Update, InTree, IndexesOrdered, Boundary
  <2>3. \A i \in DOMAIN txs : InTree(i)
    BY <1>2 DEF Update, StoredInTree
  <2> QED
    BY <1>0, <1>2, <2>1, <2>2, <2>3 DEF Update, StoredInTree
<1>3. ASSUME NEW i \in Index, AddAccount(i) \/ AddNote(i)
      PROVE  StoredInTree'
  <2>1. UNCHANGED <<next_index, first_index, crashed, phase>> /\ phase = "storing"
    BY <1>3 DEF AddAccount, AddNote, tree
  <2>2. DOMAIN pending' \subseteq DOMAIN pending /\ i \in DOMAIN pending
    BY <1>3 DEF AddAccount, AddNote, Stored, IndexesOf
  <2>3. DOMAIN txs' \subseteq DOMAIN txs \cup {i}
    BY <1>3 DEF AddAccount, AddNote, With
  <2> QED  BY <2>1, <2>2, <2>3 DEF StoredInTree, InTree
<1>4. CASE UpdateReturns
  BY <1>4 DEF UpdateReturns, StoredInTree, InTree, tree
<1>5. ASSUME NEW index \in Boundary, Rollback(index)
      PROVE  StoredInTree'
  <2>1. target' \in Nat /\ target' <= next_index
    BY <1>0, <1>5, GroupStartAligned DEF Rollback, Boundary
  <2>2. DOMAIN txs' = {k \in DOMAIN txs : k < target'}
    BY <1>5 DEF Rollback, Below
  <2>3. \A i \in DOMAIN txs' : InTree(i)
    BY <1>0, <1>5, <2>1, <2>2 DEF Rollback, StoredInTree, InTree
  <2> QED
    BY <1>5, <2>2, <2>3 DEF Rollback, StoredInTree, InTree, IndexesOrdered, tree
<1>6. CASE RollbackTree
  <2>1. \A i \in DOMAIN txs : InTree(i) /\ i < target
    BY <1>0, <1>6 DEF RollbackTree, StoredInTree, IndexesOrdered
  <2>2. pending' = NoTxs /\ DOMAIN pending' = {}
    BY <1>6 DEF RollbackTree, IndexesOrdered, NoTxs
  <2>3. CASE first_index # None /\ target <= first_index
    <3>1. DOMAIN txs = {}
      BY <1>0, <2>1, <2>3 DEF InTree
    <3> QED  BY <1>6, <2>2, <3>1 DEF RollbackTree, StoredInTree
  <2>4. CASE ~(first_index # None /\ target <= first_index)
    <3>1. \A i \in DOMAIN txs : InTree(i)'
      BY <1>0, <1>6, <2>1, <2>4 DEF RollbackTree, InTree
    <3> QED  BY <1>6, <2>2, <3>1 DEF RollbackTree, StoredInTree
  <2> QED  BY <2>3, <2>4
<1>7. CASE WipeTree /\ phase # "storing"
  BY <1>7 DEF WipeTree, StoredInTree, IndexesOrdered, NoTxs
<1>8. CASE WipeTxs
  BY <1>8 DEF WipeTxs, StoredInTree, IndexesOrdered, NoTxs
<1>9. CASE Restart
  BY <1>9 DEF Restart, StoredInTree, IndexesOrdered, InTree, NoTxs, tree
<1> QED
  BY <1>1, <1>2, <1>3, <1>4, <1>5, <1>6, <1>7, <1>8, <1>9
  DEF Next, Mine, Reorganise, Wipe, RollbackTreeFails, vars

(***************************************************************************)
(* What is stored is what the chain has.                                   *)
(***************************************************************************)
\* In the initial state nothing is known of the chain.
LEMMA KnownInit == Init => StoredOrPending /\ StoreMatchesChain
  BY DEF Init, StoredOrPending, StoreMatchesChain, InTree, NoTxs

\* Every step keeps what is known of the chain equal to it.
LEMMA KnownStep ==
  /\ TypeOK /\ IndexesOrdered /\ StoredInTree
  /\ StoredOrPending /\ StoreMatchesChain /\ [Next]_vars
  => StoredOrPending' /\ StoreMatchesChain'
<1> SUFFICES ASSUME TypeOK, IndexesOrdered, StoredInTree,
                    StoredOrPending, StoreMatchesChain, [Next]_vars
             PROVE  StoredOrPending' /\ StoreMatchesChain'
  OBVIOUS
<1> USE MaxIndexAssumption, GroupSizeAssumption, NoneAssumption
<1>0. /\ end \in Nat /\ next_index \in Nat /\ target \in Nat /\ trusted \in Nat /\ goal \in Nat
      /\ first_index \in Nat \cup {None}
      /\ Index \subseteq Nat
  BY DEF TypeOK, Boundary, Index
<1>1. CASE UNCHANGED <<chain, tree, txs, pending, trusted, goal>>
  BY <1>1 DEF StoredOrPending, StoreMatchesChain, InTree, tree
<1>2. CASE Mine
  <2>1. \A i \in Index : i < end => chain'[i] = chain[i]
    BY <1>0, <1>2 DEF Mine
  <2>2. UNCHANGED <<next_index, first_index, txs, pending, trusted, goal>>
    BY <1>2 DEF Mine, tree
  <2>3. trusted <= goal /\ goal <= end
    BY DEF IndexesOrdered
  <2> QED
    BY <1>0, <2>1, <2>2, <2>3 DEF StoredOrPending, StoreMatchesChain, InTree
<1>3. ASSUME NEW index \in Index, Reorganise(index)
      PROVE  StoredOrPending' /\ StoreMatchesChain'
  <2>1. \A i \in Index : i < index => chain'[i] = chain[i]
    BY <1>3 DEF Reorganise
  <2>2. UNCHANGED <<next_index, first_index, txs, pending>>
    BY <1>3 DEF Reorganise, tree
  <2>3. trusted' <= index /\ trusted' <= trusted /\ goal' <= index /\ goal' <= goal
        /\ trusted' \in Nat /\ goal' \in Nat
    BY <1>0, <1>3 DEF Reorganise, Smaller
  <2> QED
    BY <1>0, <2>1, <2>2, <2>3 DEF StoredOrPending, StoreMatchesChain, InTree
<1>4. ASSUME NEW from \in Boundary, NEW to \in Boundary, Update(from, to)
      PROVE  StoredOrPending' /\ StoreMatchesChain'
  <2>1. UNCHANGED <<chain, txs, trusted>> /\ trusted = next_index /\ trusted = goal
    BY <1>0, <1>4 DEF Update, IndexesOrdered
  <2>2. goal' = next_index' /\ next_index <= next_index' /\ next_index' \in Nat
    BY <1>0, <1>4 DEF Update, Boundary
  <2>3. \A i \in DOMAIN txs : InTree(i)
    BY <1>4 DEF Update, StoredInTree
  <2>4. \A i \in Index : i < next_index /\ InTree(i)' => InTree(i)
    BY <1>0, <1>4 DEF Update, InTree, IndexesOrdered
  <2>5. \A i \in DOMAIN pending' : i \in Index => chain[i] # None /\ pending'[i] = chain[i]
    BY <1>4 DEF Update
  <2>6. \A i \in Index : next_index <= i /\ InTree(i)' =>
          /\ i \notin DOMAIN txs
          /\ chain[i] # None => i \in DOMAIN pending'
    <3>1. \A i \in Index : next_index <= i => i \notin DOMAIN txs
      BY <1>0, <2>3 DEF InTree
    <3>2. \A i \in Index : next_index <= i /\ InTree(i)' => i \in from..(to - 1)
      BY <1>0, <1>4 DEF Update, InTree, IndexesOrdered, Boundary
    <3> QED  BY <1>4, <3>1, <3>2 DEF Update
  <2>7. \A i \in Index : i < next_index /\ InTree(i)' =>
          /\ i \in DOMAIN txs => chain[i] # None /\ txs[i] = chain[i]
          /\ chain[i] # None => i \in DOMAIN txs
    BY <2>1, <2>4 DEF StoreMatchesChain, InTree
  <2>8. StoredOrPending'
    BY <1>0, <2>1, <2>5, <2>6, <2>7 DEF StoredOrPending
  <2>9. StoreMatchesChain'
    BY <1>0, <2>1, <2>2, <2>7 DEF StoreMatchesChain, InTree
  <2> QED  BY <2>8, <2>9
<1>5. ASSUME NEW i \in Index, AddAccount(i)
      PROVE  StoredOrPending' /\ StoreMatchesChain'
  <2>1. UNCHANGED <<chain, next_index, first_index, trusted, goal>>
    BY <1>5 DEF AddAccount, tree
  <2>2. txs' = With(txs, i, pending[i]) /\ i \in DOMAIN pending
    BY <1>5 DEF AddAccount, IndexesOf
  <2>3. pending' = [j \in DOMAIN pending \ {i} |-> pending[j]]
    BY <1>5 DEF AddAccount, Stored
  <2>4. DOMAIN txs' = DOMAIN txs \cup {i} /\ txs'[i] = pending[i]
        /\ \A j \in DOMAIN txs \ {i} : txs'[j] = txs[j]
    BY <2>2 DEF With
  <2>5. DOMAIN pending' = DOMAIN pending \ {i} /\ \A j \in DOMAIN pending' : pending'[j] = pending[j]
    BY <2>3
  <2>6. trusted <= goal
    BY DEF IndexesOrdered
  <2>7. StoredOrPending'
    BY <2>1, <2>2, <2>4, <2>5 DEF StoredOrPending, InTree
  <2>8. StoreMatchesChain'
    BY <1>0, <2>1, <2>2, <2>4, <2>6 DEF StoredOrPending, StoreMatchesChain, InTree
  <2> QED  BY <2>7, <2>8
<1>6. ASSUME NEW i \in Index, AddNote(i)
      PROVE  StoredOrPending' /\ StoreMatchesChain'
  <2>1. UNCHANGED <<chain, next_index, first_index, trusted, goal>>
    BY <1>6 DEF AddNote, tree
  <2>2. i \in DOMAIN pending
        /\ txs' = IF i \in DOMAIN txs THEN txs ELSE With(txs, i, pending[i])
    BY <1>6 DEF AddNote
  <2>3. pending' = [j \in DOMAIN pending \ {i} |-> pending[j]]
    BY <1>6 DEF AddNote, Stored
  <2>4. DOMAIN txs' = DOMAIN txs \cup {i} /\ txs'[i] = (IF i \in DOMAIN txs THEN txs[i] ELSE pending[i])
        /\ \A j \in DOMAIN txs \ {i} : txs'[j] = txs[j]
    BY <2>2 DEF With
  <2>5. DOMAIN pending' = DOMAIN pending \ {i} /\ \A j \in DOMAIN pending' : pending'[j] = pending[j]
    BY <2>3
  <2>6. trusted <= goal
    BY DEF IndexesOrdered
  <2>7. StoredOrPending'
    BY <2>1, <2>2, <2>4, <2>5 DEF StoredOrPending, InTree
  <2>8. StoreMatchesChain'
    BY <1>0, <2>1, <2>2, <2>4, <2>6 DEF StoredOrPending, StoreMatchesChain, InTree
  <2> QED  BY <2>7, <2>8
<1>7. CASE UpdateReturns
  <2>1. pending = NoTxs /\ DOMAIN pending = {} /\ trusted' = goal
        /\ UNCHANGED <<chain, next_index, first_index, txs, pending, goal>>
    BY <1>7 DEF UpdateReturns, NoTxs, tree
  <2> QED
    BY <2>1 DEF StoredOrPending, StoreMatchesChain, InTree
<1>8. ASSUME NEW index \in Boundary, Rollback(index)
      PROVE  StoredOrPending' /\ StoreMatchesChain'
  <2>1. target' \in Nat
    BY <1>8, GroupStartAligned DEF Rollback, Boundary
  <2>2. UNCHANGED <<chain, next_index, first_index, pending>>
    BY <1>8 DEF Rollback, tree
  <2>3. trusted' <= target' /\ trusted' <= trusted /\ trusted' \in Nat
        /\ goal' <= target' /\ goal' <= goal /\ goal' \in Nat
    BY <1>0, <1>8, <2>1 DEF Rollback, Smaller
  <2>4. DOMAIN txs' = {k \in DOMAIN txs : k < target'} /\ \A k \in DOMAIN txs' : txs'[k] = txs[k]
    BY <1>8 DEF Rollback, Below
  <2> QED
    BY <1>0, <2>1, <2>2, <2>3, <2>4 DEF StoredOrPending, StoreMatchesChain, InTree
<1>9. CASE RollbackTree
  <2>1. CASE first_index # None /\ target <= first_index
    BY <1>9, <2>1 DEF RollbackTree, StoredOrPending, StoreMatchesChain, InTree
  <2>2. CASE ~(first_index # None /\ target <= first_index)
    <3>1. UNCHANGED <<chain, txs, pending, trusted, goal>> /\ next_index' = target
      BY <1>9, <2>2 DEF RollbackTree
    <3>2. target <= next_index
      BY <1>9 DEF RollbackTree, IndexesOrdered
    <3>3. \A i \in Index : InTree(i)' => InTree(i)
      BY <1>0, <1>9, <2>2, <3>1, <3>2 DEF RollbackTree, InTree
    <3> QED
      BY <3>1, <3>3 DEF StoredOrPending, StoreMatchesChain, InTree
  <2> QED  BY <2>1, <2>2
<1>10. CASE WipeTree
  BY <1>10 DEF WipeTree, StoredOrPending, StoreMatchesChain, InTree
<1>11. CASE WipeTxs
  <2>1. next_index' = 0
    BY <1>11 DEF WipeTxs, IndexesOrdered, tree
  <2> QED  BY <1>0, <2>1 DEF StoredOrPending, StoreMatchesChain, InTree
<1>12. CASE Restart
  <2>1. UNCHANGED <<chain, next_index, first_index, txs, trusted>> /\ goal' = trusted
        /\ DOMAIN pending' = {}
    BY <1>12 DEF Restart, NoTxs, tree
  <2> QED  BY <2>1 DEF StoredOrPending, StoreMatchesChain, InTree
<1> QED
  BY <1>1, <1>2, <1>3, <1>4, <1>5, <1>6, <1>7, <1>8, <1>9, <1>10, <1>11, <1>12
  DEF Next, Wipe, RollbackTreeFails, vars

(***************************************************************************)
(* The inductive invariant and what follows from it.                       *)
(***************************************************************************)
THEOREM Invariant == Spec => []Inv
<1>1. Init => Inv
  BY TypeInit, CachesInit, IndexesInit, StoredInit, KnownInit DEF Inv
<1>2. Inv /\ [Next]_vars => Inv'
  BY TypeStep, CachesStep, IndexesStep, StoredStep, KnownStep DEF Inv
<1> QED  BY <1>1, <1>2, PTL DEF Spec

\* No stored account or note is outside the tree, but for the two states of
\* an interrupted operation that the property names (state.rs:104-158,
\* 296-336).
THEOREM TxsStayWithinTree == Spec => []TxsWithinTree
<1>1. Inv => TxsWithinTree
  <2> SUFFICES ASSUME Inv, ~crashed, phase # "wiping", NEW i \in DOMAIN txs
               PROVE  i < next_index /\ (first_index # None => first_index <= i)
    BY DEF TxsWithinTree
  <2> QED  BY DEF Inv, StoredInTree, InTree
<1> QED  BY <1>1, Invariant, PTL

\* The store holds what the chain has for the wallet: nothing is lost and
\* nothing survives (state.rs:296-327, wasm client/mod.rs:419-442).
THEOREM StoreCorrect == Spec => []StoreMatchesChain
<1>1. Inv => StoreMatchesChain
  BY DEF Inv
<1> QED  BY <1>1, Invariant, PTL

=============================================================================
