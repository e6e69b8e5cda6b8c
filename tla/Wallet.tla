------------------------------- MODULE Wallet -------------------------------
(***************************************************************************)
(* The wallet of libzkbob-rs/src/client/mod.rs: create_tx makes a          *)
(* transaction from the synchronised state and, optionally, an optimistic  *)
(* fragment of transactions the relayer has accepted; get_tx_input and the *)
(* balances of client/state.rs say later what happened.                    *)
(*                                                                         *)
(* A note is never marked as spent.  The latest account holds an index i:  *)
(* the notes below i are spent, the others are usable.  That works only as *)
(* long as every transaction takes exactly the notes between two values of *)
(* i, while other parties send notes at any time and transactions are      *)
(* accepted, rejected, dropped and synchronised in any order.              *)
(*                                                                         *)
(* The synchronised State holds the wallet's entries of a prefix of the    *)
(* ledger (UserState shows it does), so it is computed from the prefix.    *)
(***************************************************************************)
EXTENDS Integers, Sequences, FiniteSets, FiniteSetsExt, Functions, SequencesExt

CONSTANTS
  In,          \* notes a transaction takes
  Out,         \* notes a transaction makes
  ForeignTxs,  \* the notes of the transactions that others make
  Requests,    \* what the user asks for: transfers, deposits and withdrawals
  None,        \* Option::None
  MaxTxs,      \* bound: transactions of the ledger
  MaxCreated   \* bound: transactions created and not submitted yet

ASSUME SizeAssumption == In \in Nat \ {0} /\ Out \in Nat \ {0}
ASSUME BoundsAssumption == MaxTxs \in Nat /\ MaxCreated \in Nat

\* The amounts of notes, accounts and requests are unsigned (BoundedNum).
Note == [own : BOOLEAN, b : Nat]
Account == [i : Nat, b : Nat, e : Nat]
Request == [type : {"transfer", "deposit", "withdraw"}, amount : Nat, fee : Nat,
            energy : Nat, outputs : Seq(Note)]

ASSUME NoneAssumption == None \notin Nat \cup Account
ASSUME ForeignAssumption == \A notes \in ForeignTxs : notes \in Seq(Note) /\ Len(notes) <= Out
ASSUME RequestAssumption == Requests \subseteq Request

VARIABLES
  ledger,   \* the transactions of the pool: the chain, then the relayer's queue
  synced,   \* the number of them that State holds
  created   \* the transactions create_tx has made, not submitted yet

vars == <<ledger, synced, created>>

-----------------------------------------------------------------------------
(***************************************************************************)
(* Entries.  A transaction is a group of leaves: its account, then its     *)
(* notes.  Groups are numbered from 1, a group starts at its Position.     *)
(***************************************************************************)
GroupSize == Out + 1
Position(k) == (k - 1) * GroupSize
GroupOf(index) == index \div GroupSize + 1

IsOwn(k) == ledger[k].account # None
AccountAt(index) == ledger[GroupOf(index)].account
NoteAt(index) == ledger[GroupOf(index)].notes[index % GroupSize]

\* The indexes of the wallet's own accounts and notes in a set of groups, as
\* parse_tx finds them.
Accounts(groups) == {Position(k) : k \in {g \in groups : IsOwn(g)}}
Notes(groups) ==
  UNION {{Position(k) + j : j \in {l \in DOMAIN ledger[k].notes : ledger[k].notes[l].own}}
         : k \in groups}

HasLeaves(k) == IsOwn(k) \/ Notes({k}) # {}

\* The first n indexes of a set, in order.
Take(n, indexes) ==
  [k \in 1..Min({n, Cardinality(indexes)}) |->
     CHOOSE i \in indexes : Cardinality({j \in indexes : j < i}) = k - 1]

\* The sum of a sequence of numbers; the value of the notes of a set.
Total(values) ==
  LET sum[n \in 0..Len(values)] == IF n = 0 THEN 0 ELSE sum[n - 1] + values[n]
  IN  sum[Len(values)]
ValueOf(indexes) ==
  Total([p \in 1..Position(Len(ledger) + 1) |-> IF p \in indexes THEN NoteAt(p).b ELSE 0])

-----------------------------------------------------------------------------
(***************************************************************************)
(* State, synchronised up to the group s.                                  *)
(***************************************************************************)
initial_account == [i |-> 0, b |-> 0, e |-> 0]

latest_account_index(s) ==
  IF Accounts(1..s) = {} THEN None ELSE Max(Accounts(1..s))

latest_account(s) ==
  IF Accounts(1..s) = {} THEN initial_account ELSE AccountAt(latest_account_index(s))

latest_note_index(s) == IF Notes(1..s) = {} THEN 0 ELSE Max(Notes(1..s))

get_notes_in_range(s, from, to) == {i \in Notes(1..s) : from <= i /\ i < to}

BugFromAccount(s) == IF Accounts(1..s) = {} THEN 0 ELSE latest_account_index(s)
earliest_usable_index(s) ==
  LET i == latest_account(s).i
      latest == latest_note_index(s)
      usable == {n \in Notes(1..s) : i <= n /\ n <= latest}
  IN  IF usable = {} THEN i ELSE Min(usable)

get_usable_notes(s) ==
  LET earliest == earliest_usable_index(s)
      latest == latest_note_index(s)
  IN  {n \in Notes(1..s) : earliest <= n /\ n <= latest}

note_balance(s) ==
  LET i == latest_account(s).i
      latest == latest_note_index(s)
  IN  ValueOf({n \in Notes(1..s) : i <= n /\ n <= latest})

total_balance(s) == latest_account(s).b + note_balance(s)

-----------------------------------------------------------------------------
(***************************************************************************)
(* create_tx, from State up to group s and a fragment f: a set of groups   *)
(* in a row, or none.  create_tx runs in a promise, after its caller has   *)
(* fetched the fragment: State may have been synchronised with a part of   *)
(* it by then, with more, or have been rolled back.                        *)
(***************************************************************************)
Fragment(from, v) == (from + 1)..v

in_account_index(s, f) ==
  LET optimistic == Accounts(f)
  IN  IF optimistic = {} THEN latest_account_index(s) ELSE Max(optimistic)

in_account(s, f) ==
  LET index == in_account_index(s, f)
  IN  IF index = None THEN initial_account ELSE AccountAt(index)

latest_note_index_optimistic(s, f) ==
  LET optimistic == Notes(f)
  IN  IF optimistic = {} THEN latest_note_index(s) ELSE Max(optimistic)

\* The first note of the state, else of the fragment, that is not spent.
earliest_usable_index_optimistic(s, f) ==
  LET i == in_account(s, f).i
      latest == latest_note_index_optimistic(s, f)
      usable(notes) == {n \in notes : i <= n /\ n <= latest}
      first == Take(1, usable(Notes(1..s))) \o Take(1, usable(Notes(f)))
  IN  IF first = <<>> THEN i ELSE Head(first)

\* The next index of the tree behind the last leaves and the last commitment
\* of the fragment.
BugTreeOnly(s, f) == s * GroupSize
fallback_delta_index(s, f) ==
  LET leafs == {k \in f : HasLeaves(k)}
      commitments == f \ leafs
      next_by_leaf(k) ==
        ((Position(k) + Len(ledger[k].notes)) \div GroupSize + 1) * GroupSize
      next_by_commitment(k) == (Position(k) \div GroupSize + 1) * GroupSize
      next == (IF leafs = {} THEN {} ELSE {next_by_leaf(Max(leafs))})
              \cup (IF commitments = {} THEN {} ELSE {next_by_commitment(Max(commitments))})
  IN  IF next = {} THEN s * GroupSize ELSE Max(next)

\* The first In usable notes.
in_notes(s, f) ==
  LET from == earliest_usable_index_optimistic(s, f)
      latest == latest_note_index(s)
      known == {n \in Notes(1..s) : from <= n /\ n <= latest}
      optimistic == {n \in Notes(f) : from <= n}
  IN  SubSeq(Take(In, known) \o Take(In, optimistic), 1,
             Min({In, Cardinality(known) + Cardinality(optimistic)}))

\* The index i of the new account: behind the last note that is spent.
BugSpendsAll(s, f, notes) == latest_note_index_optimistic(s, f) + 1
BugNextGroup(s, f, notes) == Max({s} \cup f) * GroupSize + GroupSize + 1
spend_interval_index(s, f, notes) ==
  LET latest == latest_note_index_optimistic(s, f)
  IN  IF notes # <<>> THEN Last(notes) + 1
      ELSE IF latest > 0 THEN latest + 1 ELSE 0

\* The groups whose root create_tx gives the transaction: those of the state and
\* the fragment.  A gap between the two counts as empty groups, which makes the
\* root of no ledger.
root_view(s, f) == IF f # {} /\ Min(f) > s + 1 THEN None ELSE Max({s} \cup f)

\* What create_tx finds before it looks at the request.  A note that is listed
\* twice counts twice.  The energy of an amount grows with every index from where
\* it lies to delta_index.
Inputs(s, f) ==
  LET index   == in_account_index(s, f)
      account == in_account(s, f)
      notes   == in_notes(s, f)
      held    == fallback_delta_index(s, f)
  IN  [account_index |-> index,
       notes  |-> notes,
       i      |-> spend_interval_index(s, f, notes),
       delta_index |-> held,
       value  |-> account.b + Total([j \in DOMAIN notes |-> NoteAt(notes[j]).b]),
       energy |-> account.e + account.b * (held - (IF index = None THEN 0 ELSE index))
                  + Total([j \in DOMAIN notes |-> NoteAt(notes[j]).b * (held - notes[j])]),
       view   |-> root_view(s, f)]

Outputs(request) == IF request.type = "transfer" THEN request.outputs ELSE <<>>
OutputValue(request) == Total([j \in DOMAIN Outputs(request) |-> Outputs(request)[j].b])

\* The requests create_tx returns no error for.  An energy below zero is a huge
\* number of the field.
Allowed(request, in) ==
  \/ /\ request.type = "transfer"
     /\ Len(Outputs(request)) <= Out
     /\ in.value >= OutputValue(request) + request.fee
  \/ /\ request.type = "withdraw"
     /\ in.energy < 0 \/ request.energy <= in.energy
     /\ in.value >= request.amount
  \/ request.type = "deposit"

\* delta_value and delta_energy.
DeltaValue(request) ==
  CASE request.type = "transfer" -> -request.fee
    [] request.type = "withdraw" -> -request.fee - request.amount
    [] request.type = "deposit"  -> request.amount - request.fee
DeltaEnergy(request) == IF request.type = "withdraw" THEN -request.energy ELSE 0

\* The transaction.  The new balance is a number of a prime field: what is
\* below zero here is a huge number there, which BoundedNum does not hold.
create_tx(request, in) ==
  [account     |-> [i |-> in.i,
                    b |-> in.value + DeltaValue(request) - OutputValue(request),
                    e |-> in.energy + DeltaEnergy(request)],
   notes       |-> Outputs(request),
   in_account  |-> in.account_index,
   in_notes    |-> in.notes,
   delta_index |-> in.delta_index,
   delta_value |-> DeltaValue(request),
   view        |-> in.view]

\* get_tx_input: the account and the notes that the own transaction at index
\* took, found again in State up to group s.
BugUpToAccount(s, index) ==
  LET earlier == {a \in Accounts(1..s) : a < index}
      input_acc == IF earlier = {} THEN initial_account ELSE AccountAt(Max(earlier))
  IN  [account |-> IF earlier = {} THEN 0 ELSE Max(earlier),
       notes |-> get_notes_in_range(s, input_acc.i, index)]
get_tx_input(s, index) ==
  LET earlier == {a \in Accounts(1..s) : a < index}
      input_acc == IF earlier = {} THEN initial_account ELSE AccountAt(Max(earlier))
  IN  [account |-> IF earlier = {} THEN 0 ELSE Max(earlier),
       notes |-> get_notes_in_range(s, input_acc.i, AccountAt(index).i)]

-----------------------------------------------------------------------------
(***************************************************************************)
(* The pool: its circuit and its contract.                                 *)
(***************************************************************************)

\* A proof can be made for the transaction: its root is known, what it takes is
\* in the tree of that root, its notes are distinct and lie in the interval that
\* it marks as spent, and no number is below zero.
Provable(tx) ==
  LET seen == 1..tx.view
      input == IF tx.in_account = None THEN initial_account ELSE AccountAt(tx.in_account)
  IN  /\ tx.view # None
      /\ tx.in_account # None => tx.in_account \in Accounts(seen)
      /\ Range(tx.in_notes) \subseteq Notes(seen)
      /\ IsInjective(tx.in_notes)
      /\ \A n \in Range(tx.in_notes) : input.i <= n /\ n < tx.account.i
      /\ input.i <= tx.account.i
      /\ \A n \in Range(tx.in_notes) \cup (IF tx.in_account = None THEN {} ELSE {tx.in_account}) :
           n <= tx.delta_index
      /\ tx.delta_index <= Position(tx.view + 1)
      /\ tx.account.b >= 0 /\ tx.account.e >= 0

\* The contract accepts one transaction for an input account: the account
\* and its index make the nullifier.
Nullified(tx) == \E k \in DOMAIN ledger : IsOwn(k) /\ ledger[k].in_account = tx.in_account

-----------------------------------------------------------------------------
Init == ledger = <<>> /\ synced = 0 /\ created = {}

\* Somebody else's transaction, which may hold notes for the wallet.
Receive(notes) ==
  /\ Len(ledger) < MaxTxs
  /\ ledger' = Append(ledger, [account |-> None, notes |-> notes])
  /\ UNCHANGED <<synced, created>>

\* create_tx without a fragment, or with one that the caller has fetched at any
\* time: the relayer may have accepted more since, and State have changed before
\* the promise runs.  (A fragment of transactions that were dropped meanwhile
\* gives the root of no ledger, and is left out.)  What the circuit refuses gets
\* no proof and no further.
Fragments == {{}} \cup {Fragment(from, v) : from, v \in 0..Len(ledger)}

CreateTx ==
  /\ Cardinality(created) < MaxCreated
  /\ \E in \in {Inputs(synced, f) : f \in Fragments}, request \in Requests :
       LET tx == create_tx(request, in)
       IN  /\ Allowed(request, in) /\ Provable(tx)
           /\ created' = created \cup {tx}
  /\ UNCHANGED <<ledger, synced>>

\* The relayer and the contract accept the transaction, or reject it.
Submit(tx) ==
  /\ tx \in created
  /\ created' = created \ {tx}
  /\ IF ~Nullified(tx)
     THEN Len(ledger) < MaxTxs /\ ledger' = Append(ledger, tx)
     ELSE UNCHANGED ledger
  /\ UNCHANGED synced

\* update_state with the next transactions, or a rollback the caller asks for.
Sync(s) ==
  /\ synced # s
  /\ synced' = s
  /\ UNCHANGED <<ledger, created>>

\* The last transactions are dropped: from the relayer's queue, or from the
\* chain, which makes the wallet roll back.  The roots seen by transactions
\* made later are unknown from then on.
Drop(k) ==
  /\ k < Len(ledger)
  /\ ledger' = SubSeq(ledger, 1, k)
  /\ synced' = Min({synced, k})
  /\ created' = {tx \in created : tx.view <= k}

Next ==
  \/ \E notes \in ForeignTxs : Receive(notes)
  \/ CreateTx
  \/ \E tx \in created : Submit(tx)
  \/ \E s \in 0..Len(ledger) : Sync(s)
  \/ \E k \in 0..MaxTxs : Drop(k)

Spec == Init /\ [][Next]_vars

-----------------------------------------------------------------------------
(***************************************************************************)
(* Properties.                                                             *)
(***************************************************************************)
OwnGroups == {k \in DOMAIN ledger : IsOwn(k)}

\* The type of the state; an account never marks indexes as spent that do not
\* exist where it is made.
TypeOK ==
  /\ Len(ledger) <= MaxTxs /\ synced \in 0..Len(ledger)
  /\ \A k \in DOMAIN ledger : Len(ledger[k].notes) <= Out
  /\ \A k \in OwnGroups : ledger[k].account.i \in 0..Position(k)
  /\ \A tx \in created :
       /\ tx.view \in 0..Len(ledger) /\ tx.delta_index \in Nat
       /\ tx.account.i \in 0..Position(tx.view + 1) /\ Len(tx.in_notes) <= In

\* With a fragment that continues the state, a transaction that does not
\* overspend can be proved: its inputs exist where it says they are, once each,
\* none of them spent, and delta_index is behind all of them
\* (client/mod.rs:325-425, 467-474).
CreatedTxsProvable ==
  \A in \in {Inputs(synced, Fragment(synced, v)) : v \in synced..Len(ledger)}, request \in Requests :
    LET tx == create_tx(request, in)
    IN  Allowed(request, in) /\ tx.account.b >= 0 => Provable(tx)

\* The balance of a synchronised wallet is what it was given less what it
\* spent: no note is skipped when the account's index moves on, and none is
\* counted again (client/mod.rs:419-422, state.rs:269-293).
Part(notes, own) == Total([j \in DOMAIN notes |-> IF notes[j].own = own THEN notes[j].b ELSE 0])
Gain(k) ==
  IF IsOwn(k) THEN ledger[k].delta_value - Part(ledger[k].notes, FALSE)
  ELSE Part(ledger[k].notes, TRUE)

NothingLost == total_balance(synced) = Total([k \in 1..synced |-> Gain(k)])

\* get_usable_notes gives the notes that no synchronised transaction took
\* (state.rs:164-180, 226-244).
UsableNotesUnspent ==
  get_usable_notes(synced) =
    Notes(1..synced) \ UNION {Range(ledger[k].in_notes) : k \in OwnGroups \cap 1..synced}

\* get_tx_input finds exactly what an own transaction took, although the
\* transaction was made from another state (client/mod.rs:670-690).
TxInputsAreTrue ==
  \A k \in OwnGroups \cap 1..synced :
    LET input == get_tx_input(synced, Position(k))
    IN  /\ input.account = IF ledger[k].in_account = None THEN 0 ELSE ledger[k].in_account
        /\ input.notes = Range(ledger[k].in_notes)

\* "Insufficient balance: sum of outputs is greater than sum of inputs"
\* (client/mod.rs:54): create_tx refuses what the inputs do not cover.
OverspendRefused ==
  \A in \in {Inputs(synced, f) : f \in Fragments}, request \in Requests :
    Allowed(request, in) => create_tx(request, in).account.b >= 0

=============================================================================
