--------------------------- MODULE MCSynchronisation ---------------------------
(***************************************************************************)
(* An instance of Synchronisation: groups of four leaves, transactions of  *)
(* the wallet and of another, with notes for each, batches of deposits,    *)
(* and transactions with memos of other clients.                           *)
(***************************************************************************)
EXTENDS Synchronisation

CONSTANTS me, other

Item(owner, account, id) == [owner |-> owner, account |-> account, id |-> id]
NotesAt(index, owners) ==
  [k \in DOMAIN owners |-> Item(owners[k], FALSE, index + k)]
TransferAt(index, sender, owners) ==
  transfer(sender, Item(sender, TRUE, index), NotesAt(index, owners))
DepositsAt(index, owners) ==
  [k \in DOMAIN owners |-> [receiver |-> owners[k], id |-> index + k]]
ForeignAt(index, items) ==
  foreign_memo(items, [k \in 1..GroupSize |-> Item(other, k = 1, index + k - 1)])

MCTransfers ==
  [index \in Starts(0, MaxChain * GroupSize) |->
     {TransferAt(index, me, <<me, other>>), TransferAt(index, me, <<>>),
      TransferAt(index, other, <<other, me, me>>), TransferAt(index, other, <<other>>),
      ForeignAt(index, 0), ForeignAt(index, OUT + 2)}]

\* The last list is too long for a batch.
MCDeposits ==
  [index \in Starts(0, MaxChain * GroupSize) |->
     {DepositsAt(index, o) : o \in {<<me, other>>, <<other>>, <<other, other, me>>}}]

=============================================================================
