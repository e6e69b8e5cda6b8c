------------------------------- MODULE TxParser -------------------------------
(***************************************************************************)
(* What a transaction of the pool publishes, and what a wallet reads in it *)
(* (libzkbob-rs-wasm/src/client/tx_parser.rs).                             *)
(*                                                                         *)
(* A transaction publishes the commitment of its OUT + 1 output hashes and *)
(* a memo.  The wallet never sees the hashes of the commitment: it stores  *)
(* the leaves it rebuilds from the memo, or the commitment when nothing of *)
(* the memo is its own.  The memo is shorter than the commitment, it lists *)
(* only real outputs.                                                      *)
(*                                                                         *)
(* Cryptography is symbolic: accounts and notes are records that name      *)
(* their owner, the hash of one is the record itself, a ciphertext opens   *)
(* for its sender and for the owner of each note.                          *)
(***************************************************************************)
EXTENDS Integers, SequencesExt

CONSTANTS
  OUT,                     \* notes of a transaction (127)
  DELEGATED_DEPOSITS_NUM,  \* deposits of a batch (16)
  zero_account,            \* zero_account() and its hash
  zero_note                \* zero_note() and its hash

ASSUME OutAssumption == OUT \in Nat /\ DELEGATED_DEPOSITS_NUM \in 1..OUT

-----------------------------------------------------------------------------
(***************************************************************************)
(* Publishing.  A published transaction is [memo, out_hashes].             *)
(***************************************************************************)
Filled(hashes, n, zero) ==
  [k \in 1..n |-> IF k <= Len(hashes) THEN hashes[k] ELSE zero]

\* create_tx: the zero notes are hashed but not encrypted.
transfer(sender, account, notes) ==
  [memo |-> [scheme |-> "cipher", items |-> 1 + Len(notes),
             sender |-> sender, account |-> account, notes |-> notes],
   out_hashes |-> Filled(<<account>> \o notes, OUT + 1, zero_note)]

\* MemoDelegatedDeposit.to_delegated_deposit and DelegatedDeposit.to_note.
\* A zero deposit makes the zero note.
to_note(deposit) == [owner |-> deposit.receiver, account |-> FALSE, id |-> deposit.id]

\* DelegatedDepositData::create: the batches it makes, and the transaction.
BugTooManyDeposits(deposits) == Len(deposits) \in 1..(DELEGATED_DEPOSITS_NUM + 1)
Batchable(deposits) == Len(deposits) \in 1..DELEGATED_DEPOSITS_NUM

deposit_batch(deposits) ==
  LET notes == [k \in DOMAIN deposits |-> to_note(deposits[k])]
      full  == Filled(notes, DELEGATED_DEPOSITS_NUM, zero_note)
  IN  [memo |-> [scheme |-> "plain", items |-> Len(deposits), deposits |-> deposits],
       out_hashes |-> Filled(<<zero_account>> \o full, OUT + 1, zero_note)]

\* A memo that another client made: too short or with an unknown header
\* (items = 0), or with a prefix that announces items more than there can be.
foreign_memo(items, out_hashes) ==
  [memo |-> [scheme |-> IF items = 0 THEN "none" ELSE "cipher", items |-> items],
   out_hashes |-> out_hashes]

-----------------------------------------------------------------------------
(***************************************************************************)
(* Parsing.  A result is the struct StateUpdate, its vectors of pairs as   *)
(* functions from leaf indexes, and the decrypted memos.                   *)
(***************************************************************************)
NoEntries == [i \in {} |-> zero_note]
At(index, value) == [i \in {index} |-> value]

NoResult ==
  [new_leafs |-> NoEntries, new_commitments |-> NoEntries,
   new_accounts |-> NoEntries, new_notes |-> NoEntries, memos |-> <<>>]

CommitmentOnly(index, tx) == [NoResult EXCEPT !.new_commitments = At(index, tx.out_hashes)]

\* The indexes of a list of notes: the account comes before them.
Indexed(index, notes) == [i \in (index + 1)..(index + Len(notes)) |-> notes[i - index]]

\* The notes whose p_d derives from the wallet's key, at their indexes.
BugCountsOwn(wallet, index, notes) ==
  LET own(note) == note.owner = wallet
  IN  Indexed(index, SelectSeq(notes, own))
BugFromZero(wallet, index, notes) ==
  [i \in {j \in index..(index + Len(notes) - 1) : notes[j - index + 1].owner = wallet} |->
     notes[i - index + 1]]
OwnNotes(wallet, index, notes) ==
  LET all == Indexed(index, notes)
  IN  [i \in {j \in DOMAIN all : all[j].owner = wallet} |-> all[i]]

\* A batch of delegated deposits.
parse_deposits(wallet, index, tx) ==
  LET notes == [k \in DOMAIN tx.memo.deposits |-> to_note(tx.memo.deposits[k])]
      own == OwnNotes(wallet, index, notes)
  IN  IF own = NoEntries THEN CommitmentOnly(index, tx)
      ELSE [NoResult EXCEPT
              !.new_leafs = At(index, <<zero_account>> \o notes),
              !.new_notes = own,
              !.memos = <<[index |-> index, account |-> <<>>,
                           in_notes |-> own, out_notes |-> NoEntries]>>]

\* The hashes a memo begins with.
BugNotesOnly(memo) == memo.notes
MemoHashes(memo) == <<memo.account>> \o memo.notes

\* decrypt_out gives the account and the notes to the sender.
parse_own(wallet, index, tx) ==
  LET own == OwnNotes(wallet, index, tx.memo.notes)
  IN  [NoResult EXCEPT
         !.new_leafs = At(index, MemoHashes(tx.memo)),
         !.new_accounts = At(index, tx.memo.account),
         !.new_notes = own,
         !.memos = <<[index |-> index, account |-> <<tx.memo.account>>, in_notes |-> own,
                      out_notes |-> Indexed(index, tx.memo.notes)]>>]

\* decrypt_in gives a wallet its notes in somebody else's transaction.
parse_foreign(wallet, index, tx) ==
  LET own == OwnNotes(wallet, index, tx.memo.notes)
  IN  IF own = NoEntries THEN CommitmentOnly(index, tx)
      ELSE [NoResult EXCEPT
              !.new_leafs = At(index, MemoHashes(tx.memo)),
              !.new_notes = own,
              !.memos = <<[index |-> index, account |-> <<>>,
                           in_notes |-> own, out_notes |-> NoEntries]>>]

\* ParseError: NoPrefix or IncorrectPrefix.
IsParseError(tx) == tx.memo.scheme = "none" \/ tx.memo.items > OUT + 1

\* parse_tx of a transaction that is no ParseError.
parse_tx(wallet, index, tx) ==
  CASE tx.memo.scheme = "plain" -> parse_deposits(wallet, index, tx)
    [] tx.memo.scheme = "cipher" /\ tx.memo.sender = wallet -> parse_own(wallet, index, tx)
    [] OTHER -> parse_foreign(wallet, index, tx)

-----------------------------------------------------------------------------
(***************************************************************************)
(* Parsing many.  txs is a sequence of [index, tx].                        *)
(***************************************************************************)
Both(f, g) == [i \in DOMAIN f \cup DOMAIN g |-> IF i \in DOMAIN g THEN g[i] ELSE f[i]]

Joined(acc, result) ==
  [new_leafs |-> Both(acc.new_leafs, result.new_leafs),
   new_commitments |-> Both(acc.new_commitments, result.new_commitments),
   new_accounts |-> Both(acc.new_accounts, result.new_accounts),
   new_notes |-> Both(acc.new_notes, result.new_notes),
   memos |-> acc.memos \o result.memos]

\* TxParser.parse_txs: what cannot be parsed is known by its commitment.
BugDropsUnparsed(wallet, txs) ==
  LET results == [k \in DOMAIN txs |->
                    IF IsParseError(txs[k].tx) THEN NoResult
                    ELSE parse_tx(wallet, txs[k].index, txs[k].tx)]
  IN  FoldLeft(Joined, NoResult, results)
parse_txs(wallet, txs) ==
  LET results == [k \in DOMAIN txs |->
                    IF IsParseError(txs[k].tx) THEN CommitmentOnly(txs[k].index, txs[k].tx)
                    ELSE parse_tx(wallet, txs[k].index, txs[k].tx)]
  IN  FoldLeft(Joined, NoResult, results)

\* update_state_cold_storage: the transactions of the bulks within the range
\* are parsed, what cannot be parsed is dropped, the memos are sorted.
ByIndex(a, b) == a.index < b.index
BugUnsorted(memos) == memos
SortedMemos(memos) == SortSeq(memos, ByIndex)

InRange(from_index, to_index, i) == from_index <= i /\ i < to_index

parse_cold_storage(wallet, txs, from_index, to_index) ==
  LET parsed(t) == InRange(from_index, to_index, t.index) /\ ~IsParseError(t.tx)
      kept == SelectSeq(txs, parsed)
      all  == FoldLeft(Joined, NoResult,
                       [k \in DOMAIN kept |-> parse_tx(wallet, kept[k].index, kept[k].tx)])
  IN  [all EXCEPT !.memos = SortedMemos(@)]

=============================================================================
