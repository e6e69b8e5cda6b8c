----------------------------- MODULE ParsingProofs ----------------------------
(***************************************************************************)
(* Proofs about what a wallet reads: in the memo of a transaction          *)
(* (TxParser), for every size of a transaction and of a batch of deposits, *)
(* and in an address (Address), for every width of the pool id, set of     *)
(* pools, of keys, of diversifiers and of prefixes.                        *)
(***************************************************************************)
EXTENDS Address, TxParser, TLAPS

(***************************************************************************)
(* Memos.  What a wallet rebuilds from one is what the commitment of the   *)
(* transaction hashes, at the same indexes.                                *)
(***************************************************************************)
\* What a result must be for a transaction at an index: the leaves, padded
\* with zero notes, or the commitment are those published; the account and
\* the wallet's notes have the indexes of their hashes, within the group.
Rebuilds(result, wallet, index, tx) ==
  /\ DOMAIN result.new_leafs \cup DOMAIN result.new_commitments = {index}
  /\ \A i \in DOMAIN result.new_leafs :
       Filled(result.new_leafs[i], OUT + 1, zero_note) = tx.out_hashes
  /\ \A i \in DOMAIN result.new_commitments : result.new_commitments[i] = tx.out_hashes
  /\ \A i \in DOMAIN result.new_accounts :
       i = index /\ result.new_accounts[i] = tx.out_hashes[1]
  /\ \A i \in DOMAIN result.new_notes :
       /\ i \in (index + 1)..(index + OUT)
       /\ result.new_notes[i] = tx.out_hashes[i - index + 1]
       /\ result.new_notes[i].owner = wallet

-----------------------------------------------------------------------------
\* The wallet's notes are among the notes, behind the account (OwnNotes,
\* tx_parser.rs:270-286).
LEMMA OwnNotesAreNotes ==
  ASSUME NEW S, NEW notes \in Seq(S), NEW index \in Nat, NEW wallet
  PROVE  \A i \in DOMAIN OwnNotes(wallet, index, notes) :
           /\ i \in (index + 1)..(index + Len(notes))
           /\ i - index \in 1..Len(notes)
           /\ OwnNotes(wallet, index, notes)[i] = notes[i - index]
           /\ notes[i - index].owner = wallet
  BY DEF OwnNotes, Indexed

\* The hashes of a group: the account, the notes, then zero notes (Filled,
\* client/mod.rs:453-455, 572-576).
LEMMA FilledGroup ==
  ASSUME NEW S, NEW notes \in Seq(S), Len(notes) <= OUT, NEW account
  PROVE  LET group == Filled(<<account>> \o notes, OUT + 1, zero_note)
         IN  /\ group[1] = account
             /\ \A k \in 1..Len(notes) : group[k + 1] = notes[k]
  <1> DEFINE group == Filled(<<account>> \o notes, OUT + 1, zero_note)
  <1> DEFINE T == S \cup {account}
  <1>1. OUT \in Nat
    BY OutAssumption
  <1>2. <<account>> \in Seq(T) /\ notes \in Seq(T) /\ Len(notes) \in Nat
    OBVIOUS
  <1>3. Len(<<account>> \o notes) = Len(notes) + 1
    BY <1>2
  <1>4. (<<account>> \o notes)[1] = account
    BY <1>2
  <1>5. \A k \in 1..Len(notes) : (<<account>> \o notes)[k + 1] = notes[k]
    BY <1>2
  <1>6. group[1] = account
    BY <1>1, <1>2, <1>3, <1>4 DEF Filled
  <1>7. ASSUME NEW k \in 1..Len(notes) PROVE group[k + 1] = notes[k]
    <2>1. k + 1 \in 1..(OUT + 1) /\ k + 1 <= Len(<<account>> \o notes)
      BY <1>1, <1>2, <1>3
    <2> QED
      BY <2>1, <1>5 DEF Filled
  <1> QED
    BY <1>6, <1>7

\* The result for a transaction of which the wallet holds nothing.
LEMMA CommitmentRebuilds ==
  ASSUME NEW wallet, NEW index \in Nat, NEW tx
  PROVE  Rebuilds(CommitmentOnly(index, tx), wallet, index, tx)
  BY DEF Rebuilds, CommitmentOnly, NoResult, NoEntries, At

-----------------------------------------------------------------------------
\* A transfer as create_tx publishes it is rebuilt by its sender, by every
\* owner of a note in it and by everybody else (tx_parser.rs:333-438).
THEOREM TransferRebuilt ==
  ASSUME NEW S, NEW notes \in Seq(S), Len(notes) <= OUT,
         NEW sender, NEW account, NEW wallet, NEW index \in Nat
  PROVE  LET tx == transfer(sender, account, notes)
         IN  Rebuilds(parse_tx(wallet, index, tx), wallet, index, tx)
  <1> DEFINE tx == transfer(sender, account, notes)
  <1> DEFINE own == OwnNotes(wallet, index, notes)
  <1>1. /\ tx.memo.scheme = "cipher" /\ tx.memo.sender = sender
        /\ tx.memo.account = account /\ tx.memo.notes = notes
        /\ tx.out_hashes = Filled(<<account>> \o notes, OUT + 1, zero_note)
    BY DEF transfer
  <1>2. MemoHashes(tx.memo) = <<account>> \o notes
    BY <1>1 DEF MemoHashes
  <1>3. \A i \in DOMAIN own :
          /\ i \in (index + 1)..(index + OUT)
          /\ own[i] = tx.out_hashes[i - index + 1]
          /\ own[i].owner = wallet
    <2> TAKE i \in DOMAIN own
    <2>1. /\ i \in (index + 1)..(index + Len(notes)) /\ i - index \in 1..Len(notes)
          /\ own[i] = notes[i - index] /\ notes[i - index].owner = wallet
      BY OwnNotesAreNotes
    <2>2. tx.out_hashes[(i - index) + 1] = notes[i - index]
      BY <1>1, <2>1, FilledGroup
    <2>3. i \in (index + 1)..(index + OUT)
      BY <2>1, OutAssumption
    <2> QED
      BY <2>1, <2>2, <2>3
  <1>4. tx.out_hashes[1] = account
    BY <1>1, FilledGroup
  <1> HIDE DEF tx, own
  <1>5. CASE sender = wallet
    <2>1. parse_tx(wallet, index, tx) = parse_own(wallet, index, tx)
      BY <1>1, <1>5 DEF parse_tx
    <2>2. /\ parse_own(wallet, index, tx).new_leafs = At(index, <<account>> \o notes)
          /\ parse_own(wallet, index, tx).new_commitments = NoEntries
          /\ parse_own(wallet, index, tx).new_accounts = At(index, account)
          /\ parse_own(wallet, index, tx).new_notes = own
      BY <1>1, <1>2 DEF parse_own, NoResult, own
    <2>3. Rebuilds(parse_own(wallet, index, tx), wallet, index, tx)
      BY <2>2, <1>1, <1>3, <1>4 DEF Rebuilds, At, NoEntries
    <2> QED
      BY <2>1, <2>3 DEF tx
  <1>6. CASE sender # wallet
    <2>1. parse_tx(wallet, index, tx) = parse_foreign(wallet, index, tx)
      BY <1>1, <1>6 DEF parse_tx
    <2>2. CASE own = NoEntries
      <3>1. parse_foreign(wallet, index, tx) = CommitmentOnly(index, tx)
        BY <1>1, <2>2 DEF parse_foreign, own
      <3> QED
        BY <2>1, <3>1, CommitmentRebuilds DEF tx
    <2>3. CASE own # NoEntries
      <3>1. /\ parse_foreign(wallet, index, tx).new_leafs = At(index, <<account>> \o notes)
            /\ parse_foreign(wallet, index, tx).new_commitments = NoEntries
            /\ parse_foreign(wallet, index, tx).new_accounts = NoEntries
            /\ parse_foreign(wallet, index, tx).new_notes = own
        BY <1>1, <1>2, <2>3 DEF parse_foreign, NoResult, own
      <3>2. Rebuilds(parse_foreign(wallet, index, tx), wallet, index, tx)
        BY <3>1, <1>1, <1>3 DEF Rebuilds, At, NoEntries
      <3> QED
        BY <2>1, <3>2 DEF tx
    <2> QED
      BY <2>2, <2>3
  <1> QED
    BY <1>5, <1>6

-----------------------------------------------------------------------------
\* A batch of deposits lists fewer notes than its commitment hashes: the zero
\* deposits of the batch and the zero notes behind it are one padding
\* (delegated_deposit.rs:102-118).
LEMMA DepositGroup ==
  ASSUME NEW R, NEW I, NEW deposits \in Seq([receiver : R, id : I]), Batchable(deposits)
  PROVE  LET notes == [k \in DOMAIN deposits |-> to_note(deposits[k])]
         IN  deposit_batch(deposits).out_hashes
               = Filled(<<zero_account>> \o notes, OUT + 1, zero_note)
  <1> DEFINE notes == [k \in DOMAIN deposits |-> to_note(deposits[k])]
  <1> DEFINE N == DELEGATED_DEPOSITS_NUM
  <1> DEFINE full == Filled(notes, N, zero_note)
  <1> DEFINE T == {notes[k] : k \in DOMAIN deposits} \cup {zero_note, zero_account}
  <1>1. /\ OUT \in Nat /\ N \in 1..OUT
        /\ Len(deposits) \in 1..N /\ DOMAIN deposits = 1..Len(deposits)
    BY OutAssumption DEF Batchable
  <1>2. notes \in Seq(T) /\ Len(notes) = Len(deposits)
    BY <1>1
  <1>3. full \in Seq(T) /\ Len(full) = N
    <2>1. full = [k \in 1..N |-> IF k <= Len(notes) THEN notes[k] ELSE zero_note]
      BY DEF Filled
    <2>2. (\A k \in 1..Len(notes) : notes[k] \in T) /\ zero_note \in T
      BY <1>1, <1>2
    <2> HIDE DEF full, T, notes
    <2>3. \A k \in 1..N : full[k] \in T
      BY <1>1, <1>2, <2>1, <2>2
    <2> QED
      BY <1>1, <2>1, <2>3
  <1> DEFINE long == <<zero_account>> \o full
  <1> DEFINE short == <<zero_account>> \o notes
  <1>4. <<zero_account>> \in Seq(T)
    OBVIOUS
  <1> HIDE DEF T, full, notes
  <1>5. /\ Len(long) = N + 1 /\ Len(short) = Len(notes) + 1
        /\ \A k \in 1..(N + 1) : long[k] = IF k = 1 THEN zero_account ELSE full[k - 1]
        /\ \A k \in 1..(Len(notes) + 1) :
             short[k] = IF k = 1 THEN zero_account ELSE notes[k - 1]
    BY <1>1, <1>2, <1>3, <1>4
  <1>6. \A k \in 1..N : full[k] = IF k <= Len(notes) THEN notes[k] ELSE zero_note
    BY DEF full, Filled
  <1> HIDE DEF long, short
  <1>7. ASSUME NEW k \in 1..(OUT + 1)
        PROVE  (IF k <= Len(long) THEN long[k] ELSE zero_note)
                 = (IF k <= Len(short) THEN short[k] ELSE zero_note)
    <2>1. CASE k > N + 1
      BY <2>1, <1>1, <1>2, <1>5
    <2>2. CASE k = 1
      BY <2>2, <1>1, <1>2, <1>5
    <2>3. CASE k \in 2..(N + 1)
      <3>1. k - 1 \in 1..N
        BY <2>3, <1>1
      <3>2. full[k - 1] = IF k - 1 <= Len(notes) THEN notes[k - 1] ELSE zero_note
        BY <3>1, <1>6
      <3> QED
        BY <2>3, <3>1, <3>2, <1>1, <1>2, <1>5
    <2> QED
      BY <2>1, <2>2, <2>3, <1>1
  <1>8. Filled(long, OUT + 1, zero_note) = Filled(short, OUT + 1, zero_note)
    BY <1>7 DEF Filled
  <1> QED
    BY <1>8 DEF deposit_batch, long, short, full, notes

\* A batch of delegated deposits that create accepts is rebuilt by the owner
\* of a deposit in it and by everybody else; however many deposits there are,
\* their notes stay within the group (tx_parser.rs:261-332).
THEOREM DepositsRebuilt ==
  ASSUME NEW R, NEW I, NEW deposits \in Seq([receiver : R, id : I]), Batchable(deposits),
         NEW wallet, NEW index \in Nat
  PROVE  LET tx == deposit_batch(deposits)
         IN  Rebuilds(parse_tx(wallet, index, tx), wallet, index, tx)
  <1> DEFINE tx == deposit_batch(deposits)
  <1> DEFINE notes == [k \in DOMAIN deposits |-> to_note(deposits[k])]
  <1> DEFINE T == {notes[k] : k \in DOMAIN deposits}
  <1> DEFINE own == OwnNotes(wallet, index, notes)
  <1>1. tx.memo.scheme = "plain" /\ tx.memo.deposits = deposits
    BY DEF deposit_batch
  <1>2. notes \in Seq(T) /\ Len(notes) = Len(deposits)
    OBVIOUS
  <1>3. Len(notes) <= OUT
    BY <1>2, OutAssumption DEF Batchable
  <1>4. tx.out_hashes = Filled(<<zero_account>> \o notes, OUT + 1, zero_note)
    BY DepositGroup
  <1> HIDE DEF tx, T, notes
  <1>5. \A i \in DOMAIN own :
          /\ i \in (index + 1)..(index + OUT)
          /\ own[i] = tx.out_hashes[i - index + 1]
          /\ own[i].owner = wallet
    <2> TAKE i \in DOMAIN own
    <2>1. /\ i \in (index + 1)..(index + Len(notes)) /\ i - index \in 1..Len(notes)
          /\ own[i] = notes[i - index] /\ notes[i - index].owner = wallet
      BY <1>2, OwnNotesAreNotes
    <2>2. tx.out_hashes[(i - index) + 1] = notes[i - index]
      BY <1>2, <1>3, <1>4, <2>1, FilledGroup
    <2>3. i \in (index + 1)..(index + OUT)
      BY <1>2, <1>3, <2>1, OutAssumption
    <2> QED
      BY <2>1, <2>2, <2>3
  <1>6. parse_tx(wallet, index, tx) = parse_deposits(wallet, index, tx)
    BY <1>1 DEF parse_tx
  <1>7. CASE own = NoEntries
    <2>1. parse_deposits(wallet, index, tx) = CommitmentOnly(index, tx)
      BY <1>1, <1>7 DEF parse_deposits, own, notes
    <2> QED
      BY <1>6, <2>1, CommitmentRebuilds DEF tx
  <1>8. CASE own # NoEntries
    <2>1. /\ parse_deposits(wallet, index, tx).new_leafs = At(index, <<zero_account>> \o notes)
          /\ parse_deposits(wallet, index, tx).new_commitments = NoEntries
          /\ parse_deposits(wallet, index, tx).new_accounts = NoEntries
          /\ parse_deposits(wallet, index, tx).new_notes = own
      BY <1>1, <1>8 DEF parse_deposits, NoResult, own, notes
    <2>2. Rebuilds(parse_deposits(wallet, index, tx), wallet, index, tx)
      BY <2>1, <1>4, <1>5 DEF Rebuilds, At, NoEntries
    <2> QED
      BY <1>6, <2>2 DEF tx
  <1> QED
    BY <1>7, <1>8

-----------------------------------------------------------------------------
(***************************************************************************)
(* Addresses.                                                              *)
(***************************************************************************)
\* The key part of an address that was made for a key.
Pd == derive_key_p_d(issued.d, issued.key)

\* The last part of the text that is not empty is at some place k.
HasComponent(t) ==
  \E k \in 1..Len(t) : t[k] # Empty /\ \A j \in 1..Len(t) : j > k => t[j] = Empty

-----------------------------------------------------------------------------
\* What is last in a text stays so behind one more prefix or colon
\* (parse_address_ext, address.rs:79-80),
LEMMA LastOfPrefixed ==
  ASSUME NEW S, NEW t \in Seq(S), HasComponent(t), NEW part
  PROVE  /\ HasComponent(<<part>> \o t) /\ last_component(<<part>> \o t) = last_component(t)
  <1> DEFINE T == S \cup {part}
  <1> DEFINE u == <<part>> \o t
  <1>1. <<part>> \in Seq(T) /\ t \in Seq(T) /\ Len(t) \in Nat /\ DOMAIN t = 1..Len(t)
    OBVIOUS
  <1>2. /\ Len(u) = Len(t) + 1 /\ DOMAIN u = 1..(Len(t) + 1)
        /\ \A k \in 1..Len(t) : u[k + 1] = t[k]
    BY <1>1
  <1> HIDE DEF u, T
  <1> DEFINE IsLast(v, k) == v[k] # Empty /\ \A j \in DOMAIN v : j > k => v[j] = Empty
  <1>3. PICK m \in 1..Len(t) : IsLast(t, m)
    BY <1>1 DEF HasComponent
  <1>4. \A k \in DOMAIN t : IsLast(t, k) => k = m
    BY <1>1, <1>3
  <1>5. IsLast(u, m + 1)
    <2>1. u[m + 1] # Empty
      BY <1>2, <1>3
    <2>2. ASSUME NEW j \in DOMAIN u, j > m + 1 PROVE u[j] = Empty
      <3>1. j - 1 \in 1..Len(t) /\ j - 1 > m /\ j = (j - 1) + 1
        BY <1>1, <1>2, <2>2
      <3>2. t[j - 1] = Empty
        BY <3>1, <1>1, <1>3
      <3> QED
        BY <3>1, <3>2, <1>2
    <2> QED
      BY <2>1, <2>2
  <1>6. \A k \in DOMAIN u : IsLast(u, k) => k = m + 1
    <2> TAKE k \in DOMAIN u
    <2>1. m + 1 \in DOMAIN u
      BY <1>1, <1>2
    <2> QED
      BY <2>1, <1>2, <1>5
  <1>7. last_component(t) = t[m]
    <2>1. m \in DOMAIN t
      BY <1>1
    <2>2. (CHOOSE k \in DOMAIN t : IsLast(t, k)) = m
      BY <2>1, <1>3, <1>4
    <2> QED
      BY <2>2 DEF last_component
  <1>8. last_component(u) = u[m + 1]
    <2>1. m + 1 \in DOMAIN u
      BY <1>1, <1>2
    <2>2. (CHOOSE k \in DOMAIN u : IsLast(u, k)) = m + 1
      BY <2>1, <1>5, <1>6
    <2> QED
      BY <2>2 DEF last_component
  <1>9. HasComponent(u)
    <2>1. m + 1 \in 1..Len(u)
      BY <1>1, <1>2
    <2>2. DOMAIN u = 1..Len(u)
      BY <1>1, <1>2
    <2> QED
      BY <2>1, <2>2, <1>5 DEF HasComponent
  <1> QED
    BY <1>2, <1>7, <1>8, <1>9 DEF u

\* ... behind a colon at its end,
LEMMA LastOfAppended ==
  ASSUME NEW S, NEW t \in Seq(S), HasComponent(t)
  PROVE  /\ HasComponent(Append(t, Empty))
         /\ last_component(Append(t, Empty)) = last_component(t)
  <1> DEFINE T == S \cup {Empty}
  <1> DEFINE u == Append(t, Empty)
  <1>1. t \in Seq(T) /\ Len(t) \in Nat /\ DOMAIN t = 1..Len(t)
    OBVIOUS
  <1>2. /\ Len(u) = Len(t) + 1 /\ DOMAIN u = 1..(Len(t) + 1)
        /\ \A k \in 1..Len(t) : u[k] = t[k]
        /\ u[Len(t) + 1] = Empty
    BY <1>1
  <1> HIDE DEF u, T
  <1> DEFINE IsLast(v, k) == v[k] # Empty /\ \A j \in DOMAIN v : j > k => v[j] = Empty
  <1>3. \A k : k \in DOMAIN t /\ IsLast(t, k) <=> k \in DOMAIN u /\ IsLast(u, k)
    <2>1. ASSUME NEW k \in 1..Len(t), IsLast(t, k) PROVE IsLast(u, k)
      BY <1>1, <1>2, <2>1
    <2>2. ASSUME NEW k \in 1..(Len(t) + 1), IsLast(u, k) PROVE k \in 1..Len(t) /\ IsLast(t, k)
      <3>1. k \in 1..Len(t)
        BY <1>1, <1>2, <2>2
      <3>2. ASSUME NEW j \in 1..Len(t), j > k PROVE t[j] = Empty
        BY <1>1, <1>2, <2>2, <3>2
      <3> QED
        BY <1>1, <1>2, <2>2, <3>1, <3>2
    <2>3. 1..Len(t) \subseteq 1..(Len(t) + 1)
      BY <1>1
    <2> QED
      BY <1>1, <1>2, <2>1, <2>2, <2>3
  <1>4. PICK m \in 1..Len(t) : IsLast(t, m)
    BY <1>1 DEF HasComponent
  <1>5. \A k \in DOMAIN t : IsLast(t, k) => k = m
    BY <1>1, <1>4
  <1>6. last_component(t) = t[m]
    <2>1. (CHOOSE k \in DOMAIN t : IsLast(t, k)) = m
      BY <1>1, <1>4, <1>5
    <2> QED
      BY <2>1 DEF last_component
  <1>7. m \in DOMAIN u /\ IsLast(u, m)
    BY <1>1, <1>3, <1>4
  <1>8. last_component(u) = u[m]
    <2>1. \A k \in DOMAIN u : IsLast(u, k) => k = m
      BY <1>3, <1>5
    <2>2. (CHOOSE k \in DOMAIN u : IsLast(u, k)) = m
      BY <1>7, <2>1
    <2> QED
      BY <2>2 DEF last_component
  <1>9. HasComponent(u)
    <2>1. m \in 1..Len(u) /\ DOMAIN u = 1..Len(u)
      BY <1>2, <1>7
    <2> QED
      BY <2>1, <1>7 DEF HasComponent
  <1> QED
    BY <1>2, <1>4, <1>6, <1>8, <1>9 DEF u

\* ... and is the only part of a text that was just formatted.
LEMMA LastOfSingle ==
  ASSUME NEW part, part # Empty
  PROVE  HasComponent(<<part>>) /\ last_component(<<part>>) = part
  <1>1. /\ Len(<<part>>) = 1 /\ DOMAIN <<part>> = 1..1 /\ <<part>>[1] = part
    OBVIOUS
  <1>2. 1 \in 1..1 /\ \A k \in 1..1 : k = 1
    OBVIOUS
  <1>3. HasComponent(<<part>>)
    BY <1>1, <1>2 DEF HasComponent
  <1>4. \A j \in DOMAIN <<part>> : ~(j > 1)
    BY <1>1
  <1>5. (CHOOSE k \in DOMAIN <<part>> :
           <<part>>[k] # Empty /\ \A j \in DOMAIN <<part>> : j > k => <<part>>[j] = Empty) = 1
    BY <1>1, <1>2, <1>4
  <1> QED
    BY <1>1, <1>3, <1>5 DEF last_component

-----------------------------------------------------------------------------
\* The p_d of a key is a p_d, and the formatted parts are no empty parts.
LEMMA Shapes ==
  ASSUME NEW d, NEW key, NEW p_d, NEW pool_id
  PROVE  /\ derive_key_p_d(d, key) # OffCurve
         /\ format_address(d, p_d, pool_id) # Empty
  <1>1. DOMAIN <<>> = {}
    OBVIOUS
  <1>2. "d" \in DOMAIN derive_key_p_d(d, key)
    BY DEF derive_key_p_d
  <1>3. "d" \in DOMAIN format_address(d, p_d, pool_id)
    BY DEF format_address
  <1> QED
    BY <1>1, <1>2, <1>3 DEF OffCurve, Empty

\* The generic checksum of two numbers is that of no others, and never a
\* checksum of a pool, which are equal for the same numbers in pools with the
\* same bytes (address.rs:93-105, 152-164, 170-173).
LEMMA Hashes ==
  ASSUME NEW d, NEW p_d, NEW e, NEW p_e, NEW i, NEW j
  PROVE  /\ addr_hash(d, p_d) = addr_hash(e, p_e) <=> d = e /\ p_d = p_e
         /\ addr_hash(d, p_d) # pool_hash(i, addr_hash(e, p_e))
         /\ pool_hash(i, addr_hash(d, p_d)) = pool_hash(j, addr_hash(e, p_e))
              <=> /\ pool_id_to_bytes_be(i) = pool_id_to_bytes_be(j)
                  /\ d = e /\ p_d = p_e
  <1>1. ASSUME NEW a, NEW b PROVE keccak256(a) = keccak256(b) <=> a = b
    <2>1. keccak256(a).keccak256 = a /\ keccak256(b).keccak256 = b
      BY DEF keccak256
    <2> QED
      BY <2>1
  <1>2. addr_hash(d, p_d) = addr_hash(e, p_e) <=> d = e /\ p_d = p_e
    <2> DEFINE a == [d |-> d, p_d |-> p_d]
    <2> DEFINE b == [d |-> e, p_d |-> p_e]
    <2>1. a = b <=> d = e /\ p_d = p_e
      <3>1. a.d = d /\ a.p_d = p_d /\ b.d = e /\ b.p_d = p_e
        OBVIOUS
      <3> QED
        BY <3>1
    <2> QED
      BY <2>1, <1>1 DEF addr_hash
  <1>3. addr_hash(d, p_d) # pool_hash(i, addr_hash(e, p_e))
    <2> DEFINE a == [d |-> d, p_d |-> p_d]
    <2> DEFINE b == [pool |-> pool_id_to_bytes_be(i), hash |-> addr_hash(e, p_e)]
    <2>1. "pool" \in DOMAIN b /\ "pool" \notin DOMAIN a
      OBVIOUS
    <2> QED
      BY <2>1, <1>1 DEF addr_hash, pool_hash
  <1>4. pool_hash(i, addr_hash(d, p_d)) = pool_hash(j, addr_hash(e, p_e))
          <=> /\ pool_id_to_bytes_be(i) = pool_id_to_bytes_be(j)
              /\ d = e /\ p_d = p_e
    <2> DEFINE a == [pool |-> pool_id_to_bytes_be(i), hash |-> addr_hash(d, p_d)]
    <2> DEFINE b == [pool |-> pool_id_to_bytes_be(j), hash |-> addr_hash(e, p_e)]
    <2>1. a = b <=> /\ pool_id_to_bytes_be(i) = pool_id_to_bytes_be(j)
                    /\ addr_hash(d, p_d) = addr_hash(e, p_e)
      <3>1. /\ a.pool = pool_id_to_bytes_be(i) /\ a.hash = addr_hash(d, p_d)
            /\ b.pool = pool_id_to_bytes_be(j) /\ b.hash = addr_hash(e, p_e)
        OBVIOUS
      <3> QED
        BY <3>1
    <2> QED
      BY <2>1, <1>1, <1>2 DEF pool_hash
  <1> QED
    BY <1>2, <1>3, <1>4

\* What a wallet of a pool reads in an address as it was formatted.
LEMMA ParseFormatted ==
  ASSUME NEW d, NEW p_d, p_d # OffCurve, NEW pool, NEW pool_id
  PROVE  parse_component(format_address(d, p_d, pool), pool_id) =
           IF pool = None THEN [error |-> FALSE, d |-> d, p_d |-> p_d, pool |-> None]
           ELSE IF pool_id_to_bytes_be(pool) = pool_id_to_bytes_be(pool_id)
           THEN [error |-> FALSE, d |-> d, p_d |-> p_d, pool |-> pool_id]
           ELSE ParseFails
  <1> DEFINE a == format_address(d, p_d, pool)
  <1>1. /\ a.d = d /\ a.p_d = p_d
        /\ a.checksum = IF pool = None THEN addr_hash(d, p_d)
                        ELSE pool_hash(pool, addr_hash(d, p_d))
    BY DEF format_address
  <1>2. subgroup_decompress(a.p_d)
    BY <1>1 DEF subgroup_decompress
  <1>3. addr_hash(d, p_d) # pool_hash(pool, addr_hash(d, p_d))
    BY Hashes
  <1>4. pool_hash(pool, addr_hash(d, p_d)) = pool_hash(pool_id, addr_hash(d, p_d))
          <=> pool_id_to_bytes_be(pool) = pool_id_to_bytes_be(pool_id)
    BY Hashes
  <1> HIDE DEF a
  <1> QED
    BY <1>1, <1>2, <1>3, <1>4 DEF parse_component, Parsed, a

\* Nobody reads an address whose numbers are not those of its checksum, or
\* whose p_d is none.
LEMMA ParseMistyped ==
  ASSUME NEW a, NEW e, NEW p_e, NEW pool, NEW pool_id,
         a.checksum = addr_hash(e, p_e) \/ a.checksum = pool_hash(pool, addr_hash(e, p_e)),
         a.p_d = OffCurve \/ a.d # e \/ a.p_d # p_e
  PROVE  parse_component(a, pool_id) = ParseFails
  <1>1. CASE a.p_d = OffCurve
    BY <1>1 DEF parse_component, subgroup_decompress
  <1>2. CASE ~(a.d = e /\ a.p_d = p_e)
    <2>1. addr_hash(e, p_e) # addr_hash(a.d, a.p_d)
      BY <1>2, Hashes
    <2>2. addr_hash(e, p_e) # pool_hash(pool_id, addr_hash(a.d, a.p_d))
      BY Hashes
    <2>3. addr_hash(a.d, a.p_d) # pool_hash(pool, addr_hash(e, p_e))
      BY Hashes
    <2>4. pool_hash(pool, addr_hash(e, p_e)) # pool_hash(pool_id, addr_hash(a.d, a.p_d))
      BY <1>2, Hashes
    <2> QED
      BY <2>1, <2>2, <2>3, <2>4 DEF parse_component
  <1> QED
    BY <1>1, <1>2

-----------------------------------------------------------------------------
Issued == [key : Keys, d : Diversifiers, pool : Pools \cup {None}]

\* No wallet reads the text.
Refused(t) == \A pool_id \in Pools : parse_address_ext(t, pool_id) = ParseFails

\* The inductive invariant: until it is mistyped the text says what was issued
\* behind whatever precedes it, and afterwards no wallet reads it.
IInv ==
  /\ issued \in Issued
  /\ \E S : text \in Seq(S)
  /\ HasComponent(text)
  /\ mistyped \in BOOLEAN
  /\ ~mistyped => last_component(text) = format_address(issued.d, Pd, issued.pool)
  /\ mistyped => Refused(text)

\* An address as it was issued is read as issued, in the pools that share the
\* bytes of its pool.
LEMMA ReadsAsIssued ==
  ASSUME IInv, ~mistyped, NEW pool_id
  PROVE  parse_address_ext(text, pool_id) =
           IF issued.pool = None THEN [error |-> FALSE, d |-> issued.d, p_d |-> Pd, pool |-> None]
           ELSE IF pool_id_to_bytes_be(issued.pool) = pool_id_to_bytes_be(pool_id)
           THEN [error |-> FALSE, d |-> issued.d, p_d |-> Pd, pool |-> pool_id]
           ELSE ParseFails
  <1>1. Pd # OffCurve
    BY Shapes DEF Pd
  <1>2. last_component(text) = format_address(issued.d, Pd, issued.pool)
    BY DEF IInv
  <1>3. parse_address_ext(text, pool_id) =
          parse_component(format_address(issued.d, Pd, issued.pool), pool_id)
    BY <1>2 DEF parse_address_ext
  <1> DEFINE d == issued.d
  <1> DEFINE pool == issued.pool
  <1> HIDE DEF d, pool
  <1>4. parse_component(format_address(d, Pd, pool), pool_id) =
          IF pool = None THEN [error |-> FALSE, d |-> d, p_d |-> Pd, pool |-> None]
          ELSE IF pool_id_to_bytes_be(pool) = pool_id_to_bytes_be(pool_id)
          THEN [error |-> FALSE, d |-> d, p_d |-> Pd, pool |-> pool_id]
          ELSE ParseFails
    BY ONLY <1>1, ParseFormatted
  <1> QED
    BY <1>3, <1>4 DEF d, pool

\* What any wallet reads at all has not been mistyped, and has the numbers that
\* were issued.
LEMMA ReadsOnlyIssued ==
  ASSUME IInv, NEW pool_id \in Pools, ~parse_address_ext(text, pool_id).error
  PROVE  /\ ~mistyped
         /\ parse_address_ext(text, pool_id).d = issued.d
         /\ parse_address_ext(text, pool_id).p_d = Pd
  <1>1. ParseFails.error
    BY DEF ParseFails
  <1>2. ~mistyped
    BY <1>1 DEF IInv, Refused
  <1> DEFINE good(i) == [error |-> FALSE, d |-> issued.d, p_d |-> Pd, pool |-> i]
  <1>3. \/ parse_address_ext(text, pool_id) = good(None)
        \/ parse_address_ext(text, pool_id) = good(pool_id)
        \/ parse_address_ext(text, pool_id) = ParseFails
    BY <1>2, ReadsAsIssued
  <1> QED
    BY <1>1, <1>2, <1>3

\* An address is issued as it is formatted.
LEMMA InitIInv == Init => IInv
  <1> SUFFICES ASSUME Init PROVE IInv
    OBVIOUS
  <1> DEFINE a == format_address(issued.d, Pd, issued.pool)
  <1>1. a # Empty
    BY Shapes
  <1>2. text = <<a>>
    BY DEF Init, Pd
  <1>3. HasComponent(text) /\ last_component(text) = a
    BY <1>1, <1>2, LastOfSingle
  <1>4. text \in Seq({a})
    BY <1>2
  <1> QED
    BY <1>3, <1>4 DEF Init, IInv, Issued

\* The steps of Prefix and Colon keep what is last in the text.
LEMMA SameComponentIInv ==
  ASSUME IInv, UNCHANGED <<issued, mistyped>>,
         \E S : text' \in Seq(S), HasComponent(text)',
         last_component(text') = last_component(text)
  PROVE  IInv'
  <1>1. Pd' = Pd
    BY DEF Pd
  <1>2. ASSUME NEW pool_id
        PROVE parse_address_ext(text', pool_id) = parse_address_ext(text, pool_id)
    BY DEF parse_address_ext
  <1>3. Refused(text) => Refused(text')
    BY <1>2 DEF Refused
  <1> QED
    BY <1>1, <1>3 DEF IInv

\* A step that formats the numbers of what it read for some pool, or for all.
LEMMA ReformattedIInv ==
  ASSUME IInv, NEW pool_id \in Pools, ~parse_address_ext(text, pool_id).error,
         NEW pool \in Pools \cup {None},
         text' = <<format_address(parse_address_ext(text, pool_id).d,
                                  parse_address_ext(text, pool_id).p_d, pool)>>,
         issued' = [issued EXCEPT !.pool = pool],
         UNCHANGED mistyped
  PROVE  IInv'
  <1>1. ~mistyped /\ text' = <<format_address(issued.d, Pd, pool)>>
    BY ReadsOnlyIssued
  <1>2. /\ issued' \in Issued /\ issued'.d = issued.d /\ issued'.key = issued.key
        /\ issued'.pool = pool
    BY DEF IInv, Issued
  <1>3. Pd' = Pd
    BY <1>2 DEF Pd
  <1> DEFINE a == format_address(issued.d, Pd, pool)
  <1>4. a # Empty
    BY Shapes
  <1>5. HasComponent(text') /\ last_component(text') = a
    BY <1>1, <1>4, LastOfSingle
  <1>6. text' \in Seq({a})
    BY <1>1
  <1> QED
    BY <1>1, <1>2, <1>3, <1>5, <1>6 DEF IInv

\* A mistyped number is not the number of its checksum, or is no number.
LEMMA MistypeIInv ==
  ASSUME IInv, Mistype PROVE IInv'
  <1> DEFINE a == format_address(issued.d, Pd, issued.pool)
  <1>1. ~mistyped /\ mistyped' = TRUE /\ last_component(text) = a /\ issued' = issued
    BY DEF IInv, Mistype
  <1>2. /\ a.d = issued.d /\ a.p_d = Pd
        /\ \/ a.checksum = addr_hash(issued.d, Pd)
           \/ a.checksum = pool_hash(issued.pool, addr_hash(issued.d, Pd))
    BY DEF format_address
  <1>3. \A key \in Keys \ {issued.key} : derive_key_p_d(a.d, key) # Pd
    <2> TAKE key \in Keys \ {issued.key}
    <2>1. derive_key_p_d(a.d, key).key = key /\ Pd.key = issued.key
      BY DEF derive_key_p_d, Pd
    <2> QED
      BY <2>1
  <1>4. \E d, p_d : /\ text' = <<[a EXCEPT !.d = d, !.p_d = p_d]>>
                    /\ d # a.d \/ p_d # a.p_d
                    /\ p_d = OffCurve \/ d # issued.d \/ p_d # Pd
    <2>1. CASE \E d \in Diversifiers \ {a.d} : text' = <<[a EXCEPT !.d = d]>>
      <3>1. PICK d \in Diversifiers \ {a.d} : text' = <<[a EXCEPT !.d = d]>>
        BY <2>1
      <3>2. [a EXCEPT !.d = d] = [a EXCEPT !.d = d, !.p_d = a.p_d]
        BY DEF format_address
      <3> QED
        BY <3>1, <3>2, <1>2
    <2>2. CASE \E p_d : p_d # Pd /\ text' = <<[a EXCEPT !.p_d = p_d]>>
      <3>1. PICK p_d : p_d # Pd /\ text' = <<[a EXCEPT !.p_d = p_d]>>
        BY <2>2
      <3>2. [a EXCEPT !.p_d = p_d] = [a EXCEPT !.d = a.d, !.p_d = p_d]
        BY DEF format_address
      <3> QED
        BY <3>1, <3>2, <1>2
    <2>3. Pd # OffCurve
      BY Shapes DEF Pd
    <2> QED
      BY <1>1, <1>3, <2>1, <2>2, <2>3 DEF Mistype
  <1>5. PICK d, p_d : /\ text' = <<[a EXCEPT !.d = d, !.p_d = p_d]>>
                      /\ p_d = OffCurve \/ d # issued.d \/ p_d # Pd
    BY <1>4
  <1> DEFINE b == [a EXCEPT !.d = d, !.p_d = p_d]
  <1>6. b.d = d /\ b.p_d = p_d /\ b.checksum = a.checksum /\ b # Empty
    <2>1. "d" \in DOMAIN b /\ DOMAIN <<>> = {}
      BY DEF format_address
    <2> QED
      BY <2>1 DEF format_address, Empty
  <1> HIDE DEF b
  <1>7. HasComponent(text') /\ last_component(text') = b /\ text' \in Seq({b})
    BY <1>5, <1>6, LastOfSingle DEF b
  <1>8. \A pool_id \in Pools : parse_component(b, pool_id) = ParseFails
    BY <1>2, <1>5, <1>6, ParseMistyped
  <1>9. Refused(text')
    BY <1>7, <1>8 DEF Refused, parse_address_ext
  <1> QED
    BY <1>1, <1>7, <1>9 DEF IInv

\* IInv is inductive.
LEMMA NextIInv == IInv /\ [Next]_vars => IInv'
  <1> SUFFICES ASSUME IInv, [Next]_vars PROVE IInv'
    OBVIOUS
  <1>0. PICK S : text \in Seq(S)
    BY DEF IInv
  <1>1. ASSUME NEW part \in Labels \cup {Empty}, Prefix(part) PROVE IInv'
    <2>1. HasComponent(<<part>> \o text)
          /\ last_component(<<part>> \o text) = last_component(text)
      BY <1>0, LastOfPrefixed DEF IInv
    <2>2. <<part>> \o text \in Seq(S \cup {part})
      <3>1. <<part>> \in Seq(S \cup {part}) /\ text \in Seq(S \cup {part})
        BY <1>0
      <3> QED
        BY <3>1
    <2>3. text' = <<part>> \o text /\ UNCHANGED <<issued, mistyped>>
      BY <1>1 DEF Prefix
    <2> QED
      BY <2>1, <2>2, <2>3, SameComponentIInv
  <1>2. CASE Colon
    <2>1. HasComponent(Append(text, Empty))
          /\ last_component(Append(text, Empty)) = last_component(text)
      BY <1>0, LastOfAppended DEF IInv
    <2>2. Append(text, Empty) \in Seq(S \cup {Empty})
      <3>1. text \in Seq(S \cup {Empty})
        BY <1>0
      <3> QED
        BY <3>1
    <2>3. text' = Append(text, Empty) /\ UNCHANGED <<issued, mistyped>>
      BY <1>2 DEF Colon
    <2> QED
      BY <2>1, <2>2, <2>3, SameComponentIInv
  <1>3. ASSUME NEW pool_id \in Pools, convert_address_to_chain_specific(pool_id) PROVE IInv'
    BY <1>3, ReformattedIInv DEF convert_address_to_chain_specific
  <1>4. ASSUME NEW pool_id \in Pools, assemble_universal_address(pool_id) PROVE IInv'
    BY <1>4, ReformattedIInv DEF assemble_universal_address
  <1>5. CASE Mistype
    BY <1>5, MistypeIInv
  <1>6. CASE UNCHANGED vars
    <2>1. text' = text /\ UNCHANGED <<issued, mistyped>>
      BY <1>6 DEF vars
    <2> QED
      BY <2>1, SameComponentIInv DEF IInv
  <1> QED
    BY <1>1, <1>2, <1>3, <1>4, <1>5, <1>6 DEF Next

-----------------------------------------------------------------------------
\* An address is accepted everywhere if it is generic, or in the pools that have
\* the bytes of its pool (address.rs:93-105, 170-173).
THEOREM AddressAcceptedWhereIssued == Spec => []AcceptedWhereIssued
  <1> DEFINE Universal(pool_id) ==
        validate_universal_address(text, pool_id) <=> issued.pool = None
  <1> DEFINE Specific(pool_id) ==
        validate_address(text, pool_id) <=>
          issued.pool # None /\ pool_id % 2^POOL_ID_BITS = issued.pool % 2^POOL_ID_BITS
  <1>1. ASSUME IInv, ~mistyped, NEW pool_id \in Pools
        PROVE  Universal(pool_id) /\ Specific(pool_id)
    <2> DEFINE r == parse_address_ext(text, pool_id)
    <2> DEFINE same == pool_id_to_bytes_be(issued.pool) = pool_id_to_bytes_be(pool_id)
    <2>1. same <=> pool_id % 2^POOL_ID_BITS = issued.pool % 2^POOL_ID_BITS
      BY DEF pool_id_to_bytes_be
    <2>2. pool_id # None
      BY PoolsAssumption
    <2>3. ParseFails.error
      BY DEF ParseFails
    <2>4. CASE issued.pool = None
      <3>1. ~r.error /\ r.pool = None
        BY <1>1, <2>4, ReadsAsIssued
      <3> QED
        BY <2>4, <3>1 DEF validate_universal_address, validate_address, Accepts
    <2>5. CASE issued.pool # None /\ same
      <3>1. ~r.error /\ r.pool = pool_id
        BY <1>1, <2>5, ReadsAsIssued
      <3> QED
        BY <2>1, <2>2, <2>5, <3>1 DEF validate_universal_address, validate_address, Accepts
    <2>6. CASE issued.pool # None /\ ~same
      <3>1. r = ParseFails
        BY <1>1, <2>6, ReadsAsIssued
      <3> QED
        BY <2>1, <2>3, <2>6, <3>1 DEF validate_universal_address, validate_address, Accepts
    <2> QED
      BY <2>4, <2>5, <2>6
  <1>2. ASSUME IInv, ~mistyped, NEW pool_id \in Pools, NEW desired \in Pools,
               is_pool_valid(text, desired, pool_id)
        PROVE  Accepts(text, pool_id)
    <2>1. CASE parse_address_ext(text, desired).pool = None
      <3>1. validate_universal_address(text, desired)
        BY <1>2, <2>1 DEF is_pool_valid, validate_universal_address, Accepts
      <3>2. issued.pool = None
        BY <1>1, <1>2, <3>1
      <3> QED
        BY <1>1, <1>2, <3>2 DEF validate_universal_address
    <2>2. CASE parse_address_ext(text, desired).pool = pool_id
      <3>1. pool_id # None /\ desired # None
        BY PoolsAssumption
      <3>2. /\ ~parse_address_ext(text, desired).error
            /\ ParseFails.error
        BY <1>2 DEF is_pool_valid, ParseFails
      <3>3. \/ parse_address_ext(text, desired).pool = None
            \/ parse_address_ext(text, desired).pool = desired
        BY <1>2, <3>2, ReadsAsIssued
      <3>4. pool_id = desired
        BY <2>2, <3>1, <3>3
      <3> QED
        BY <3>2, <3>4 DEF Accepts
    <2> QED
      BY <1>2, <2>1, <2>2 DEF is_pool_valid
  <1>3. IInv => AcceptedWhereIssued
    BY <1>1, <1>2 DEF AcceptedWhereIssued
  <1> QED
    BY <1>3, InitIInv, NextIInv, PTL DEF Spec

\* Whatever happens to an address on its way, a wallet that accepts it reads the
\* numbers it was issued with, which are those of one key (address.rs:66-146,
\* client/mod.rs:262-275).
THEOREM AddressParsedIsIssued == Spec => []ParsedIsIssued
  <1>1. IInv => ParsedIsIssued
    <2> SUFFICES ASSUME IInv, NEW pool_id \in Pools, ~parse_address_ext(text, pool_id).error
                 PROVE  /\ ~mistyped
                        /\ parse_address_ext(text, pool_id).d = issued.d
                        /\ \A key \in Keys :
                             is_own_address(text, pool_id, key) <=> key = issued.key
      BY DEF ParsedIsIssued, Accepts
    <2>1. /\ ~mistyped
          /\ parse_address_ext(text, pool_id).d = issued.d
          /\ parse_address_ext(text, pool_id).p_d = Pd
      BY ReadsOnlyIssued
    <2>2. ASSUME NEW key \in Keys
          PROVE is_own_address(text, pool_id, key) <=> key = issued.key
      <3>1. derive_key_p_d(issued.d, key) = Pd <=> key = issued.key
        <4>1. derive_key_p_d(issued.d, key).key = key /\ Pd.key = issued.key
          BY DEF derive_key_p_d, Pd
        <4> QED
          BY <4>1 DEF Pd
      <3> QED
        BY <2>1, <3>1 DEF is_own_address
    <2> QED
      BY <2>1, <2>2
  <1> QED
    BY <1>1, InitIInv, NextIInv, PTL DEF Spec

=============================================================================
