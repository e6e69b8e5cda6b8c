---------------------------- MODULE KvdbWebProofs ----------------------------
(***************************************************************************)
(* Proofs about KvdbWeb, for any number of columns, keys, values and       *)
(* batches: the types and the object stores; that IndexedDB gets to hold   *)
(* what the memory holds; and that no opening reads a half of a batch.     *)
(*                                                                         *)
(* The operators of KvdbWeb that go through the operations of a batch and  *)
(* the transactions of IndexedDB are recursive functions.  That each has   *)
(* the values its definition says follows from Iterates, and what it does  *)
(* to every sequence from IntervalInduction.                               *)
(***************************************************************************)
EXTENDS KvdbWeb, InductionLemmas, TLAPS

\* Names for sets of functions and sequences, which keep the obligations small.
Contents == [Column -> Content]
Transaction == Seq(Operation)

-----------------------------------------------------------------------------
(***************************************************************************)
(* The inductive invariants.                                               *)
(***************************************************************************)
\* A database that does not exist has no stores.
StoresInv ==
  /\ stores \in Nat /\ version \in Nat /\ columns \in Nat
  /\ version = 0 => stores = 0
  /\ StoresExist

\* The types, and a column left to read while there is reading to do.
TypeInv ==
  /\ stores \in 0..(MaxColumns + 1) /\ version \in Nat
  /\ idb \in Contents /\ in_memory \in Contents
  /\ pending \in Seq(Transaction)
  /\ phase \in {"closed", "bumping", "reading", "open", "gone"}
  /\ old \in {"none", "held", "dropped"}
  /\ columns \in 0..MaxColumns /\ column \in 0..columns
  /\ phase \in {"bumping", "reading"} => column < columns
  /\ failed \in BOOLEAN

\* The columns read so far are those of IndexedDB, which has nothing pending that
\* could change one of them before the next is read.
ColumnsRead ==
  /\ phase = "bumping" => column = 0
  /\ phase = "reading" /\ column > 0 =>
       pending = <<>> /\ \A c \in 0..(column - 1) : in_memory[c] = idb[c]

\* IndexedDB has nothing pending on a store that is not open.
PendingInColumns ==
  phase = "open" =>
    \A k \in 1..Len(pending) : \A n \in 1..Len(pending[k]) : pending[k][n].col < columns

\* Whatever number of the transactions IndexedDB gets to commit, it then holds a
\* content that was written.
PrefixesWritten ==
  ~failed => \A k \in 0..Len(pending) : CommittedOneByOne(idb, pending)[k] \in written

AgreeInv == ColumnsRead /\ PendingInColumns /\ WriteThrough /\ PrefixesWritten

\* The library writes no batch that deletes by prefix: its only calls are commented
\* out (sparse_array.rs:128, merkle.rs:967-968).
NoPrefixDeleted ==
  \A batch \in Batches : \A n \in 1..Len(batch) : batch[n].type # "delete_prefix"

-----------------------------------------------------------------------------
(***************************************************************************)
(* The operators.                                                          *)
(***************************************************************************)
\* A put and a deletion keep a content one.
LEMMA PutType ==
  ASSUME NEW content \in Content, NEW key \in Keys, NEW value \in Values
  PROVE  Put(content, key, value) \in Content
  <1>1. PICK keys \in SUBSET Keys : content \in [keys -> Values]
    BY DEF Content
  <1>2. Put(content, key, value) \in [keys \cup {key} -> Values]
    BY <1>1 DEF Put
  <1> QED
    BY <1>2 DEF Content

LEMMA WithoutType ==
  ASSUME NEW content \in Content, NEW keys
  PROVE  Without(content, keys) \in Content
  <1>1. PICK all \in SUBSET Keys : content \in [all -> Values]
    BY DEF Content
  <1>2. Without(content, keys) \in [all \ keys -> Values]
    BY <1>1 DEF Without
  <1> QED
    BY <1>2 DEF Content

\* An operation makes contents of contents, and changes its own column only.
LEMMA InIndexedDbType ==
  ASSUME NEW db \in Contents, NEW op \in Operation
  PROVE  /\ InIndexedDb(db, op) \in Contents
         /\ \A c \in Column : c # op.col => InIndexedDb(db, op)[c] = db[c]
  <1>1. op.col \in Column /\ op.key \in Keys /\ op.type \in {"put", "delete", "delete_prefix"}
    BY DEF Operation
  <1>2. db[op.col] \in Content
    BY <1>1 DEF Contents
  <1>3. ASSUME NEW content \in Content
        PROVE  /\ [db EXCEPT ![op.col] = content] \in Contents
               /\ \A c \in Column : c # op.col => [db EXCEPT ![op.col] = content][c] = db[c]
    BY DEF Contents
  <1>4. CASE op.type = "put"
    <2>1. op.value \in Values
      BY <1>4 DEF Operation
    <2> QED
      BY <1>1, <1>2, <1>3, <1>4, <2>1, PutType DEF InIndexedDb
  <1>5. CASE op.type # "put"
    <2>1. InIndexedDb(db, op) = [db EXCEPT ![op.col] = Without(@, {op.key})]
      BY <1>1, <1>5 DEF InIndexedDb
    <2> QED
      BY <1>2, <1>3, <2>1, WithoutType
  <1> QED
    BY <1>4, <1>5

\* The operations of a batch, one after the other, have results: the recursion of
\* Committed has a solution.
LEMMA InIndexedDbIterates ==
  ASSUME NEW db \in Contents, NEW N \in Nat, NEW batch \in [1..N -> Operation]
  PROVE  \E f \in [0..N -> Contents] :
           f = [n \in 0..N |-> IF n = 0 THEN db ELSE InIndexedDb(f[n - 1], batch[n])]
  <1> DEFINE step == [n \in 1..N |-> [d \in Contents |-> InIndexedDb(d, batch[n])]]
  <1>1. step \in [1..N -> [Contents -> Contents]]
    BY InIndexedDbType
  <1>2. \E f : f \in Iterations(Contents, db, N, step)
    <2> HIDE DEF step
    <2> QED
      BY <1>1, Iterates
  <1>3. PICK f \in [0..N -> Contents] :
          f[0] = db /\ \A n \in 1..N : f[n] = step[n][f[n - 1]]
    BY <1>2 DEF Iterations
  <1>4. ASSUME NEW n \in 1..N PROVE f[n] = InIndexedDb(f[n - 1], batch[n])
    <2>1. f[n - 1] \in Contents
      OBVIOUS
    <2>2. step[n][f[n - 1]] = InIndexedDb(f[n - 1], batch[n])
      BY <2>1
    <2> QED
      BY <1>3, <2>2
  <1>5. f = [n \in 0..N |-> f[n]] /\ f[0] = db
    BY <1>3
  <1>6. ASSUME NEW n \in 0..N
        PROVE  f[n] = IF n = 0 THEN db ELSE InIndexedDb(f[n - 1], batch[n])
    BY <1>4, <1>5
  <1> HIDE DEF step
  <1> QED
    BY <1>5, <1>6

\* So Committed is what it says: the last of the results of the operations.
LEMMA CommittedSteps ==
  ASSUME NEW db \in Contents, NEW batch \in Seq(Operation)
  PROVE  \E f \in [0..Len(batch) -> Contents] :
           /\ f[0] = db
           /\ \A n \in 1..Len(batch) : f[n] = InIndexedDb(f[n - 1], batch[n])
           /\ Committed(db, batch) = f[Len(batch)]
  <1> DEFINE N == Len(batch)
  <1> DEFINE Body(h) == [n \in 0..N |-> IF n = 0 THEN db ELSE InIndexedDb(h[n - 1], batch[n])]
  <1> DEFINE f == CHOOSE h : h = Body(h)
  <1>0. N \in Nat /\ batch \in [1..N -> Operation]
    OBVIOUS
  <1>1. f = Body(f)
    <2>1. \E h : h = Body(h)
      BY <1>0, InIndexedDbIterates
    <2> HIDE DEF Body
    <2> QED
      BY <2>1
  <1>2. Committed(db, batch) = f[N]
    BY DEF Committed
  <1> HIDE DEF f
  <1>3. f[0] = db /\ \A n \in 1..N : f[n] = InIndexedDb(f[n - 1], batch[n])
    BY <1>0, <1>1
  <1>4. 0..N \subseteq {n \in 0..N : f[n] \in Contents}
    <2> DEFINE S == {n \in 0..N : f[n] \in Contents}
    <2>1. 0 \in S
      BY <1>0, <1>3
    <2>2. ASSUME NEW n \in 1..N, n - 1 \in S PROVE n \in S
      BY <1>0, <1>3, <2>2, InIndexedDbType
    <2> HIDE DEF S, N
    <2> QED
      BY <1>0, <2>1, <2>2, IntervalInduction DEF S
  <1>5. f \in [0..N -> Contents]
    BY <1>1, <1>4
  <1> QED
    BY <1>2, <1>3, <1>5
\* The same for the memory.
LEMMA InMemoryType ==
  ASSUME NEW db \in Contents, NEW op \in Operation
  PROVE  InMemory(db, op) \in Contents
  <1>1. op.col \in Column /\ op.key \in Keys /\ op.type \in {"put", "delete", "delete_prefix"}
    BY DEF Operation
  <1>2. db[op.col] \in Content
    BY <1>1 DEF Contents
  <1>3. ASSUME NEW content \in Content PROVE [db EXCEPT ![op.col] = content] \in Contents
    BY DEF Contents
  <1>4. CASE op.type = "put"
    <2>1. op.value \in Values
      BY <1>4 DEF Operation
    <2> QED
      BY <1>1, <1>2, <1>3, <1>4, <2>1, PutType DEF InMemory
  <1>5. CASE op.type = "delete"
    BY <1>2, <1>3, <1>5, WithoutType DEF InMemory
  <1>6. CASE op.type = "delete_prefix"
    <2> DEFINE prefixed == {k \in Keys : IsPrefix(op.key, k)}
    <2>1. Without(db[op.col], prefixed) \in Content
      BY <1>2, WithoutType
    <2>2. InMemory(db, op) = [db EXCEPT ![op.col] = Without(@, prefixed)]
      BY <1>6 DEF InMemory
    <2> HIDE DEF prefixed
    <2> QED
      BY <1>3, <2>1, <2>2
  <1> QED
    BY <1>1, <1>4, <1>5, <1>6

LEMMA InMemoryIterates ==
  ASSUME NEW db \in Contents, NEW N \in Nat, NEW batch \in [1..N -> Operation]
  PROVE  \E f \in [0..N -> Contents] :
           f = [n \in 0..N |-> IF n = 0 THEN db ELSE InMemory(f[n - 1], batch[n])]
  <1> DEFINE step == [n \in 1..N |-> [d \in Contents |-> InMemory(d, batch[n])]]
  <1>1. step \in [1..N -> [Contents -> Contents]]
    BY InMemoryType
  <1>2. \E f : f \in Iterations(Contents, db, N, step)
    <2> HIDE DEF step
    <2> QED
      BY <1>1, Iterates
  <1>3. PICK f \in [0..N -> Contents] :
          f[0] = db /\ \A n \in 1..N : f[n] = step[n][f[n - 1]]
    BY <1>2 DEF Iterations
  <1>4. ASSUME NEW n \in 1..N PROVE f[n] = InMemory(f[n - 1], batch[n])
    <2>1. f[n - 1] \in Contents
      OBVIOUS
    <2>2. step[n][f[n - 1]] = InMemory(f[n - 1], batch[n])
      BY <2>1
    <2> QED
      BY <1>3, <2>2
  <1>5. f = [n \in 0..N |-> f[n]] /\ f[0] = db
    BY <1>3
  <1>6. ASSUME NEW n \in 0..N
        PROVE  f[n] = IF n = 0 THEN db ELSE InMemory(f[n - 1], batch[n])
    BY <1>4, <1>5
  <1> HIDE DEF step
  <1> QED
    BY <1>5, <1>6

LEMMA WrittenSteps ==
  ASSUME NEW db \in Contents, NEW batch \in Seq(Operation)
  PROVE  \E f \in [0..Len(batch) -> Contents] :
           /\ f[0] = db
           /\ \A n \in 1..Len(batch) : f[n] = InMemory(f[n - 1], batch[n])
           /\ Written(db, batch) = f[Len(batch)]
  <1> DEFINE N == Len(batch)
  <1> DEFINE Body(h) == [n \in 0..N |-> IF n = 0 THEN db ELSE InMemory(h[n - 1], batch[n])]
  <1> DEFINE f == CHOOSE h : h = Body(h)
  <1>0. N \in Nat /\ batch \in [1..N -> Operation]
    OBVIOUS
  <1>1. f = Body(f)
    <2>1. \E h : h = Body(h)
      BY <1>0, InMemoryIterates
    <2> HIDE DEF Body
    <2> QED
      BY <2>1
  <1>2. Written(db, batch) = f[N]
    BY DEF Written
  <1> HIDE DEF f
  <1>3. f[0] = db /\ \A n \in 1..N : f[n] = InMemory(f[n - 1], batch[n])
    BY <1>0, <1>1
  <1>4. 0..N \subseteq {n \in 0..N : f[n] \in Contents}
    <2> DEFINE S == {n \in 0..N : f[n] \in Contents}
    <2>1. 0 \in S
      BY <1>0, <1>3
    <2>2. ASSUME NEW n \in 1..N, n - 1 \in S PROVE n \in S
      BY <1>0, <1>3, <2>2, InMemoryType
    <2> HIDE DEF S, N
    <2> QED
      BY <1>0, <2>1, <2>2, IntervalInduction DEF S
  <1>5. f \in [0..N -> Contents]
    BY <1>1, <1>4
  <1> QED
    BY <1>2, <1>3, <1>5

\* A batch makes contents of contents.
LEMMA CommittedType ==
  ASSUME NEW db \in Contents, NEW batch \in Seq(Operation)
  PROVE  Committed(db, batch) \in Contents
  <1>1. Len(batch) \in 0..Len(batch)
    OBVIOUS
  <1> QED
    BY <1>1, CommittedSteps

LEMMA WrittenType ==
  ASSUME NEW db \in Contents, NEW batch \in Seq(Operation)
  PROVE  Written(db, batch) \in Contents
  <1>1. Len(batch) \in 0..Len(batch)
    OBVIOUS
  <1> QED
    BY <1>1, WrittenSteps

\* A batch leaves alone a column none of its operations is on.
LEMMA CommittedElsewhere ==
  ASSUME NEW db \in Contents, NEW batch \in Seq(Operation), NEW c \in Column,
         \A n \in 1..Len(batch) : batch[n].col # c
  PROVE  Committed(db, batch)[c] = db[c]
  <1>1. PICK f \in [0..Len(batch) -> Contents] :
          /\ f[0] = db
          /\ \A n \in 1..Len(batch) : f[n] = InIndexedDb(f[n - 1], batch[n])
          /\ Committed(db, batch) = f[Len(batch)]
    BY CommittedSteps
  <1> DEFINE S == {n \in 0..Len(batch) : f[n][c] = db[c]}
  <1>2. 0 \in S
    BY <1>1
  <1>3. ASSUME NEW n \in 1..Len(batch), n - 1 \in S PROVE n \in S
    <2>1. f[n - 1] \in Contents /\ batch[n] \in Operation /\ batch[n].col # c
      OBVIOUS
    <2>2. InIndexedDb(f[n - 1], batch[n])[c] = f[n - 1][c]
      BY <2>1, InIndexedDbType
    <2> QED
      BY <1>1, <1>3, <2>2
  <1>4. Len(batch) \in Nat
    OBVIOUS
  <1> HIDE DEF S
  <1>5. 0..Len(batch) \subseteq S
    BY <1>2, <1>3, <1>4, IntervalInduction
  <1> QED
    BY <1>1, <1>4, <1>5 DEF S

\* The memory and IndexedDB do the same with a column that is the same in both,
\* unless keys are deleted by prefix (kvdb_memorydb; indexed_db.rs:137-176).
LEMMA SameInMemory ==
  ASSUME NEW memory \in Contents, NEW db \in Contents, NEW c \in Column, memory[c] = db[c],
         NEW op \in Operation, op.type # "delete_prefix"
  PROVE  InMemory(memory, op)[c] = InIndexedDb(db, op)[c]
  <1>1. op.col \in Column /\ op.type \in {"put", "delete"}
    BY DEF Operation
  <1>2. CASE op.type = "put"
    BY <1>1, <1>2 DEF InMemory, InIndexedDb, Contents
  <1>3. CASE op.type = "delete"
    BY <1>1, <1>3 DEF InMemory, InIndexedDb, Contents
  <1> QED
    BY <1>1, <1>2, <1>3

\* So they do with a whole batch.
LEMMA WrittenAsCommitted ==
  ASSUME NEW memory \in Contents, NEW db \in Contents, NEW c \in Column, memory[c] = db[c],
         NEW batch \in Seq(Operation), \A n \in 1..Len(batch) : batch[n].type # "delete_prefix"
  PROVE  Written(memory, batch)[c] = Committed(db, batch)[c]
  <1>1. PICK f \in [0..Len(batch) -> Contents] :
          /\ f[0] = db
          /\ \A n \in 1..Len(batch) : f[n] = InIndexedDb(f[n - 1], batch[n])
          /\ Committed(db, batch) = f[Len(batch)]
    BY CommittedSteps
  <1>2. PICK g \in [0..Len(batch) -> Contents] :
          /\ g[0] = memory
          /\ \A n \in 1..Len(batch) : g[n] = InMemory(g[n - 1], batch[n])
          /\ Written(memory, batch) = g[Len(batch)]
    BY WrittenSteps
  <1> DEFINE S == {n \in 0..Len(batch) : g[n][c] = f[n][c]}
  <1>3. 0 \in S
    BY <1>1, <1>2
  <1>4. ASSUME NEW n \in 1..Len(batch), n - 1 \in S PROVE n \in S
    <2>1. /\ f[n - 1] \in Contents /\ g[n - 1] \in Contents /\ g[n - 1][c] = f[n - 1][c]
          /\ batch[n] \in Operation /\ batch[n].type # "delete_prefix"
      BY <1>4
    <2>2. InMemory(g[n - 1], batch[n])[c] = InIndexedDb(f[n - 1], batch[n])[c]
      BY <2>1, SameInMemory
    <2> QED
      BY <1>1, <1>2, <2>2
  <1>5. Len(batch) \in Nat
    OBVIOUS
  <1> HIDE DEF S
  <1>6. 0..Len(batch) \subseteq S
    BY <1>3, <1>4, <1>5, IntervalInduction
  <1> QED
    BY <1>1, <1>2, <1>5, <1>6 DEF S
\* The transactions, one after the other, have results too.
LEMMA CommittedIterates ==
  ASSUME NEW db \in Contents, NEW N \in Nat, NEW transactions \in [1..N -> Transaction]
  PROVE  \E f \in [0..N -> Contents] :
           f = [n \in 0..N |-> IF n = 0 THEN db ELSE Committed(f[n - 1], transactions[n])]
  <1> DEFINE step == [n \in 1..N |-> [d \in Contents |-> Committed(d, transactions[n])]]
  <1>1. step \in [1..N -> [Contents -> Contents]]
    BY CommittedType DEF Transaction
  <1>2. \E f : f \in Iterations(Contents, db, N, step)
    <2> HIDE DEF step
    <2> QED
      BY <1>1, Iterates
  <1>3. PICK f \in [0..N -> Contents] :
          f[0] = db /\ \A n \in 1..N : f[n] = step[n][f[n - 1]]
    BY <1>2 DEF Iterations
  <1>4. ASSUME NEW n \in 1..N PROVE f[n] = Committed(f[n - 1], transactions[n])
    <2>1. f[n - 1] \in Contents
      OBVIOUS
    <2>2. step[n][f[n - 1]] = Committed(f[n - 1], transactions[n])
      BY <2>1
    <2> QED
      BY <1>3, <2>2
  <1>5. f = [n \in 0..N |-> f[n]] /\ f[0] = db
    BY <1>3
  <1>6. ASSUME NEW n \in 0..N
        PROVE  f[n] = IF n = 0 THEN db ELSE Committed(f[n - 1], transactions[n])
    <2>1. CASE n = 0
      BY <1>5, <2>1
    <2>2. CASE n # 0
      <3>1. n \in 1..N
        BY <2>2
      <3> QED
        BY <1>4, <2>2, <3>1
    <2> QED
      BY <2>1, <2>2
  <1> HIDE DEF step
  <1> QED
    BY <1>5, <1>6

\* CommittedOneByOne is what it says.
LEMMA OneByOneSteps ==
  ASSUME NEW db \in Contents, NEW transactions \in Seq(Transaction)
  PROVE  /\ CommittedOneByOne(db, transactions) \in [0..Len(transactions) -> Contents]
         /\ CommittedOneByOne(db, transactions)[0] = db
         /\ \A n \in 1..Len(transactions) :
              CommittedOneByOne(db, transactions)[n] =
                Committed(CommittedOneByOne(db, transactions)[n - 1], transactions[n])
  <1> DEFINE N == Len(transactions)
  <1> DEFINE Body(h) == [n \in 0..N |-> IF n = 0 THEN db ELSE Committed(h[n - 1], transactions[n])]
  <1> DEFINE f == CHOOSE h : h = Body(h)
  <1>0. N \in Nat /\ transactions \in [1..N -> Transaction]
    OBVIOUS
  <1>1. f = Body(f)
    <2>1. \E h : h = Body(h)
      BY <1>0, CommittedIterates
    <2> HIDE DEF Body
    <2> QED
      BY <2>1
  <1>2. CommittedOneByOne(db, transactions) = f
    BY DEF CommittedOneByOne
  <1> HIDE DEF f
  <1>3. f[0] = db /\ \A n \in 1..N : f[n] = Committed(f[n - 1], transactions[n])
    BY <1>0, <1>1
  <1>4. 0..N \subseteq {n \in 0..N : f[n] \in Contents}
    <2> DEFINE S == {n \in 0..N : f[n] \in Contents}
    <2>1. 0 \in S
      BY <1>0, <1>3
    <2>2. ASSUME NEW n \in 1..N, n - 1 \in S PROVE n \in S
      BY <1>0, <1>3, <2>2, CommittedType DEF Transaction
    <2> HIDE DEF S, N
    <2> QED
      BY <1>0, <2>1, <2>2, IntervalInduction DEF S
  <1>5. f \in [0..N -> Contents]
    BY <1>1, <1>4
  <1> QED
    BY <1>2, <1>3, <1>5

\* A transaction that is requested adds a result and changes none before it.
LEMMA AppendOneByOne ==
  ASSUME NEW db \in Contents, NEW transactions \in Seq(Transaction),
         NEW batch \in Transaction
  PROVE  LET f == CommittedOneByOne(db, transactions)
             g == CommittedOneByOne(db, transactions \o <<batch>>)
             N == Len(transactions)
         IN  /\ \A k \in 0..N : g[k] = f[k]
             /\ g[N + 1] = Committed(f[N], batch)
  <1> DEFINE f == CommittedOneByOne(db, transactions)
             more == transactions \o <<batch>>
             g == CommittedOneByOne(db, more)
             N == Len(transactions)
             S == {k \in 0..N : g[k] = f[k]}
  <1>1. /\ more \in Seq(Transaction) /\ Len(more) = N + 1 /\ N \in Nat
        /\ \A n \in 1..N : more[n] = transactions[n]
        /\ more[N + 1] = batch
    OBVIOUS
  <1>2. f[0] = db /\ \A n \in 1..N : f[n] = Committed(f[n - 1], transactions[n])
    BY OneByOneSteps
  <1> HIDE DEF more, f
  <1>3. g[0] = db /\ \A n \in 1..(N + 1) : g[n] = Committed(g[n - 1], more[n])
    BY <1>1, OneByOneSteps
  <1> HIDE DEF g
  <1>4. 0 \in S
    BY <1>1, <1>2, <1>3
  <1>5. ASSUME NEW n \in 1..N, n - 1 \in S PROVE n \in S
    <2>1. n \in 1..(N + 1) /\ g[n - 1] = f[n - 1]
      BY <1>1, <1>5
    <2> QED
      BY <1>1, <1>2, <1>3, <2>1
  <1>6. 0..N \subseteq S
    <2> HIDE DEF S, N
    <2> QED
      BY <1>1, <1>4, <1>5, IntervalInduction
  <1>7. g[N + 1] = Committed(f[N], batch)
    <2>1. g[N] = f[N] /\ N + 1 \in 1..(N + 1) /\ (N + 1) - 1 = N
      BY <1>1, <1>6
    <2> QED
      BY <1>1, <1>3, <2>1
  <1> QED
    BY <1>6, <1>7 DEF f, g, more

\* A transaction that commits leaves the results of those after it as they were.
LEMMA TailOneByOne ==
  ASSUME NEW db \in Contents, NEW transactions \in Seq(Transaction), transactions # <<>>
  PROVE  \A k \in 0..Len(Tail(transactions)) :
           CommittedOneByOne(Committed(db, Head(transactions)), Tail(transactions))[k] =
             CommittedOneByOne(db, transactions)[k + 1]
  <1> DEFINE f == CommittedOneByOne(db, transactions)
             rest == Tail(transactions)
             next == Committed(db, Head(transactions))
             g == CommittedOneByOne(next, rest)
             N == Len(rest)
             S == {k \in 0..N : g[k] = f[k + 1]}
  <1>1. /\ rest \in Seq(Transaction) /\ N \in Nat /\ Len(transactions) = N + 1
        /\ \A n \in 1..N : rest[n] = transactions[n + 1]
        /\ Head(transactions) = transactions[1] /\ Head(transactions) \in Transaction
    OBVIOUS
  <1>2. next \in Contents
    BY <1>1, CommittedType DEF Transaction
  <1>3. f[0] = db /\ \A n \in 1..(N + 1) : f[n] = Committed(f[n - 1], transactions[n])
    BY <1>1, OneByOneSteps
  <1>4. f[1] = next
    <2>1. 1 \in 1..(N + 1) /\ 1 - 1 = 0
      BY <1>1
    <2> QED
      BY <1>1, <1>3, <2>1
  <1> HIDE DEF f, rest, next
  <1>5. g[0] = next /\ \A n \in 1..N : g[n] = Committed(g[n - 1], rest[n])
    BY <1>1, <1>2, OneByOneSteps
  <1> HIDE DEF g
  <1>6. 0 \in S
    BY <1>1, <1>4, <1>5
  <1>7. ASSUME NEW n \in 1..N, n - 1 \in S PROVE n \in S
    <2>1. n + 1 \in 1..(N + 1) /\ (n + 1) - 1 = n /\ (n - 1) + 1 = n /\ g[n - 1] = f[n]
      BY <1>1, <1>7
    <2>2. f[n + 1] = Committed(f[n], transactions[n + 1])
      BY <1>3, <2>1
    <2>3. g[n] = Committed(f[n], transactions[n + 1])
      BY <1>1, <1>5, <2>1
    <2> QED
      BY <1>1, <2>2, <2>3
  <1>8. 0..N \subseteq S
    <2> HIDE DEF S, N
    <2> QED
      BY <1>1, <1>6, <1>7, IntervalInduction
  <1> QED
    BY <1>8 DEF f, g, rest, next

\* Transactions leave alone a column none of their operations is on.
LEMMA OneByOneElsewhere ==
  ASSUME NEW db \in Contents, NEW transactions \in Seq(Transaction), NEW c \in Column,
         \A k \in 1..Len(transactions) : \A n \in 1..Len(transactions[k]) :
           transactions[k][n].col # c
  PROVE  AllCommitted(db, transactions)[c] = db[c]
  <1> DEFINE f == CommittedOneByOne(db, transactions)
             N == Len(transactions)
             S == {k \in 0..N : f[k][c] = db[c]}
  <1>1. N \in Nat
    OBVIOUS
  <1>2. /\ f \in [0..N -> Contents] /\ f[0] = db
        /\ \A n \in 1..N : f[n] = Committed(f[n - 1], transactions[n])
    BY OneByOneSteps
  <1> HIDE DEF f
  <1>3. 0 \in S
    BY <1>1, <1>2
  <1>4. ASSUME NEW n \in 1..N, n - 1 \in S PROVE n \in S
    <2>1. f[n - 1] \in Contents /\ transactions[n] \in Transaction
      BY <1>1, <1>2
    <2>2. Committed(f[n - 1], transactions[n])[c] = f[n - 1][c]
      BY <2>1, CommittedElsewhere DEF Transaction
    <2> QED
      BY <1>1, <1>2, <1>4, <2>2
  <1>5. 0..N \subseteq S
    <2> HIDE DEF S, N
    <2> QED
      BY <1>1, <1>3, <1>4, IntervalInduction
  <1> QED
    BY <1>1, <1>5 DEF f, AllCommitted

-----------------------------------------------------------------------------
(***************************************************************************)
(* The object stores.                                                      *)
(***************************************************************************)
\* The stores that an upgrade leaves: enough, and none is lost
\* (try_create_missing_stores, indexed_db.rs:92-118).
LEMMA CreatedEnough ==
  ASSUME NEW previous \in Nat, NEW cols \in Nat
  PROVE  /\ Created(previous, cols) \in Nat
         /\ Created(previous, cols) >= cols + 1
         /\ Created(previous, cols) >= previous
  BY DEF Created

LEMMA InitStoresInv == Init => StoresInv
  BY DEF Init, StoresInv, StoresExist

\* open: a database that is found large enough is read; any other is made or
\* waits for its upgrade.
LEMMA OpenStoresInv ==
  ASSUME StoresInv, NEW cols \in 1..MaxColumns, Open(cols)
  PROVE  StoresInv' /\ stores' >= stores
  <1>1. cols \in Nat /\ columns' = cols
    BY BoundsAssumption DEF Open
  <1>2. CASE version = 0
    <2>1. stores' = Created(0, cols) /\ version' = 1 /\ stores = 0
      BY <1>2 DEF Open, StoresInv
    <2>2. stores' \in Nat /\ stores' >= cols + 1
      BY <1>1, <2>1, CreatedEnough
    <2> QED
      BY <1>1, <2>1, <2>2 DEF StoresInv, StoresExist
  <1>3. CASE version # 0
    <2>1. stores' = stores /\ version' = version
      BY <1>3 DEF Open
    <2>2. phase' \in {"reading", "open"} => cols + 1 <= stores'
      BY <1>1, <2>1 DEF Open, StoresInv
    <2> QED
      BY <1>1, <1>3, <2>1, <2>2 DEF StoresInv, StoresExist
  <1> QED
    BY <1>2, <1>3

\* The upgrade creates the stores that were missing.
LEMMA BumpStoresInv ==
  ASSUME StoresInv, Bump
  PROVE  StoresInv' /\ stores' >= stores
  <1>1. stores' = Created(stores, columns) /\ version' = version + 1 /\ columns' = columns
    BY DEF Bump
  <1>2. stores' \in Nat /\ stores' >= columns + 1 /\ stores' >= stores
    BY <1>1, CreatedEnough DEF StoresInv
  <1> QED
    BY <1>1, <1>2 DEF StoresInv, StoresExist

\* Every other step leaves the stores alone, and opens nothing that was not
\* being read.
LEMMA OtherStoresInv ==
  ASSUME StoresInv, UNCHANGED <<stores, version>>,
         columns' \in Nat,
         phase' \in {"reading", "open"} =>
           columns' = columns /\ phase \in {"reading", "open"}
  PROVE  StoresInv' /\ stores' >= stores
  <1>1. stores' = stores /\ version' = version
    OBVIOUS
  <1>2. StoresExist'
    <2> SUFFICES ASSUME phase' \in {"reading", "open"} PROVE columns' + 1 <= stores'
      BY DEF StoresExist
    <2>1. columns' = columns /\ phase \in {"reading", "open"}
      OBVIOUS
    <2> QED
      BY <1>1, <2>1 DEF StoresInv, StoresExist
  <1>3. stores' >= stores
    BY <1>1 DEF StoresInv
  <1> QED
    BY <1>1, <1>2, <1>3 DEF StoresInv

LEMMA NextStoresInv == StoresInv /\ [Next]_vars => StoresInv' /\ stores' >= stores
  <1> SUFFICES ASSUME StoresInv, [Next]_vars PROVE StoresInv' /\ stores' >= stores
    OBVIOUS
  <1>0. columns \in Nat
    BY DEF StoresInv
  <1>1. ASSUME NEW cols \in 1..MaxColumns, Open(cols) PROVE StoresInv' /\ stores' >= stores
    BY <1>1, OpenStoresInv
  <1>2. CASE Bump
    BY <1>2, BumpStoresInv
  <1>3. CASE Collect
    BY <1>0, <1>3, OtherStoresInv DEF Collect, browser
  <1>4. CASE ReadColumn
    BY <1>0, <1>4, OtherStoresInv DEF ReadColumn, browser
  <1>5. ASSUME NEW batch \in Batches, Write(batch) PROVE StoresInv' /\ stores' >= stores
    BY <1>0, <1>5, OtherStoresInv DEF Write
  <1>6. CASE Commit
    BY <1>0, <1>6, OtherStoresInv DEF Commit, database
  <1>7. CASE Fail
    BY <1>0, <1>7, OtherStoresInv DEF Fail, database
  <1>8. CASE Close
    BY <1>8, OtherStoresInv DEF Close, Shut, browser
  <1>9. CASE Crash
    BY <1>9, OtherStoresInv DEF Crash, Shut
  <1>10. CASE UNCHANGED vars
    BY <1>0, <1>10, OtherStoresInv DEF vars, browser, database
  <1> QED
    BY <1>1, <1>2, <1>3, <1>4, <1>5, <1>6, <1>7, <1>8, <1>9, <1>10 DEF Next

-----------------------------------------------------------------------------
(***************************************************************************)
(* The types, and the agreement of the memory and IndexedDB.               *)
(***************************************************************************)
LEMMA NothingType == Nothing \in Contents
  <1>1. Empty \in [{} -> Values]
    BY DEF Empty
  <1> QED
    BY <1>1 DEF Nothing, Contents, Content

LEMMA CreatedBound ==
  ASSUME NEW previous \in 0..(MaxColumns + 1), NEW cols \in 0..MaxColumns
  PROVE  Created(previous, cols) \in 0..(MaxColumns + 1)
  BY BoundsAssumption DEF Created

LEMMA InitTypeInv == Init => TypeInv
  <1> SUFFICES ASSUME Init PROVE TypeInv
    OBVIOUS
  <1>1. MaxColumns \in Nat
    BY BoundsAssumption
  <1>2. pending \in Seq(Transaction)
    BY DEF Init
  <1>3. idb \in Contents /\ in_memory \in Contents
    BY NothingType DEF Init
  <1>4. /\ stores = 0 /\ version = 0 /\ columns = 0 /\ column = 0
        /\ phase = "closed" /\ old = "none" /\ failed = FALSE
    BY DEF Init
  <1>5. 0 \in 0..(MaxColumns + 1) /\ 0 \in 0..MaxColumns /\ 0 \in 0..0
    BY <1>1
  <1> QED
    BY <1>2, <1>3, <1>4, <1>5, Zenon DEF TypeInv

\* Every step keeps the types.  A read needs a column there is: the reading ends
\* with the last one.
LEMMA NextTypeInv == TypeInv /\ [Next]_vars => TypeInv'
  <1> SUFFICES ASSUME TypeInv, [Next]_vars PROVE TypeInv'
    OBVIOUS
  <1>0. MaxColumns \in Nat
    BY BoundsAssumption
  <1>1. ASSUME NEW cols \in 1..MaxColumns, Open(cols) PROVE TypeInv'
    <2>1. stores' \in 0..(MaxColumns + 1) /\ version' \in Nat
      BY <1>0, <1>1, CreatedBound DEF Open, TypeInv
    <2>2. phase' \in {"bumping", "reading"} /\ columns' = cols /\ column' = 0
          /\ old' \in {"none", "held", "dropped"} /\ in_memory' = Nothing
      BY <1>1 DEF Open, Discarded
    <2>3. UNCHANGED <<idb, pending, failed>>
      BY <1>1 DEF Open
    <2> QED
      BY <1>0, <2>1, <2>2, <2>3, NothingType DEF TypeInv
  <1>2. CASE Bump
    BY <1>0, <1>2, CreatedBound DEF Bump, TypeInv
  <1>3. CASE Collect
    BY <1>3 DEF Collect, TypeInv, browser
  <1>4. CASE ReadColumn
    <2>1. column \in Column /\ idb[column] \in Content
      BY <1>0, <1>4 DEF ReadColumn, TypeInv, Column, Contents
    <2>2. in_memory' \in Contents
      BY <1>4, <2>1 DEF ReadColumn, TypeInv, Contents
    <2> QED
      BY <1>0, <1>4, <2>2 DEF ReadColumn, TypeInv, browser
  <1>5. ASSUME NEW batch \in Batches, Write(batch) PROVE TypeInv'
    <2>1. batch \in Transaction
      BY BatchesAssumption DEF Transaction
    <2>2. in_memory' \in Contents
      BY <1>5, <2>1, WrittenType DEF Write, TypeInv, Transaction
    <2>3. pending' \in Seq(Transaction)
      BY <1>5, <2>1 DEF Write, TypeInv, Transactions
    <2> QED
      BY <1>5, <2>2, <2>3 DEF Write, TypeInv
  <1>6. CASE Commit
    <2>1. Head(pending) \in Transaction /\ pending' \in Seq(Transaction)
      BY <1>6 DEF Commit, TypeInv
    <2>2. idb' \in Contents
      BY <1>6, <2>1, CommittedType DEF Commit, TypeInv, Transaction
    <2> QED
      BY <1>6, <2>1, <2>2 DEF Commit, TypeInv, database
  <1>7. CASE Fail
    BY <1>7 DEF Fail, TypeInv, database
  <1>8. CASE Close
    BY <1>0, <1>8, NothingType DEF Close, Shut, TypeInv, browser
  <1>9. CASE Crash
    BY <1>0, <1>9, NothingType DEF Crash, Shut, TypeInv
  <1>10. CASE UNCHANGED vars
    BY <1>10 DEF vars, browser, database, TypeInv
  <1> QED
    BY <1>1, <1>2, <1>3, <1>4, <1>5, <1>6, <1>7, <1>8, <1>9, <1>10 DEF Next

LEMMA InitAgreeInv == Init => AgreeInv
  <1> SUFFICES ASSUME Init PROVE AgreeInv
    OBVIOUS
  <1>1. pending = <<>> /\ Len(pending) = 0 /\ pending \in Seq(Transaction) /\ idb \in Contents
    BY NothingType DEF Init
  <1>2. CommittedOneByOne(idb, pending)[0] \in written
    <2>1. CommittedOneByOne(idb, pending)[0] = idb
      BY <1>1, OneByOneSteps, Zenon
    <2> QED
      BY <2>1 DEF Init
  <1> QED
    BY <1>1, <1>2 DEF Init, AgreeInv, ColumnsRead, PendingInColumns, WriteThrough, PrefixesWritten

\* write: what IndexedDB will hold once it has committed the new transaction is the
\* content the memory gets, with the stores that are not open as they are.
LEMMA WriteAgreeInv ==
  ASSUME TypeInv, AgreeInv, NoPrefixDeleted, NEW batch \in Batches, Write(batch)
  PROVE  AgreeInv'
  <1> DEFINE N == Len(pending)
             before == CommittedOneByOne(idb, pending)
             after == CommittedOneByOne(idb, pending \o <<batch>>)
  <1>1. /\ batch \in Transaction /\ batch \in Seq(Operation)
        /\ \A n \in 1..Len(batch) : batch[n].type # "delete_prefix"
    BY BatchesAssumption DEF Transaction, NoPrefixDeleted
  <1>2. /\ phase = "open" /\ phase' = "open" /\ UNCHANGED <<idb, columns, failed>>
        /\ pending' = pending \o <<batch>>
        /\ in_memory' = Written(in_memory, batch)
        /\ \A n \in 1..Len(batch) : batch[n].col < columns
    BY <1>1 DEF Write, Transactions
  <1>3. idb \in Contents /\ in_memory \in Contents /\ pending \in Seq(Transaction)
        /\ columns \in 0..MaxColumns /\ N \in Nat /\ MaxColumns \in Nat
    BY BoundsAssumption DEF TypeInv
  <1>4. pending' \in Seq(Transaction) /\ Len(pending') = N + 1
    BY <1>1, <1>2, <1>3
  <1>5. before \in [0..N -> Contents] /\ after \in [0..(N + 1) -> Contents]
    BY <1>2, <1>3, <1>4, OneByOneSteps, Zenon
  <1>6. (\A k \in 0..N : after[k] = before[k]) /\ after[N + 1] = Committed(before[N], batch)
    BY <1>1, <1>3, AppendOneByOne
  <1> HIDE DEF before, after
  <1>7. PendingInColumns'
    <2>1. \A k \in 1..N : pending'[k] = pending[k]
      BY <1>2, <1>3
    <2>2. pending'[N + 1] = batch
      BY <1>2, <1>3
    <2> QED
      BY <1>2, <1>3, <1>4, <2>1, <2>2 DEF AgreeInv, PendingInColumns
  <1>8. ASSUME ~failed, NEW c \in 0..(columns - 1) PROVE in_memory'[c] = after[N + 1][c]
    <2>1. c \in Column /\ before[N] \in Contents
      BY <1>3, <1>5 DEF Column
    <2>2. in_memory[c] = before[N][c]
      BY <1>2, <1>8 DEF AgreeInv, WriteThrough, AllCommitted, before
    <2>3. Written(in_memory, batch)[c] = Committed(before[N], batch)[c]
      BY <1>1, <1>3, <2>1, <2>2, WrittenAsCommitted
    <2> QED
      BY <1>2, <1>6, <2>3
  <1>9. WriteThrough'
    BY <1>2, <1>4, <1>8 DEF WriteThrough, AllCommitted, after
  <1>10. ASSUME NEW c \in Column, ~(c < columns) PROVE after[N + 1][c] = idb[c]
    <2>1. \A k \in 1..Len(pending') : \A n \in 1..Len(pending'[k]) : pending'[k][n].col # c
      BY <1>2, <1>3, <1>7, <1>10 DEF PendingInColumns, Column
    <2>2. AllCommitted(idb, pending')[c] = idb[c]
      BY <1>3, <1>4, <2>1, OneByOneElsewhere
    <2> QED
      BY <1>2, <1>4, <2>2 DEF AllCommitted, after
  <1>11. PrefixesWritten'
    <2> SUFFICES ASSUME ~failed, NEW k \in 0..(N + 1) PROVE after[k] \in written'
      BY <1>2, <1>4 DEF PrefixesWritten, after
    <2> DEFINE content == [c \in Column |-> IF c < columns THEN in_memory'[c] ELSE idb[c]]
    <2>1. written' = written \cup {content}
      BY DEF Write
    <2>2. CASE k = N + 1
      <3>1. ASSUME NEW c \in Column PROVE after[N + 1][c] = content[c]
        <4>1. CASE c < columns
          BY <1>3, <1>8, <4>1 DEF Column
        <4>2. CASE ~(c < columns)
          BY <1>10, <4>2
        <4> QED
          BY <4>1, <4>2
      <3>2. after[N + 1] \in [Column -> Content]
        BY <1>3, <1>5 DEF Contents
      <3>3. after[N + 1] = content
        BY <3>1, <3>2
      <3> QED
        BY <2>1, <2>2, <3>3
    <2>3. CASE k # N + 1
      BY <1>3, <1>6, <2>1, <2>3 DEF AgreeInv, PrefixesWritten, before
    <2> QED
      BY <2>2, <2>3
  <1>12. ColumnsRead'
    BY <1>2 DEF ColumnsRead
  <1> QED
    BY <1>7, <1>9, <1>11, <1>12 DEF AgreeInv

\* A commit moves the contents that IndexedDB holds and has promised by one.
LEMMA CommitAgreeInv ==
  ASSUME TypeInv, AgreeInv, Commit
  PROVE  AgreeInv'
  <1> DEFINE N == Len(Tail(pending))
             before == CommittedOneByOne(idb, pending)
             after == CommittedOneByOne(idb', Tail(pending))
  <1>1. pending # <<>> /\ pending \in Seq(Transaction) /\ idb \in Contents
    BY DEF Commit, TypeInv
  <1>2. /\ idb' = Committed(idb, Head(pending)) /\ pending' = Tail(pending)
        /\ UNCHANGED <<phase, columns, column, in_memory, written, failed>>
    BY DEF Commit, database
  <1>3. N \in Nat /\ Len(pending) = N + 1
    BY <1>1
  <1>4. \A k \in 0..N : after[k] = before[k + 1]
    BY <1>1, <1>2, TailOneByOne
  <1> HIDE DEF after, before
  <1>5. ColumnsRead'
    BY <1>1, <1>2 DEF AgreeInv, ColumnsRead
  <1>6. PendingInColumns'
    <2>1. \A k \in 1..N : pending'[k] = pending[k + 1]
      BY <1>1, <1>2
    <2> QED
      BY <1>2, <1>3, <2>1 DEF AgreeInv, PendingInColumns
  <1>7. WriteThrough'
    <2>1. AllCommitted(idb', pending') = AllCommitted(idb, pending)
      BY <1>2, <1>3, <1>4 DEF AllCommitted, after, before
    <2> QED
      BY <1>2, <2>1 DEF AgreeInv, WriteThrough
  <1>8. PrefixesWritten'
    BY <1>2, <1>3, <1>4 DEF AgreeInv, PrefixesWritten, after, before
  <1> QED
    BY <1>5, <1>6, <1>7, <1>8 DEF AgreeInv

\* open reads what IndexedDB holds when nothing is pending, so no column is read
\* before a transaction and the next one after it.
LEMMA ReadColumnAgreeInv ==
  ASSUME TypeInv, AgreeInv, ReadColumn
  PROVE  AgreeInv'
  <1>1. /\ pending = <<>> /\ phase = "reading" /\ phase' = IF column' = columns THEN "open" ELSE "reading"
        /\ in_memory' = [in_memory EXCEPT ![column] = idb[column]] /\ column' = column + 1
        /\ UNCHANGED <<idb, pending, columns, written, failed>>
    BY DEF ReadColumn, browser
  <1>2. column \in Nat /\ columns \in 0..MaxColumns /\ column < columns /\ MaxColumns \in Nat
        /\ in_memory \in Contents /\ idb \in Contents
    BY <1>1, BoundsAssumption DEF TypeInv
  <1>3. \A c \in 0..column : in_memory'[c] = idb[c]
    <2> SUFFICES ASSUME NEW c \in 0..column PROVE in_memory'[c] = idb[c]
      OBVIOUS
    <2>1. c \in Column
      BY <1>2 DEF Column
    <2>2. CASE c = column
      BY <1>1, <1>2, <2>1, <2>2 DEF Contents
    <2>3. CASE c # column
      <3>1. in_memory[c] = idb[c]
        BY <1>1, <1>2, <2>3 DEF AgreeInv, ColumnsRead
      <3> QED
        BY <1>1, <1>2, <2>1, <2>3, <3>1 DEF Contents
    <2> QED
      BY <2>2, <2>3
  <1>4. ColumnsRead'
    BY <1>1, <1>2, <1>3 DEF ColumnsRead
  <1>5. PendingInColumns'
    BY <1>1 DEF PendingInColumns
  <1>6. WriteThrough'
    <2>1. AllCommitted(idb, <<>>) = idb
      <3>1. <<>> \in Seq(Transaction) /\ Len(<<>>) = 0
        OBVIOUS
      <3>2. CommittedOneByOne(idb, <<>>)[0] = idb
        BY <1>2, <3>1, OneByOneSteps, Zenon
      <3> QED
        BY <3>1, <3>2 DEF AllCommitted
    <2>2. phase' = "open" => column + 1 = columns
      BY <1>1
    <2> QED
      BY <1>1, <1>2, <1>3, <2>1, <2>2 DEF WriteThrough
  <1>7. PrefixesWritten'
    BY <1>1 DEF AgreeInv, PrefixesWritten
  <1> QED
    BY <1>4, <1>5, <1>6, <1>7 DEF AgreeInv

\* With no open database only IndexedDB matters; a crash leaves a beginning of the
\* transactions.
LEMMA ClosedAgreeInv ==
  ASSUME TypeInv, AgreeInv, UNCHANGED <<idb, written, failed>>, phase' # "open",
         phase' = "bumping" \/ phase' = "reading" => column' = 0,
         UNCHANGED pending \/ pending' = <<>>
  PROVE  AgreeInv'
  <1>1. PrefixesWritten'
    <2>1. CASE UNCHANGED pending
      BY <2>1 DEF AgreeInv, PrefixesWritten
    <2>2. CASE pending' = <<>>
      <3>1. pending \in Seq(Transaction) /\ <<>> \in Seq(Transaction) /\ idb \in Contents /\ Len(<<>>) = 0
        BY DEF TypeInv
      <3>2. /\ CommittedOneByOne(idb, <<>>)[0] = idb
            /\ CommittedOneByOne(idb, pending)[0] = idb
        BY <3>1, OneByOneSteps, Zenon
      <3>3. 0 \in 0..Len(pending)
        BY <3>1
      <3> QED
        BY <2>2, <3>1, <3>2, <3>3 DEF AgreeInv, PrefixesWritten
    <2> QED
      BY <2>1, <2>2
  <1> QED
    BY <1>1 DEF AgreeInv, ColumnsRead, PendingInColumns, WriteThrough

\* Every step keeps the agreement, when nothing is deleted by prefix; after a
\* failure it is void.
LEMMA NextAgreeInv ==
  ASSUME NoPrefixDeleted, TypeInv, AgreeInv, [Next]_vars
  PROVE  AgreeInv'
  <1>1. ASSUME NEW cols \in 1..MaxColumns, Open(cols) PROVE AgreeInv'
    BY <1>1, ClosedAgreeInv DEF Open
  <1>2. CASE Bump
    BY <1>2, ClosedAgreeInv DEF Bump, AgreeInv, ColumnsRead
  <1>3. CASE Collect
    BY <1>3 DEF Collect, browser, AgreeInv, ColumnsRead, PendingInColumns, WriteThrough,
                PrefixesWritten
  <1>4. CASE ReadColumn
    BY <1>4, ReadColumnAgreeInv
  <1>5. ASSUME NEW batch \in Batches, Write(batch) PROVE AgreeInv'
    BY <1>5, WriteAgreeInv
  <1>6. CASE Commit
    BY <1>6, CommitAgreeInv
  <1>7. CASE Fail
    <2>1. pending' # pending /\ failed' = TRUE
      BY <1>7 DEF Fail, TypeInv
    <2>2. PendingInColumns'
      <3>1. /\ Len(pending') = Len(pending) - 1 /\ Len(pending) \in Nat
            /\ \A k \in 1..Len(pending') : pending'[k] = pending[k + 1]
        BY <1>7 DEF Fail, TypeInv
      <3>2. columns' = columns /\ phase' = phase
        BY <1>7 DEF Fail, database
      <3> QED
        BY <3>1, <3>2 DEF AgreeInv, PendingInColumns
    <2>3. ColumnsRead'
      BY <1>7 DEF Fail, database, AgreeInv, ColumnsRead
    <2> QED
      BY <2>1, <2>2, <2>3 DEF AgreeInv, WriteThrough, PrefixesWritten
  <1>8. CASE Close
    BY <1>8, ClosedAgreeInv DEF Close, Shut, browser
  <1>9. CASE Crash
    BY <1>9, ClosedAgreeInv DEF Crash, Shut
  <1>10. CASE UNCHANGED vars
    BY <1>10 DEF vars, browser, database, AgreeInv, ColumnsRead, PendingInColumns,
                 WriteThrough, PrefixesWritten
  <1> QED
    BY <1>1, <1>2, <1>3, <1>4, <1>5, <1>6, <1>7, <1>8, <1>9, <1>10 DEF Next

\* The database that is open agrees with a content that was written.
LEMMA AgreeImpliesNeverMixes ==
  ASSUME TypeInv, AgreeInv PROVE OpenNeverMixes
  <1> SUFFICES ASSUME phase = "open", ~failed
               PROVE  \E db \in written : \A c \in 0..(columns - 1) : in_memory[c] = db[c]
    BY DEF OpenNeverMixes
  <1>1. Len(pending) \in 0..Len(pending)
    BY DEF TypeInv
  <1>2. AllCommitted(idb, pending) \in written
    BY <1>1 DEF AgreeInv, PrefixesWritten, AllCommitted
  <1> QED
    BY <1>2 DEF AgreeInv, WriteThrough

-----------------------------------------------------------------------------
(***************************************************************************)
(* The theorems.                                                           *)
(***************************************************************************)
\* No read and no write meets a missing store, for every number of columns the
\* database is opened with, one after the other (indexed_db.rs:133, 202).
THEOREM StoresAlwaysExist == Spec => []StoresExist
  <1>1. StoresInv => StoresExist
    BY DEF StoresInv
  <1>2. StoresInv /\ [Next]_vars => StoresInv'
    BY NextStoresInv
  <1> QED
    BY <1>1, <1>2, InitStoresInv, PTL DEF Spec

\* No step loses a store with what is in it, also an opening with fewer columns
\* (lib.rs:57-65, indexed_db.rs:92-118).
THEOREM StoresAreKept == Spec => [][stores' >= stores]_vars
  <1>1. StoresInv /\ [Next]_vars => StoresInv'
    BY NextStoresInv
  <1>2. StoresInv /\ [Next]_vars => [stores' >= stores]_vars
    BY NextStoresInv
  <1> QED
    BY <1>1, <1>2, InitStoresInv, PTL DEF Spec

\* The state has its types, whatever is written and however often the database is
\* opened (lib.rs:45-78).
THEOREM TypeCorrect == Spec => []TypeOK
  <1>1. TypeInv /\ StoresInv => TypeOK
    BY DEF TypeInv, StoresInv, TypeOK, Contents
  <1>2. TypeInv /\ StoresInv /\ [Next]_vars => (TypeInv /\ StoresInv)'
    BY NextTypeInv, NextStoresInv
  <1> QED
    BY <1>1, <1>2, InitTypeInv, InitStoresInv, PTL DEF Spec

\* What the memory holds is what IndexedDB holds or is about to hold, for batches of
\* any length and any number of transactions under way ("Writes data both into
\* memory and IndexedDB", lib.rs:11).
THEOREM WritesThrough ==
  ASSUME NoPrefixDeleted PROVE Spec => []WriteThrough
  <1>1. TypeInv /\ AgreeInv => WriteThrough
    BY DEF AgreeInv
  <1>2. TypeInv /\ AgreeInv /\ [Next]_vars => (TypeInv /\ AgreeInv)'
    BY NextTypeInv, NextAgreeInv
  <1> QED
    BY <1>1, <1>2, InitTypeInv, InitAgreeInv, PTL DEF Spec

\* What an opening reads, column by column, with crashes and other openings before
\* it, is a content between two writes (lib.rs:47-78, 106-109).
THEOREM OpeningNeverMixes ==
  ASSUME NoPrefixDeleted PROVE Spec => []OpenNeverMixes
  <1>1. TypeInv /\ AgreeInv => OpenNeverMixes
    BY AgreeImpliesNeverMixes
  <1>2. TypeInv /\ AgreeInv /\ [Next]_vars => (TypeInv /\ AgreeInv)'
    BY NextTypeInv, NextAgreeInv
  <1> QED
    BY <1>1, <1>2, InitTypeInv, InitAgreeInv, PTL DEF Spec

===============================================================================
