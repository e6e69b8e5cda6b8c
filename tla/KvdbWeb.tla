------------------------------ MODULE KvdbWeb -------------------------------
(***************************************************************************)
(* The browser database of libs/kvdb-web: columns of keys and values in    *)
(* memory, which answer every read, and the same columns in IndexedDB,     *)
(* read when the database is opened.  A write changes the memory at once   *)
(* and asks IndexedDB for a transaction that nobody waits for: it may      *)
(* commit later, fail, or be lost with the page.                           *)
(*                                                                         *)
(* IndexedDB changes the version of a database, and with it its stores,    *)
(* only when no other connection to it is open.  A connection is closed by *)
(* a call, with its page, or by the browser when nothing refers to it.     *)
(***************************************************************************)
EXTENDS Naturals, Sequences, FiniteSets, SequencesExt

CONSTANTS
  Keys,        \* keys: sequences of bytes
  Values,
  Batches,     \* the transactions that get written: sequences of operations
  MaxColumns,  \* bound: columns the database is opened with
  MaxPending,  \* bound: transactions IndexedDB has yet to commit
  MaxWritten   \* bound: different contents written

ASSUME BoundsAssumption ==
  MaxColumns \in Nat \ {0} /\ MaxPending \in Nat /\ MaxWritten \in Nat

VARIABLES
  stores,    \* IndexedDB: the number of object stores, col0, col1, ...
  version,   \* IndexedDB: the version of the database, 0 before it exists
  idb,       \* IndexedDB: the contents of the stores
  pending,   \* IndexedDB: the transactions it has yet to commit
  phase,     \* of the Database: closed, bumping or reading (open awaits), open,
             \* gone with its page
  old,       \* the connection with too few stores: none, held or dropped
  columns,   \* Database.columns
  column,    \* reading: the next column to read
  in_memory, \* Database.in_memory
  written,   \* history: the contents that the database has been given
  failed     \* history: a transaction of IndexedDB failed

browser == <<stores, version, idb, pending>>
database == <<phase, old, columns, column, in_memory>>
vars == <<browser, database, written, failed>>

-----------------------------------------------------------------------------
Column == 0..(MaxColumns - 1)
Empty == [k \in {} |-> k]
Nothing == [c \in Column |-> Empty]

\* A content of a column; a DBOp, on a column, of one of the three types.
Content == UNION {[keys -> Values] : keys \in SUBSET Keys}
Operation ==
  [type : {"put"}, col : Column, key : Keys, value : Values]
  \cup [type : {"delete", "delete_prefix"}, col : Column, key : Keys]

ASSUME BatchesAssumption == Batches \subseteq Seq(Operation)

Put(content, key, value) ==
  [k \in DOMAIN content \cup {key} |-> IF k = key THEN value ELSE content[k]]
Without(content, keys) == [k \in DOMAIN content \ keys |-> content[k]]

\* kvdb_memorydb: one operation on all columns.
InMemory(db, op) ==
  CASE op.type = "put"    -> [db EXCEPT ![op.col] = Put(@, op.key, op.value)]
    [] op.type = "delete" -> [db EXCEPT ![op.col] = Without(@, {op.key})]
    [] op.type = "delete_prefix" ->
         [db EXCEPT ![op.col] = Without(@, {k \in Keys : IsPrefix(op.key, k)})]

\* idb_commit_transaction: the requests it makes for an operation.  A prefix
\* makes the range of keys from prefix to prefix.
BugKeepsDeleted(db, op) ==
  IF op.type = "put" THEN [db EXCEPT ![op.col] = Put(@, op.key, op.value)] ELSE db
InIndexedDb(db, op) ==
  CASE op.type = "put" -> [db EXCEPT ![op.col] = Put(@, op.key, op.value)]
    [] op.type \in {"delete", "delete_prefix"} ->
         [db EXCEPT ![op.col] = Without(@, {op.key})]

Written(db, batch) ==
  LET after[n \in 0..Len(batch)] ==
        IF n = 0 THEN db ELSE InMemory(after[n - 1], batch[n])
  IN  after[Len(batch)]

Committed(db, batch) ==
  LET after[n \in 0..Len(batch)] ==
        IF n = 0 THEN db ELSE InIndexedDb(after[n - 1], batch[n])
  IN  after[Len(batch)]

\* What IndexedDB holds after each number of the transactions.
CommittedOneByOne(db, transactions) ==
  LET after[n \in 0..Len(transactions)] ==
        IF n = 0 THEN db ELSE Committed(after[n - 1], transactions[n])
  IN  after
AllCommitted(db, transactions) == CommittedOneByOne(db, transactions)[Len(transactions)]

\* The IndexedDB transactions for a batch: one.
BugOneForEach(batch) == [n \in DOMAIN batch |-> <<batch[n]>>]
BugLazy(batch) == <<>>
Transactions(batch) == <<batch>>

\* try_create_missing_stores, with a store more than there are columns.
BugOnlyColumns(previous, cols) == IF previous < cols THEN cols ELSE previous
Created(previous, cols) == IF previous <= cols THEN cols + 1 ELSE previous

Discarded == "dropped"

-----------------------------------------------------------------------------
Init ==
  /\ stores = 0 /\ version = 0 /\ idb = Nothing /\ pending = <<>>
  /\ phase = "closed" /\ old = "none" /\ columns = 0 /\ column = 0 /\ in_memory = Nothing
  /\ written = {Nothing} /\ failed = FALSE

\* Database::open: the latest version is opened, and created if there is
\* none; it may have too few stores.
Open(cols) ==
  /\ phase \in {"closed", "gone"}
  /\ stores' = IF version = 0 THEN Created(0, cols) ELSE stores
  /\ version' = IF version = 0 THEN 1 ELSE version
  /\ columns' = cols
  /\ phase' = IF cols + 1 > stores' THEN "bumping" ELSE "reading"
  /\ old' = IF cols + 1 > stores' THEN Discarded ELSE "none"
  /\ column' = 0 /\ in_memory' = Nothing
  /\ UNCHANGED <<idb, pending, written, failed>>

\* The database is opened again with the next version, which creates the
\* stores that are missing.  IndexedDB finishes earlier transactions first, and
\* waits until the first connection is closed.
Bump ==
  /\ phase = "bumping" /\ old = "none" /\ pending = <<>>
  /\ version' = version + 1
  /\ stores' = Created(stores, columns)
  /\ phase' = "reading"
  /\ UNCHANGED <<idb, pending, old, columns, column, in_memory, written, failed>>

\* The browser collects the connection nothing refers to, and closes it: when,
\* and whether it ever does, is its own affair.
Collect ==
  /\ old = "dropped" /\ old' = "none"
  /\ UNCHANGED <<browser, phase, columns, column, in_memory, written, failed>>

\* A column is read with a transaction of its own, which IndexedDB starts
\* when earlier transactions on the store are finished.
ReadColumn ==
  /\ phase = "reading" /\ pending = <<>>
  /\ in_memory' = [in_memory EXCEPT ![column] = idb[column]]
  /\ column' = column + 1
  /\ phase' = IF column' = columns THEN "open" ELSE "reading"
  /\ UNCHANGED <<browser, old, columns, written, failed>>

\* write: the transaction is requested, its outcome is ignored, the memory
\* written.
Write(batch) ==
  /\ phase = "open"
  /\ \A n \in DOMAIN batch : batch[n].col < columns
  /\ Len(pending) < MaxPending /\ Cardinality(written) < MaxWritten
  /\ pending' = pending \o Transactions(batch)
  /\ in_memory' = Written(in_memory, batch)
  /\ written' = written \cup {[c \in Column |-> IF c < columns THEN in_memory'[c]
                               ELSE idb[c]]}
  /\ UNCHANGED <<stores, version, idb, phase, old, columns, column, failed>>

\* IndexedDB commits its next transaction, as a whole.
Commit ==
  /\ pending # <<>>
  /\ idb' = Committed(idb, Head(pending))
  /\ pending' = Tail(pending)
  /\ UNCHANGED <<stores, version, database, written, failed>>

\* Its next transaction fails, for want of space for instance: the closure
\* on_error logs it.
Fail ==
  /\ pending # <<>>
  /\ pending' = Tail(pending)
  /\ failed' = TRUE
  /\ UNCHANGED <<stores, version, idb, database, written>>

Shut ==
  /\ old' = "none" /\ columns' = 0 /\ column' = 0 /\ in_memory' = Nothing

\* Drop for Database: IndexedDB still finishes what was requested.
Close ==
  /\ phase = "open" /\ phase' = "closed"
  /\ Shut
  /\ UNCHANGED <<browser, written, failed>>

\* The page goes away, and with it its connections and what IndexedDB has not
\* committed.
Crash ==
  /\ phase' = "gone"
  /\ Shut
  /\ pending' = <<>>
  /\ UNCHANGED <<stores, version, idb, written, failed>>

Next ==
  \/ \E cols \in 1..MaxColumns : Open(cols)
  \/ Bump
  \/ Collect
  \/ ReadColumn
  \/ \E batch \in Batches : Write(batch)
  \/ Commit
  \/ Fail
  \/ Close
  \/ Crash

Spec == Init /\ [][Next]_vars

\* IndexedDB works on what it was asked for, and the page handles its events;
\* nobody has to open, to write or to close, and no standard promises that the
\* browser collects what nothing refers to.
CodeFairness == WF_vars(Bump) /\ WF_vars(ReadColumn) /\ WF_vars(Commit)

FairSpec == Spec /\ CodeFairness

-----------------------------------------------------------------------------
(***************************************************************************)
(* Properties.                                                             *)
(***************************************************************************)
\* A database that is being read or is open has a store more than it has
\* columns, so every column that ReadColumn and Write use has its store:
\* idb_cursor and idb_commit_transaction panic otherwise (lib.rs:53-65,
\* indexed_db.rs:133, 202).
StoresExist == phase \in {"reading", "open"} => columns + 1 <= stores

\* The type of the state, with the stores that the code takes for granted.
TypeOK ==
  /\ stores \in 0..(MaxColumns + 1) /\ version \in Nat
  /\ idb \in [Column -> Content] /\ in_memory \in [Column -> Content]
  /\ phase \in {"closed", "bumping", "reading", "open", "gone"}
  /\ old \in {"none", "held", "dropped"}
  /\ columns \in 0..MaxColumns /\ column \in 0..columns
  /\ StoresExist
  /\ failed \in BOOLEAN

\* "Writes data both into memory and IndexedDB" (lib.rs:11): once IndexedDB
\* has committed what was asked of it, it holds what the memory holds.
WriteThrough ==
  phase = "open" /\ ~failed =>
    \A c \in 0..(columns - 1) :
       in_memory[c] = AllCommitted(idb, pending)[c]

\* What is read when the database is opened, column by column, after crashes
\* and openings with other numbers of columns, is a content that it had
\* between two writes: no half of a batch (lib.rs:47-78, 106-109).
OpenNeverMixes ==
  phase = "open" /\ ~failed =>
    \E db \in written : \A c \in 0..(columns - 1) : in_memory[c] = db[c]


\* Nobody waits for a write, and the future that would tell its outcome is
\* dropped; still IndexedDB gets to hold each value the memory got, unless a
\* transaction fails or the page goes first (lib.rs:106-109,
\* indexed_db.rs:119-195).
EachWriteIsCommitted ==
  \A c \in Column, k \in Keys, v \in Values :
    (phase = "open" /\ k \in DOMAIN in_memory[c] /\ in_memory[c][k] = v)
      ~> (failed \/ phase = "gone" \/ (k \in DOMAIN idb[c] /\ idb[c][k] = v))

=============================================================================
