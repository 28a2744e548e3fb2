----------------------------- MODULE Statements -----------------------------
(***************************************************************************)
(* SQL statements at work: the insert, update, delete and scan executors   *)
(* (src/src/executor) over one table, called by sessions on threads of     *)
(* their own.  The module composes what the executors call: the version    *)
(* chains and the transaction ids (MvccManager), the record locks          *)
(* (LockManager), the index as the map that BPlusTree implements, the heap *)
(* as its list of rows, and the log as the number of records of each       *)
(* transaction.                                                            *)
(*                                                                         *)
(* A transaction runs statements one after the other; Shell commits after  *)
(* each, other callers after several.  An exception ends the statement and *)
(* nothing else: the transaction is neither committed nor aborted.  No     *)
(* caller ever calls LockManager::releaseAll.  Every call an executor      *)
(* makes is a step, so that sessions interleave between any two of them.   *)
(*                                                                         *)
(* A row is the integer key in its first column.  The heap is never full   *)
(* in the code; MaxRows stands for the disk errors of insertTuple.         *)
(***************************************************************************)
EXTENDS Naturals, Sequences, FiniteSets, Subsequences

CONSTANTS
    Session,
    Key,            \* values of the first column, a set of integers
    NoKey,          \* no row, and the missing WHERE clause
    Throws,         \* an expression whose evaluation throws
    NoTxn,
    Statement,      \* the statements that sessions run
    MaxRows,        \* bound on the rows of the heap
    RowsPerPage,    \* rows on a page of the heap
    MaxStatements,  \* bound on the statements that are run
    MaxTxnId        \* bound on the transaction ids and commit timestamps

\* What a session can ask for: rows to insert, and scans of all rows or of the
\* one with a key, to return, delete or give a new key.
StatementForm ==
    [op : {"insert"}, rows : Seq(Key \cup {Throws})]
    \cup [op : {"select", "delete"}, where : Key \cup {NoKey}]
    \cup [op : {"update"}, where : Key \cup {NoKey}, set : Key \cup {Throws}]

ASSUME StatementsAssumption ==
    /\ Key \subseteq Nat /\ NoKey \notin Key /\ Throws \notin Key
    /\ MaxRows \in Nat /\ RowsPerPage \in Nat \ {0} /\ MaxStatements \in Nat /\ MaxTxnId \in Nat
    /\ Statement \subseteq StatementForm
    /\ NoTxn \notin 0 .. MaxTxnId

VARIABLES
    chains, next_txn_id, status,                                \* of MvccManager
    queue, upgrading, shared, exclusive, state, call,           \* of LockManager
    heap,           \* the rows of the table, by record id
    index,          \* the index on the first column
    log_records,    \* the records each transaction has appended to the log
    session,        \* what each session is doing
    started         \* the number of statements run so far

mvccVars == <<chains, next_txn_id, status>>
lockVars == <<queue, upgrading, shared, exclusive, state, call>>
storeVars == <<heap, index, log_records>>
vars == <<mvccVars, lockVars, storeVars, session, started>>

RID == 1 .. MaxRows
TxnId == 0 .. MaxTxnId

Mvcc == INSTANCE MvccManager
           WITH Value <- Key, NoValue <- NoKey, MaxVersions <- MaxStatements + 1
Locks == INSTANCE LockManager WITH Txn <- TxnId, Upgraders <- {}, Wounded <- {}

-----------------------------------------------------------------------------
\* A row in the heap, with the transaction that put it there (history).
HeapRow == [key : Key, by : TxnId]

\* A row that a scan has returned; raw rows come from the heap because they
\* had no version, and dirty ones while their transaction was not finished.
Output == [rid : RID, key : Key, raw : BOOLEAN, dirty : BOOLEAN]

\* Where an executor is: "idle" without a transaction, "ready" between two
\* statements, otherwise at the next call it makes.
Place == {"idle", "ready", "row", "lock", "version", "index", "reindex", "commit"}

NoStatement == [op |-> "none", where |-> NoKey]

NoScan == [pos |-> 0, cached |-> 0, entries |-> <<>>]

Idle ==
    [at |-> "idle", txn |-> 0, stmt |-> NoStatement, scan |-> NoScan,
     rid |-> 0, key |-> NoKey, out |-> {}, base |-> {}]

Init ==
    /\ Mvcc!Init
    /\ Locks!Init
    /\ heap = <<>>
    /\ index = [k \in {} |-> 0]
    /\ log_records = [t \in TxnId |-> 0]
    /\ session = [s \in Session |-> Idle]
    /\ started = 0

\* The rows of the table that are committed, as <<record id, key>>.
CommittedRows == {<<r, Mvcc!Latest(r)>> : r \in {q \in RID : Mvcc!Latest(q) # NoKey}}

\* TransactionManager::begin; base remembers what is committed by then.
BeginTransaction(s) ==
    /\ session[s].at = "idle"
    /\ \E t \in TxnId :
          /\ Mvcc!Begin(t)
          /\ session' = [session EXCEPT
                            ![s] = [Idle EXCEPT !.at = "ready", !.txn = t, !.base = CommittedRows]]
    /\ UNCHANGED <<lockVars, storeVars, started>>

(***************************************************************************)
(* Scans.                                                                  *)
(***************************************************************************)
\* HeapIterator: it holds a copy of a page, and takes a new copy when it
\* moves to the next one; a row or a page added later is not in the copy.
\* Position 0 is the end.
HeapBegin == [NoScan EXCEPT !.pos = IF heap = <<>> THEN 0 ELSE 1, !.cached = Len(heap)]

\* Mutant of HeapAdvance: the copy of the first page is not replaced.
HeapAdvanceFirstPage(scan) ==
    IF scan.pos + 1 > RowsPerPage THEN [scan EXCEPT !.pos = 0] ELSE [scan EXCEPT !.pos = @ + 1]

HeapAdvance(scan) ==
    IF scan.pos + 1 > scan.cached THEN [scan EXCEPT !.pos = 0]
    ELSE [scan EXCEPT !.pos = @ + 1,
                      !.cached = IF scan.pos % RowsPerPage = 0 THEN Len(heap) ELSE @]

\* BPlusTree::begin(key) on an index of one leaf: the iterator holds a copy of
\* the leaf, of which it reads the record ids from the first key >= k on.
IndexBegin(k) == [NoScan EXCEPT !.entries = Pick(index, {j \in DOMAIN index : j >= k})]

\* The scan below select, update and delete: IndexScanExecutor if the first
\* column is compared with a constant, SeqScanExecutor without a condition.
ScanInit(stmt) ==
    IF stmt.op = "insert" THEN NoScan
    ELSE IF stmt.where = NoKey THEN HeapBegin ELSE IndexBegin(stmt.where)

StartStatement(s, stmt) ==
    /\ session[s].at = "ready"
    /\ started < MaxStatements
    /\ started' = started + 1
    /\ session' = [session EXCEPT ![s].at = "row", ![s].stmt = stmt,
                                  ![s].scan = ScanInit(stmt), ![s].out = {}]
    /\ UNCHANGED <<mvccVars, lockVars, storeVars>>

AtEnd(s) ==
    LET stmt == session[s].stmt
    IN  CASE stmt.op = "insert" -> stmt.rows = <<>>
          [] stmt.op # "insert" /\ stmt.where = NoKey -> session[s].scan.pos = 0
          [] OTHER -> session[s].scan.entries = <<>>

\* next() of the root returns false.
FinishStatement(s) ==
    /\ session[s].at = "row" /\ AtEnd(s)
    /\ session' = [session EXCEPT ![s].at = "ready", ![s].scan = NoScan]
    /\ UNCHANGED <<mvccVars, lockVars, storeVars, started>>

CurrentRID(s) ==
    IF session[s].stmt.where = NoKey THEN session[s].scan.pos ELSE Head(session[s].scan.entries)

\* Mutant of AdvancedScan: the iterator on the index stays where it is.
AdvancedScanStuck(s) ==
    IF session[s].stmt.where = NoKey THEN HeapAdvance(session[s].scan) ELSE session[s].scan

AdvancedScan(s) ==
    IF session[s].stmt.where = NoKey THEN HeapAdvance(session[s].scan)
    ELSE [session[s].scan EXCEPT !.entries = Tail(@)]

\* Mutant of VisibleRow: what the reader cannot see is taken from the heap.
VisibleRowOrHeap(t, r) ==
    IF chains[r] = <<>> \/ Mvcc!Read(t, r) = NoKey THEN heap[r].key ELSE Mvcc!Read(t, r)

\* versionCount and read; a row without versions is read from the heap.
VisibleRow(t, r) == IF chains[r] = <<>> THEN heap[r].key ELSE Mvcc!Read(t, r)

RowOutput(t, r) ==
    [rid |-> r, key |-> VisibleRow(t, r), raw |-> chains[r] = <<>>,
     dirty |-> heap[r].by # t /\ status[heap[r].by] = "active"]

\* The scan looks at one row.  An invisible row is skipped; in an index scan
\* the first other key ends the scan; a row that qualifies is returned, and
\* goes to the result or on to the update or the delete.
ScanRow(s) ==
    LET me == session[s]
        r == CurrentRID(s)
        k == VisibleRow(me.txn, r)
        picks == me.stmt.op = "select"
    IN  /\ me.at = "row" /\ me.stmt.op # "insert" /\ ~AtEnd(s)
        /\ session' = [session EXCEPT ![s] =
              CASE k = NoKey -> [me EXCEPT !.scan = AdvancedScan(s)]
                [] k # NoKey /\ me.stmt.where \notin {NoKey, k} -> [me EXCEPT !.scan.entries = <<>>]
                [] OTHER -> [me EXCEPT !.scan = AdvancedScan(s),
                                       !.at = IF picks THEN "row" ELSE "lock",
                                       !.rid = r, !.key = k,
                                       !.out = IF picks THEN me.out \cup {RowOutput(me.txn, r)}
                                               ELSE me.out]]
        /\ UNCHANGED <<mvccVars, lockVars, storeVars, started>>

(***************************************************************************)
(* Inserts, updates and deletes.                                           *)
(***************************************************************************)
\* An exception: the session reports it and forgets the transaction, which
\* stays active with its versions, its locks and its index entries.
Throw(s) ==
    /\ session' = [session EXCEPT ![s] = Idle]
    /\ UNCHANGED <<mvccVars, lockVars, storeVars, started>>

\* ValuesExecutor evaluates the next row only when InsertExecutor asks for it.
ValuesThrow(s) ==
    /\ session[s].at = "row" /\ session[s].stmt.op = "insert" /\ ~AtEnd(s)
    /\ Head(session[s].stmt.rows) = Throws
    /\ Throw(s)

\* TableHeap::insertTuple; a row that cannot be stored is passed over.
InsertIntoHeap(s) ==
    /\ session[s].at = "row" /\ session[s].stmt.op = "insert" /\ ~AtEnd(s)
    /\ Head(session[s].stmt.rows) # Throws
    /\ LET k == Head(session[s].stmt.rows)
           rest == [session[s] EXCEPT !.stmt.rows = Tail(@)]
       IN  \/ /\ Len(heap) < MaxRows
              /\ heap' = Append(heap, [key |-> k, by |-> session[s].txn])
              /\ session' = [session EXCEPT
                                ![s] = [rest EXCEPT !.at = "lock", !.rid = Len(heap'), !.key = k]]
           \/ /\ Len(heap) = MaxRows
              /\ session' = [session EXCEPT ![s] = rest]
              /\ UNCHANGED heap
    /\ UNCHANGED <<mvccVars, lockVars, index, log_records, started>>

\* lockExclusive returns at once on a record that the transaction has locked
\* already; otherwise the thread may stay blocked in the call.  The result is
\* ignored.
LockRecord(s) ==
    /\ session[s].at = "lock"
    /\ session' = [session EXCEPT ![s].at = "version"]
    /\ \/ session[s].rid \in exclusive[session[s].txn] /\ UNCHANGED lockVars
       \/ Locks!LockExclusive(session[s].txn, session[s].rid)
    /\ UNCHANGED <<mvccVars, storeVars, started>>

\* A blocked thread wakes and looks at the queue again.
LockWakes(s) ==
    /\ session[s].at = "version"
    /\ Locks!SpuriousWakeup(session[s].txn) \/ Locks!Resume(session[s].txn)
    /\ UNCHANGED <<mvccVars, storeVars, session, started>>

Unblocked(s) == session[s].at = "version" /\ call[session[s].txn] = Locks!Idle

\* MvccManager::update and remove return false for a record without versions,
\* a deleted one, and one that another transaction has written; insert does so
\* for a record that has a live version.
Writable(t, r) ==
    /\ chains[r] # <<>> /\ ~chains[r][1].is_deleted
    /\ ~Mvcc!HasWriteConflict(chains[r][1], t)

Insertable(r) == chains[r] # <<>> => chains[r][1].is_deleted

WriteVersion(s) ==
    LET t == session[s].txn
        r == session[s].rid
        stmt == session[s].stmt
    IN  /\ Unblocked(s)
        /\ \/ stmt.op = "insert" /\ Mvcc!Insert(t, r, session[s].key)
           \/ /\ stmt.op = "update" /\ stmt.set # Throws /\ Writable(t, r)
              /\ Mvcc!Update(t, r, stmt.set)
           \/ stmt.op = "delete" /\ Writable(t, r) /\ Mvcc!Remove(t, r)
        /\ session' = [session EXCEPT ![s].at = "index"]
        /\ UNCHANGED <<lockVars, storeVars, started>>

\* The manager refuses and the executor goes on to the next row.
WriteRefused(s) ==
    LET t == session[s].txn
        stmt == session[s].stmt
    IN  /\ Unblocked(s)
        /\ IF stmt.op = "insert" THEN ~Insertable(session[s].rid)
           ELSE ~Writable(t, session[s].rid) /\ (stmt.op = "update" => stmt.set # Throws)
        /\ session' = [session EXCEPT ![s].at = "row"]
        /\ UNCHANGED <<mvccVars, lockVars, storeVars, started>>

\* UpdateExecutor evaluates the new values once the record is locked.
SetThrows(s) ==
    /\ Unblocked(s)
    /\ session[s].stmt.op = "update" /\ session[s].stmt.set = Throws
    /\ Throw(s)

\* Mutant of IndexInserted: a new key is not entered into an index in use.
IndexInsertedFirstOnly(k, r) == IF DOMAIN index = {} THEN [j \in {k} |-> r] ELSE index

\* BPlusTree::insert keeps the entry a key already has.
IndexInserted(k, r) ==
    [j \in DOMAIN index \cup {k} |-> IF j \in DOMAIN index THEN index[j] ELSE r]

\* BPlusTree::remove takes the entry of the key away, whatever its record id.
IndexRemoved(k) == [j \in DOMAIN index \ {k} |-> index[j]]

\* Mutant of RowDone: a delete is not logged.
RowDoneUnlogged(s) ==
    /\ log_records' = [log_records EXCEPT
                          ![session[s].txn] = IF session[s].stmt.op = "delete" THEN @ ELSE @ + 1]
    /\ session' = [session EXCEPT ![s].at = "row"]

\* The end of the work on a row: append the log record, ask for the next row.
RowDone(s) ==
    /\ log_records' = [log_records EXCEPT ![session[s].txn] = @ + 1]
    /\ session' = [session EXCEPT ![s].at = "row"]

\* An update of the key is a remove followed by an insert.
WriteIndex(s) ==
    LET stmt == session[s].stmt
    IN  /\ session[s].at = "index"
        /\ \/ /\ stmt.op = "insert"
              /\ index' = IndexInserted(session[s].key, session[s].rid)
              /\ RowDone(s)
           \/ stmt.op = "delete" /\ index' = IndexRemoved(session[s].key) /\ RowDone(s)
           \/ /\ stmt.op = "update" /\ stmt.set = session[s].key
              /\ UNCHANGED index /\ RowDone(s)
           \/ /\ stmt.op = "update" /\ stmt.set # session[s].key
              /\ index' = IndexRemoved(session[s].key)
              /\ session' = [session EXCEPT ![s].at = "reindex"]
              /\ UNCHANGED log_records
        /\ UNCHANGED <<mvccVars, lockVars, heap, started>>

ReinsertKey(s) ==
    /\ session[s].at = "reindex"
    /\ index' = IndexInserted(session[s].stmt.set, session[s].rid)
    /\ RowDone(s)
    /\ UNCHANGED <<mvccVars, lockVars, heap, started>>

\* MvccManager::commit, then TransactionManager::commit.
CommitVersions(s) ==
    /\ session[s].at = "ready" /\ session[s].stmt.op # "none"
    /\ Mvcc!MvccCommit(session[s].txn)
    /\ session' = [session EXCEPT ![s].at = "commit"]
    /\ UNCHANGED <<lockVars, storeVars, started>>

CommitTransaction(s) ==
    /\ session[s].at = "commit"
    /\ Mvcc!TxnCommit(session[s].txn)
    /\ session' = [session EXCEPT ![s] = Idle]
    /\ UNCHANGED <<lockVars, storeVars, started>>

\* What the thread of a session does once a statement has started.
Step(s) ==
    \/ ScanRow(s) \/ FinishStatement(s)
    \/ ValuesThrow(s) \/ InsertIntoHeap(s) \/ LockRecord(s)
    \/ WriteVersion(s) \/ WriteRefused(s) \/ SetThrows(s)
    \/ WriteIndex(s) \/ ReinsertKey(s)

Next ==
    \E s \in Session :
        \/ BeginTransaction(s)
        \/ \E stmt \in Statement : StartStatement(s, stmt)
        \/ Step(s)
        \/ LockWakes(s)
        \/ CommitVersions(s) \/ CommitTransaction(s)

Spec == Init /\ [][Next]_vars

\* A thread that is not blocked runs.
FairSpec == Spec /\ \A s \in Session : WF_vars(Step(s))

-----------------------------------------------------------------------------
(***************************************************************************)
(* Properties                                                              *)
(***************************************************************************)
Scan == [pos : 0 .. MaxRows, cached : 0 .. MaxRows, entries : Seq(RID)]

SessionState ==
    [at : Place, txn : TxnId, stmt : StatementForm \cup {NoStatement}, scan : Scan,
     rid : 0 .. MaxRows, key : Key \cup {NoKey}, out : SUBSET Output, base : SUBSET (RID \X Key)]

TypeOK ==
    /\ Mvcc!TypeOK /\ Locks!TypeOK
    /\ heap \in Seq(HeapRow) /\ Len(heap) <= MaxRows
    /\ index \in [DOMAIN index -> RID] /\ DOMAIN index \subseteq Key
    /\ log_records \in [TxnId -> Nat]
    /\ session \in [Session -> SessionState]

Running(s) == session[s].at \notin {"idle", "ready", "commit"}

\* A select has run to its end and its result is with the caller.
Selected(s) == session[s].at = "ready" /\ session[s].stmt.op = "select"

\* A row that a scan has read from a version chain is a committed version of
\* the record or the reader's own (SeqScanExecutor, IndexScanExecutor over
\* MvccManager::read), also when its transaction threw halfway; and a row read
\* from the heap is one whose insert has not reached MvccManager yet.
ReadsCommitted ==
    \A s \in Session : \A o \in session[s].out :
        /\ ~o.raw => \E i \in 1 .. Len(chains[o.rid]) :
              LET ver == chains[o.rid][i]
              IN  /\ ver.data = o.key
                  /\ ver.is_committed \/ ver.begin_txn_id = session[s].txn
        /\ o.raw => o.dirty

\* A full scan returns every row that was committed when its transaction began,
\* whatever other sessions insert, update, delete or leave undecided in the
\* meantime.  (Nor can the transaction itself have changed such a row: the locks
\* of the one that wrote it are never released.)
ScanComplete ==
    \A s \in Session :
        Selected(s) /\ session[s].stmt.where = NoKey =>
            \A row \in session[s].base :
                \E o \in session[s].out : o.rid = row[1] /\ o.key = row[2]

\* The records that have ever had key k, in the heap or in a version.
Carriers(k) ==
    {r \in DOMAIN heap : heap[r].key = k \/ \E i \in 1 .. Len(chains[r]) : chains[r][i].data = k}

\* A lookup by key returns the row that was committed under the key when its
\* transaction began, provided no other row has ever had the key.  (The index
\* keeps one record id per key and executors ignore its answers: a second row
\* with the key, committed or not, is never entered, and deleting it takes the
\* entry of the first one away.)
LookupComplete ==
    \A s \in Session :
        Selected(s) /\ session[s].stmt.where # NoKey =>
            \A row \in session[s].base :
                row[2] = session[s].stmt.where /\ Carriers(row[2]) = {row[1]} =>
                    \E o \in session[s].out : o.rid = row[1]

VersionsOf(t) ==
    {v \in RID \X (1 .. (MaxStatements + 1)) :
        v[2] <= Len(chains[v[1]]) /\ chains[v[1]][v[2]].begin_txn_id = t}

\* A transaction that commits has one log record for every version it wrote:
\* a statement that throws after the version and before the record never
\* commits (WAL records of the insert, update and delete executors).
CommittedIsLogged ==
    \A t \in TxnId :
        status[t] \in {"committed", "done"} => log_records[t] = Cardinality(VersionsOf(t))

\* The thread of the session is blocked on a record that another transaction
\* has locked.
BlockedByOther(s) ==
    LET t == session[s].txn
    IN  /\ session[s].at = "version" /\ call[t] # Locks!Idle
        /\ \E u \in TxnId \ {t} : session[s].rid \in exclusive[u]

\* A statement that has started ends, unless it meets a record that another
\* transaction has locked; such locks are never released.
StatementEnds ==
    \A s \in Session : Running(s) ~> (~Running(s) \/ BlockedByOther(s))

-----------------------------------------------------------------------------
(***************************************************************************)
(* The invariant the proofs use.                                           *)
(***************************************************************************)
Active(s) == session[s].at \notin {"idle", "commit"}

\* The executor has a row in hand: it is on its way to the version, the row
\* being one it has put into the heap itself or another, or past it.
Inserting(s) == session[s].at \in {"lock", "version"} /\ session[s].stmt.op = "insert"

Changing(s) == session[s].at \in {"lock", "version"} /\ session[s].stmt.op # "insert"

Indexing(s) == session[s].at \in {"index", "reindex"}

\* Each session works for a transaction of its own.
SessionsApart ==
    \A s, u \in Session :
        s # u /\ session[s].at # "idle" /\ session[u].at # "idle" => session[s].txn # session[u].txn

\* What the place of a session says of its transaction.
PlaceSound(s) ==
    /\ Active(s) => status[session[s].txn] = "active"
    /\ session[s].at = "commit" => status[session[s].txn] = "committed"
    /\ session[s].at = "idle" => session[s].out = {} /\ session[s].base = {}
    /\ Running(s) => session[s].stmt # NoStatement

\* The scan of a session stays inside the heap.
ScanSound(s) ==
    LET scan == session[s].scan
    IN  /\ scan.pos <= scan.cached /\ scan.cached <= Len(heap)
        /\ \A i \in 1 .. Len(scan.entries) : scan.entries[i] \in DOMAIN heap

\* The newest version of record r is live and has key k.
LiveHead(r, k) == chains[r] # <<>> /\ ~chains[r][1].is_deleted /\ chains[r][1].data = k

Indexed(k, r) == k \in DOMAIN index /\ index[k] = r

\* What a session knows of the row in hand.  Until it has the lock the row may
\* belong to another transaction; a row that is its own nobody else changes.
RowSound(s) ==
    LET me == session[s]
        r == me.rid
        stmt == me.stmt
    IN  /\ Inserting(s) \/ Changing(s) \/ Indexing(s) =>
              stmt.op \in {"insert", "update", "delete"} /\ me.key \in Key /\ r \in Carriers(me.key)
        /\ Inserting(s) => chains[r] = <<>> /\ heap[r].by = me.txn
        /\ Changing(s) /\ heap[r].by = me.txn => LiveHead(r, me.key)
        /\ Indexing(s) =>
              /\ heap[r].by = me.txn /\ chains[r] # <<>>
              /\ stmt.op = "insert" => LiveHead(r, me.key)
              /\ stmt.op = "update" => LiveHead(r, stmt.set) /\ stmt.set \in Key
              /\ stmt.op = "delete" => chains[r][1].is_deleted
        /\ me.at = "reindex" => stmt.op = "update"
        /\ me.at = "index" /\ stmt.op = "update" /\ stmt.set = me.key /\ Carriers(me.key) = {r} =>
              Indexed(me.key, r)

\* A session that has called lockExclusive has the lock or sleeps in the call,
\* and nobody else is in a call of the lock manager.
LockSound(s) ==
    LET c == call[session[s].txn]
    IN  session[s].at = "version" =>
            \/ c = Locks!Idle /\ session[s].rid \in exclusive[session[s].txn]
            \/ c \in Locks!Blocked /\ c.op = "lockExclusive" /\ c.rid = session[s].rid

LocksSound ==
    /\ Locks!Invariant
    /\ \A t \in TxnId :
          /\ shared[t] = {} /\ state[t] = "ACTIVE"
          /\ call[t] # Locks!Idle => \E s \in Session : session[s].at = "version" /\ session[s].txn = t

\* A record belongs to the transaction that inserted it: all versions are its
\* own, it has the lock, and until the first version its session is about to
\* write it.
RowsOwned ==
    \A r \in RID :
        /\ Len(chains[r]) <= MaxStatements + 1
        /\ r \notin DOMAIN heap => chains[r] = <<>>
        /\ r \in DOMAIN heap /\ chains[r] # <<>> =>
              /\ r \in exclusive[heap[r].by]
              /\ \A i \in 1 .. Len(chains[r]) : chains[r][i].begin_txn_id = heap[r].by
        /\ r \in DOMAIN heap /\ chains[r] = <<>> =>
              \E s \in Session : Inserting(s) /\ session[s].rid = r

\* What was committed when a transaction began is there to stay.
BaseSound(s) ==
    \A row \in session[s].base :
        /\ row[1] \in DOMAIN heap /\ chains[row[1]] # <<>>
        /\ heap[row[1]].by < session[s].txn
        /\ status[heap[row[1]].by] \in {"committed", "done"}
        /\ Mvcc!Latest(row[1]) = row[2]

\* A key leads to a record that has had it, and to the only one that has had it
\* while it is its key, once the executor is done with the row.
IndexSound ==
    /\ IsFiniteSet(DOMAIN index)
    /\ \A k \in DOMAIN index : index[k] \in Carriers(k)
    /\ \A r \in DOMAIN heap, k \in Key :
          /\ LiveHead(r, k) /\ Carriers(k) = {r}
          /\ \A s \in Session : ~(Indexing(s) /\ session[s].rid = r)
          => Indexed(k, r)

\* How far a select is: what it has not returned is still ahead of it.
SelectSound(s) ==
    LET me == session[s]
    IN  me.at \in {"row", "ready"} /\ me.stmt.op = "select" =>
            \A row \in me.base :
                /\ me.stmt.where = NoKey =>
                      \/ \E o \in me.out : o.rid = row[1] /\ o.key = row[2]
                      \/ me.at = "row" /\ me.scan.pos # 0 /\ row[1] \in me.scan.pos .. me.scan.cached
                /\ me.stmt.where = row[2] /\ Carriers(row[2]) = {row[1]} =>
                      \/ \E o \in me.out : o.rid = row[1]
                      \/ /\ me.at = "row" /\ me.scan.entries # <<>>
                         /\ Head(me.scan.entries) = row[1]

\* Every version is logged, or its session is about to.
VersionsLogged ==
    \A t \in TxnId :
        Cardinality(VersionsOf(t)) =
            log_records[t] + (IF \E s \in Session : Indexing(s) /\ session[s].txn = t THEN 1 ELSE 0)

StatementsInvariant ==
    /\ TypeOK /\ Mvcc!ChainInvariant /\ LocksSound
    /\ SessionsApart /\ RowsOwned /\ IndexSound
    /\ \A s \in Session :
          /\ PlaceSound(s) /\ ScanSound(s) /\ RowSound(s)
          /\ LockSound(s) /\ BaseSound(s) /\ SelectSound(s)
    /\ VersionsLogged /\ ReadsCommitted
=============================================================================
