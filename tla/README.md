# HamDB: specifications, model checks and proofs

HamDB is a small relational database in C++: a paged storage engine with a
buffer pool, a B+ tree index, a write-ahead log with crash recovery, a tuple
lock manager, multi-version concurrency control, a SQL front end with an
optimizer and Volcano-style executors, and a TCP server. This directory holds
TLA+ models of its core, the TLC configurations that check them, and TLAPS
proofs. `PROJECT.json` lists for every definition the source lines it models.

Run a check with `tlc -config <run>.cfg <module>`, a proof with
`tlapm <module>Proofs.tla`.

## Inventory

| Component (directory under `src/src`) | State | Operations | What makes it hard | What makes it correct |
|---|---|---|---|---|
| Lock manager (`transaction`) | request queue per record, upgrading flag, lock sets in the transactions | lockShared, lockExclusive, lockUpgrade, unlock, releaseAll | threads blocked on condition variables, aborts while waiting, upgrades | exclusion, queue and lock sets agree, nothing left behind, waiters return |
| MVCC manager (`transaction`) | version chain per record | insert, update, remove, read, commit, abort | interleaved writers, aborts in the middle | one undecided writer per chain, linked chains, committed data changes by commits only |
| Transaction manager (`transaction`) | id counter, transactions | begin, commit, abort | one counter for ids and commit timestamps | checked together with MVCC |
| Buffer pool (`buffer`) | frames, page table, LRU-K history, guards | fetch, new, flush, drop, move, evict | several guards on one page, failures inside an eviction | table, frames, pins and replacer agree; no write is lost |
| Disk manager (`storage`) | file, page count, metadata page | read, write, allocate, open | page 0 is written by two parties, failing writes | the page count is the size of the file |
| Slotted page (`storage`) | directory, tuple area, header | insert, insert at slot, update, delete, compact | two regions growing towards each other, moving overlapping tuples | regions never overlap; a list of records |
| Table heap, heap iterator (`storage`) | linked pages on disk, counters per object | create, open, insert, read, delete, iterate | two writes per growth, stale copies in iterators | acknowledged tuples stay, list sound, scans complete |
| Log and recovery (`wal`) | log buffer, disk log, page LSNs | append, flush, analyze, redo, undo | crash at any point, in recovery too | recovered state = effects of finished transactions |
| B+ tree (`index`) | pages linked up, down and sideways | insert, remove, getValue, range scan | splits, loans and merges over several levels | a map with ordered scans |
| Catalog (`catalog`) | tables, next id, page 0 | createTable, dropTable, save, load | state changed before it is saved, a full pool, a page shared with the metadata | the last successful save survives, ids and pages are not shared |
| Executors (`executor`) | a pipeline per statement | init, next | heap, lock, version, index and log changed one call after the other, exceptions in between | reads are committed and complete, what commits is logged, statements end |
| Expressions, planner, optimizer | plan trees | evaluate, plan, rewrite | every rule at every node, NULL, exceptions | every rewritten plan answers the query |
| Server, sessions, wire protocol (`server`) | connections, buffers, sessions | accept, receive, send, close, shutdown | partial reads and writes, clients that go away, shutdown at any time | one answer per request, in order; nothing waits or leaks |
| Statistics, binder, parser, prepared statements, shell, utilities | - | - | - | not modelled, except the transaction boundaries of the shell |

How they interact: the shell (and through it every server session) parses,
binds, plans and optimizes a statement, begins a transaction, and pulls rows
from an executor tree. Executors call the table heap, the B+ tree, the lock
manager and the MVCC manager directly. The B+ tree and the catalog use the
buffer pool, the heap and its iterator go to the disk manager past the pool.
The executors append to the log; flushing it and recovery are called only from
tests. Nothing in the repository runs a loop that serves connections; the
operations of the server are there for a caller to combine.
Only the lock manager, the MVCC manager, the transaction manager and the log
manager take latches.

## Modules

**LockManager** (`lock_manager.cpp`). `queue`, `upgrading`, the two lock sets
and the transaction states are the code's; `call` says which call a thread is
blocked in and whether it has been woken. Each latched section is one step: the
first half of a lock call up to the grant or the wait, the re-evaluation of the
predicate after a wake-up (`Resume`), `Release` for one lock; `releaseAll` is a
step per lock because the code takes the latch once per lock. `Wound` is the
`setState(ABORTED)` of another thread, `SpuriousWakeup` what a condition
variable may do. **LockManagerProofs** holds the theorems.

**MvccManager** (`mvcc_manager.cpp`, `transaction_manager.cpp`). Chains are
sequences, newest version first; ids and commit timestamps come from one
counter. Commit is two steps, one in each manager, as in the callers.

**BufferPool** (`buffer/*`, page I/O of `disk_manager.cpp`). Frames, page
table, guards and the access history of the LRU-K replacer as one sequence of
accesses. A page is a value plus the page count that the metadata page carries.
Reads, writes and allocations may fail, a failed write may leave part of the
page, and a restart flushes and reopens the file.

**SlottedPage** (`slotted_page.cpp`) at the level of bytes: body, slot
directory, the two boundaries of the free space, compaction through a scratch
buffer. **RecordPage** is the abstract list of records it implements.

**TableHeap** (`table_heap.cpp`, `heap_iterator.cpp`): several TableHeap
objects over one list of pages on disk, iterators with their cached page, disk
calls that fail. History variables record what has been acknowledged, what a
scan must return, what it has returned, and which places it has returned again. A zeroed page in the list leads the code into page 0, where
the outcome depends on bytes that mean something else; calls that would go
there are left out.

**Recovery** (`wal/*`). Log buffer and disk log, page images in the pool and
on disk, and `recover()` one log record at a time, so that a crash or an
eviction may come between two records. Its callers are modelled from the tests:
they hold a record until they finish, stamp pages with LSNs, and log ABORT after
changing everything back. Nothing ties pages to the log, as in the code: the
pool writes a dirty page at any moment, before its log records or after them
(`WritePage`). A tuple area holds `Room` tuples; deletes free none of it, so that
redo and undo may meet a page that refuses a tuple.

**BPlusTree** (`index/*`): pages with keys, children and links. `insert` and
`remove` run up to the first call of `insertIntoParent` or `handleUnderflow`;
each level these climb is a step, with the pending call in `call`. The key of
entry 0 of an internal page, which the code never reads, is left out.
**OrderedIndex** is the map it implements, with `index <- Contents`.

**Catalog** (`catalog_manager.cpp`) composes BufferPool: each call of the
catalog is a sequence of calls of the pool, between which nothing else happens,
but before and after which other guards fill the three frames, allocate pages
and flush. An entry may or may not fit into page 0, and the process ends and
starts again at any idle moment. **CatalogProofs** builds on the lemmas of
BufferPoolProofs.

**Statements** (`insert_`, `update_`, `delete_`, `values_`, `seq_scan_` and
`index_scan_executor.cpp`, and the transaction boundaries of `shell.cpp`)
composes MvccManager and LockManager, instantiated with their own actions, with
the heap as a list of rows, the index as the map that BPlusTree implements, and
the log as a count of records. Every call an executor makes is a step of its
session. Iterators hold the copy of a page or a leaf that the code holds.
Expressions may throw, and then the transaction stays as it is for ever, as in
the code. **StatementsProofs** builds on the proofs of the two managers.

**Server** (`server/*`). Byte streams with frames, and a worker per connection.
Each operation is the code's; the order in which a worker calls them is an
assumption of the module, since no code and no test has such a loop: accept,
`createSession`, `receive` and `handleRequest` in turn until `receive` returns
"", `closeSession`. A recv or a send moves any number of bytes. The sockets
block: `::send` waits while the client leaves `Window` bytes unread, and a send to
a client that has gone fails or, since nothing blocks SIGPIPE, ends the process
(`killed`). Clients send queries, other messages, undecodable, empty and
oversized ones, read their answers or do not, and go away in the middle of a
frame.

**Optimizer** (`optimizer/*`, `planSelect`, the limits of the physical planner,
and the executors of one-table queries). A step is one rule at one node; the
property runs the plan that stands between two steps. The executors are
functions from rows to sets of outcomes, since TopKExecutor leaves open the
order of rows that tie.

**Subsequences**: what a loop that rebuilds a list without some of its nodes
leaves, for the abort of a version chain, the histories of the replacer and the
flush of the log. It names the kept positions instead of recursing over the
list, so that the proofs can reason about it.

The modules `*Proofs` hold the theorems about the module they are named after.
The `MC*` modules add symmetry sets, views and constant functions. Comments
`Mutant of ...` mark faulty variants of the definition that follows; they are
there to show that the properties can fail, and no specification uses them.

## Runs

| Run | States | What it shows |
|---|---|---|
| `lock` | 16,192 | Three transactions on a record, all may upgrade and be wounded: `MutualExclusion`, `LockSetsMatchQueue`, `FinishedLeavesNoRequest`, the inductive `Invariant` of the proof, and that every blocked call returns (`WaiterReturns`), one named deadlock excepted |
| `mvcc` | 145,809 | `SingleWriter`, `ChainLinked`, `CommittedDurable`, `LaterWritersInvisible` over five ids, chains of three versions |
| `pool` | 72,006 | Two frames, three pages, two guards, failures: pins, table and replacer agree (`PinsMatchGuards`, `EvictableWhenUnpinned`), `CleanMatchesDisk`, `VictimIsOldest`, `NoLostWrite` |
| `slotted_page` | 45,041 | `Layout`, `CompactReclaims`, and the refinement `ImplementsRecords` |
| `heap` | 284,993 | Two TableHeap objects, an iterator, three pages, one failing disk call: `StoredReadable`, `ChainSound`, `ScanComplete` (nothing left out, no place returned twice), `CountsExact` |
| `recovery` | 1,716,107 | Pages written before or after their log records, pages that fill up: `RecoveredState` over all crashes, crashes in recovery included, and `FinishedOnDisk`, that no crash takes a record of a transaction whose end is on disk |
| `btree` | 30,195 | Eight keys, three levels, allocations that fail: `KeysFound`, `ScanInOrder`, `PointersAgree`, `HalfFull`, and the refinement `ImplementsIndex` |
| `statements` | 307,112 | Two sessions, three statements, two rows: `ReadsCommitted`, `ScanComplete`, `LookupComplete`, `CommittedIsLogged`, and that a statement ends unless it meets a lock of another transaction (`StatementEnds`) |
| `catalog` | 1,857,905 | Two names, three tables, three frames and three other guards, restarts: `CatalogSurvives`, `RootsOwned`, `IdsUnique` |
| `server` | 1,117,858 | Two clients and a load (connections and requests together) of three: `AnswersInOrder`, and that every connection comes to rest, unless its client leaves its answers unread or a SIGPIPE ends the process (`RequestAnswered`) |
| `optimizer` | 809,280 | All tables of up to three rows with three keys, 29 conditions, three projections, five orders, LIMIT and OFFSET: `RewritesAnswer`, `PredicateKept` |
| `catalog_page_count` | violation | A flush of the cached page 0 takes back the page count that `allocatePage` wrote; it is the project's finding, described in `PROJECT.json` |

**Bounds.** Locks: three transactions give a holder, an upgrader and a waiter
in every order; the code neither detects nor promises anything about cycles
over several records, so there is one (the proofs are for any number). MVCC:
five ids give two writers and a reader with their commit timestamps. Pool: two
frames under three pages force evictions, K is the code's 2. Slotted page: a
body of seven bytes, tuples of one and two bytes and three slots reach reuse,
skipped slots, stranded space and compactions that overlap. Heap: a page holds
two tuples, so three pages have a first, a middle and a last; the second tuple
size fits no page. Recovery: six log records on two slots are enough for two
transactions to overwrite each other, and a page with room for three tuples is
full after three of their changes, so that it refuses old tuples in undo. B+ tree: pages of three entries and
internal pages of four keep the parity of the real sizes (289 and 338); eight
keys reach loans and merges of internal pages on both sides, and no tree of
eight keys needs the ten pages allowed. Statements: two rows on pages of one,
so that a scan changes pages; three statements give a writer that throws, one
that commits and a reader, in every order. Catalog: three frames are what
createTable holds at once, so that any other guard makes one of its calls fail;
five pages are two tables. Server: frames of two header digits and a payload
of two bytes, so that a response has four; a load of three gives one connection
two requests in one stream, or two connections and a request on one of them; the
system holds five unread bytes, one response and the first byte of the next, so
that a second response blocks in its middle. Optimizer: three rows give ties, gaps and rows
behind a limit of one and an offset of one. `MaxTxnId`, `MaxVersions`,
`MaxLSN`, `MaxPages`, `MaxSlots`, `MaxFailures`, `MaxRows`, `MaxStatements`,
`MaxTables` and `MaxLoad` cap what the code leaves unbounded. Deadlock is
checked in `lock`, `pool`, `slotted_page`, `recovery` and `catalog`; the others
come to a stop at their bound, or when the work is done (`optimizer`) or an
insert has failed (`btree`).

**Fairness.** `FairSpec` of LockManager assumes that a thread that was notified
runs (`Resume`), and that a client that is not blocked ends its transaction
with `releaseAll`. Nothing forces clients to lock, unlock early, upgrade or
wound, and no spurious wake-up is assumed. `FairSpec` of Statements assumes
that a session's thread runs while it is not blocked; nothing forces a session
to begin, to start a statement or to commit. `Spec` of Server assumes that the
accept loop and the workers run; nothing forces a client to connect, to send,
to complete a frame, to read what it was sent or to hang up, nor the server to
stop. A worker whose send is blocked is not assumed to go on, and a process that
SIGPIPE has ended does nothing more.

## Known weaknesses

Met while modelling, and excepted by name from the properties, so that these
say exactly what is left:

- A shared request that waits ahead of a pending upgrade, and that upgrade,
  wait for each other for ever (`UpgradeStuck`).
- Snapshots are defined by begin ids: an older transaction that commits later
  becomes visible to a running reader. `LaterWritersInvisible` is the part that
  holds.
- An insert over a tombstone throws the chain away (`Reinserts`).
- No code keeps a page from being written before its log records: the buffer
  pool compares no LSN (`buffer_pool_manager.cpp:33-48`, `150-178`). After a
  crash such a page has changes that nothing takes back (`Followed`).
- Undo puts an old tuple back into the tuple area like a new one, no room is
  reserved for it, and the status of a page that refuses is ignored
  (`recovery_manager.cpp:107`, `111`): the row is lost or keeps the value of the
  unfinished transaction (`Refused`).
- Recovered pages are not marked dirty and fall back when the pool evicts them
  (`reread`); a second recovery after transactions have run again undoes the
  old losers once more (`resumed`).
- A growth of a heap that fails half way leaves a raw page in its list
  (`ChainSound`).
- An insert that fails in a split leaves the upper half of the split page
  outside the tree; only the chain of leaves still leads to it (`Failed`).
- A scan reads a row from the heap between its insert and its first version
  (`ReadsCommitted` says that this is the only case); a second row with a key is
  not in the index (`LookupComplete`); locks are never released
  (`BlockedByOther`). Version chains are lost at a restart, after which every
  heap row, deleted or undecided, counts as committed.
- A catalog that does not fit into page 0 is written in part (`overflowed`),
  and after the page count has fallen back tables share pages (`lowered`).
- `::send` is called on a blocking socket with flags 0 and no time limit
  (`tcp_connection.cpp:65`): a client that stays and does not read holds its
  worker and its session for ever (`Blocked`), and a client that has gone may end
  the whole process by SIGPIPE (`killed`).
- `receive` returns "" for an empty frame and for a closed connection alike. The
  worker of the model takes both for the end; a caller that passed the former to
  `handleRequest` would answer it with an error. A worker that outlives the Server uses a destroyed
  engine: `shutdown` drops the sessions, not the references of the workers.
- A NULL compared with the key is an exception for an index scan and no row for
  a sequential one, as is a constant that folding turns into NULL (`1/0`); an
  OFFSET without LIMIT returns nothing, or the rest when it is pushed into a
  scan (`Disputed`). `ORDER BY` is bound to the columns of the table and
  evaluated on those of the projection. The executor's AND is NULL when a side
  is NULL, the folding's may be FALSE (`PredicateKept` is stated where the
  query's predicate is TRUE or FALSE). The comment of `foldExpression` that
  "NULL AND false" folds to false holds only if the other side is no constant.
- A prepared plan keeps the column indexes of its table; after DROP and CREATE
  it runs on the new table with the old ones.
- The key of the right side of a hash join keeps its index in the combined
  schema and is evaluated on the right schema alone; this is why joins are left
  out.

## Proofs

The theorems hold for every value of the constants that satisfies the named
assumption of the module, that is, for any number of transactions, records,
frames, pages, guards, slots, tuples and log records, where the runs have two
or three of each. The inductive invariants are defined next to the properties
in the modules of the model, and TLC has checked each of them on the run's
instance.

**LockManagerProofs** (from `ConstantsAssumption`: `NoTxn` is no transaction;
`Upgraders` and `Wounded` are sets of transactions). `LockTableInvariant`
(`[]Invariant`), and from it `MutualExclusionAlways`, `LockSetsAgree` and
`NothingLeftBehind`. `MutualExclusion` is not inductive: it speaks of the lock
sets, while grants look at the queue. `Invariant` adds that each queue holds at
most one request per transaction and that a granted exclusive request is first
and the only granted one (`WellFormedQueue`), that granted requests and lock
sets say the same (`LockSetsMatchQueue`), that pending requests and blocked
calls correspond (`WaitersMatchQueue`), and that an upgrading flag has a waiting
owner (`UpgradeFlagOwned`). The lemmas come in three layers: what the operations
on a queue return, a frame rule for a step that changes one queue and one
transaction (`QueueStep`), and one lemma per kind of step.

**MvccManagerProofs** (`ConstantsAssumption`: the bounds are numbers, `NoValue`
is no value). `ChainsSound` (`[]ChainInvariant`), then `SingleWriterAlways`,
`ChainLinkedAlways`, and the action properties `CommittedDurableAlways` and
`LaterWritersInvisibleAlways`. The two invariants
are not inductive: nothing in them keeps an abort from finding committed
versions of its transaction in the middle of a chain. `ChainInvariant` adds
that committed versions belong to transactions that committed
(`CommittedByFinished`), and that ids are drawn in order (`IdsFresh`), so that
no such transaction begins again. With it the versions of an aborting transaction are a
prefix of every chain, so that what `abort` keeps is a suffix (`PickSuffix`),
and the stamp it takes back is the one it set. For the readers: a step of `u`
changes only versions of `u` and the end stamp of the version below them, and
neither is what decides for a reader that began before `u`.

**BufferPoolProofs** (`PoolAssumption`). `PoolSound` (`[]PoolInvariant`), then
`PinsMatchGuardsAlways`, `EvictableWhenUnpinnedAlways`,
`CleanMatchesDiskAlways`, `VictimIsOldestAlways` and `NoLostWriteAlways`.
`PoolInvariant` ties five things together that change one after the other
inside a call: page table and frames, pins and guards, the replacer's set, its
size and its histories, the cached pages and the page count, and clean frames
and the file. The actions are cut into the pieces of `findFreeFrame`,
`fetchPage` and `newPage` that succeed or fail on their own, each with a lemma
on what it leaves. The pass of `evict()` over the candidates is a fold by a
recursive function; that its result beats every candidate (`VictimIsOldest`)
is an induction over the candidates seen. `NoLostWriteAlways` has a
hypothesis, `Failing \/ 0 \notin Writable`: with a working file it excludes
callers that write page 0 through the pool, since a flush of a stale page 0
takes back the page count and a restart then hides pages, which is the
project's finding (`catalog_page_count`). With a failing file every restart is
already excepted by the property (`LossyRestart`). The extra invariant is
`CountOnFile`.
The lemmas speak of the pages whose writers mark what they write (`Marked`).
In this module these are all pages; for the catalog they are all but page 0,
which a save that overflows changes without marking it.

**CatalogProofs** (`CatalogAssumption`). `CatalogSound` (`[]CatalogInvariant`),
then `IdsUniqueAlways`, `RootsOwnedAlways` and the action property
`CatalogSurvivesAlways`, for any number of tables, frames, pages and other
guards. The lemmas of BufferPoolProofs are taken over through `INSTANCE` (`BP`):
the pool keeps its invariant for the pages other than 0, and of page 0 they say
which copies a reader may still be shown until it is written again (`Copies`:
the cached one, and that of the file if the cached one may be dropped without
being written).
Only `saveToDisk` makes new copies; evictions and flushes move them, and
allocations of others change no more than their count. `CopiesSound` says of
each of them what `loadFromDisk` relies on: it gives no id again that the last
successful save has, it is this save unless a later one overflowed, its roots
are owned, and its count of pages is not ahead of the file's. `CallSound` says
that between two calls of createTable the root page in hand belongs to no table.

**SlottedPageProofs** (`LayoutAssumption`: the sizes are numbers, the header
fits into the body, tuples are non-empty sequences of bytes). `PageSound`
(`[]PageInvariant`), then `LayoutAlways`, the action property
`CompactReclaimsAlways`, and the refinement `ImplementsRecordsAlways`: every
step of the page is a step of RecordPage, or changes no record, under
`records <- Contents`. The three operations that store a tuple are one step
with different slots (`PutStep`). For `compact` the offset that the code
accumulates, the recursive function `PackedOffset`, is shown to be the size of
the body minus the number of bytes of the live tuples up to that slot; moved
tuples then neither overlap nor reach into the directory, and the bytes they
are copied from are those of the old page.

**RecoveryProofs** (`RecoveryAssumption`: `NoTuple` is no tuple, the bounds are
numbers). `LogSound` (`[]LogInvariant`) and `FinishedOnDiskAlways` hold over
any number of crashes, recoveries and resumed work. `FinishedOnDisk` says that
flush persists what it claims to, in order, and that no transaction whose end is
on disk has lost a record to a crash. `LogInvariant` adds that nothing is
appended after a COMMIT or ABORT and that one that still runs has lost nothing
(`LogInOrder`). `RecoverySound` (`[]RecoveryInvariant`) and
`RecoveredStateAlways` are about the first life of a database, until
transactions run again after a crash, with any number of crashes in recovery,
pages written in any order with the log, and pages of any size. Like the
property they except pages that were ahead of the log at a crash (`Followed`),
old tuples that a full page refused (`Refused`), pages that were evicted and read
again during recovery (`reread`) and what follows a resumption (`resumed`). The
argument:

- while transactions run, the log is whole (`LogWhole`): LSNs have no gaps, a
  change records as old what the records before it left in the slot
  (`SlotAfter`) and finds room for what it stores (`RoomAfter`), a slot passes to
  another transaction only after the one before it finished, and BEGIN comes
  before COMMIT and ABORT. Cached pages hold every logged change, pages on disk
  the changes up to their stamp (`PoolWhole`, `DiskWhole`);
- a crash leaves a prefix of a whole log, which is whole; a page whose stamp lies
  beyond it is no longer followed. `analyze` finds exactly the transactions with
  changes that did not finish (`AnalyzedIs`);
- after redo has looked at the records before `pos`, a page holds the changes
  up to `pos - 1` or its stamp, whichever is later, and has the room these left
  (`RedoneSoFar`): redo repeats on a page what happened on it, and is never
  refused;
- after undo has looked at the records after `pos`, a slot holds the last of
  the changes that are not after `pos` or are of finished transactions, unless
  the page is full and undo has tried to put back a tuple there that it had no
  room for (`UndoneSoFar`). A change that undo takes back is the last of these,
  because a finished transaction would have had to wait for its owner
  (`TakenBack`).

`Refused` is read off the log alone: an old tuple is refused when the old tuples
that undo puts back on its page before it (`PutBacks`) have taken all the room
the log left there. The proof shows that this is an upper bound: undo takes no
more room than that, so that on a page with room for all of them every slot is
restored. What unfinished transactions inserted is removed in any case, since a
delete takes no room. `Room` may be any number, and within the bounds of the run
pages do refuse: without the exception TLC finds `RecoveredState` violated.

**StatementsProofs** (`StatementsAssumption`: keys are numbers, `NoKey` and
`Throws` are none, `NoTxn` is no transaction, statements have one of the forms
of `StatementForm`, the bounds are numbers). `StatementsSound`
(`[]StatementsInvariant`), then `CommittedIsLoggedAlways`,
`ReadsCommittedAlways`, `ScanCompleteAlways` and `LookupCompleteAlways`, for any
number of sessions, rows, keys and statements, with every call of an executor a
step of its own. The two managers are not proved about again: the lemmas and
invariants of LockManagerProofs and MvccManagerProofs are taken over through
`INSTANCE` (`LP`, `MP`), so that `Locks!Invariant` and `Mvcc!ChainInvariant` are
conjuncts of the invariant. The rest of it:

- a record belongs to the transaction that inserted it (`RowsOwned`): since
  executors lock a row before they write a version and nothing releases the
  lock, all its versions are of one transaction. A statement that runs into a
  row of a transaction that has finished therefore waits for ever, and what has
  been committed stays as it is (`BaseSound`). `ScanComplete` and
  `LookupComplete` hold because of this. If locks were released at the end of a
  transaction, they would have to be proved from the version chains;
- what a session knows between two calls: where its transaction is
  (`PlaceSound`), of the row in hand whether it is in the heap, has a version, is
  deleted (`RowSound`), whether it has the lock or sleeps for it (`LockSound`),
  that its iterator stays inside the heap (`ScanSound`), and that the rows a
  select still owes its caller lie ahead of the iterator (`SelectSound`);
- every version has a log record, or its session is between the two
  (`VersionsLogged`); a live key that no other row has ever had leads to its
  record, or the session of that row is about to enter it (`IndexSound`).

The steps of a session are separated from those of the others by a guarantee
(`Guarantee`): a step of another session may append rows to the heap and change
the versions of rows of its own transaction, and nothing else that a session
relies on. One lemma per action shows the invariant for the session that moves
and the guarantee; that the sessions that stand by keep what they know is shown
once, from the guarantee (`StandsBy`).

**TableHeapProofs** (from `HeapAssumption`: tuples are sizes in bytes, slots
take some bytes, `NoPage` is no page and `RawPage` no slotted page).
`HeapSound` (`[]HeapInvariant`), and from it `StoredReadableAlways`,
`ChainSoundAlways`, `ScanCompleteAlways` and `CountsExactAlways`. None of the
four is inductive:

- `ChainSound` does not keep a growth from closing a cycle. `PagesChained` says
  that page ids grow along the list, so that the list is as long as `Path` can
  count and a page appended to it is new (`PathFound`, `ListLength`). With it,
  a step changes the disk in one of three ways: not at all, one page of the list
  and not its links (`PageRewritten`), or the last page's link and the page it
  leads to (`PageAppended`, also for the raw page of a growth that failed).
- `StoredReadable` does not say that a tuple's page is reached. `PagesChained`
  puts every page with a slot on the list, and bounds its slots by the bytes in
  use, so that `CountsExact` counts a finite set.
- `ScanComplete` says nothing about a scan under way but of the tuple in hand.
  `ScansSound` says where the tuples lie that an iterator still owes: behind its
  slot in its copy of the page, or on a later page, to which the copy must then
  have a link, and this link is that of the page on disk. What it has returned
  lies at its slot or before it, on its page or an earlier one, so that it
  returns no place again. Tuples that are
  inserted leave all this as it is (`Kept`, `ScansKept`), a delete takes its
  tuple from what is owed, and `operator++` passes none (`StandsAhead`).

Induction: the library's induction theorems cannot be used with these provers,
but the least-number principle (`LeastNumber`, from well-foundedness of the
natural numbers) can, and replaces them: one looks at the least counterexample.
The modules that need it each begin with it, and with what they use of `Pick`.
A recursive function is described by a function that satisfies its equation
(`PackedOffset`, the fold in `evict`).

Only model-checked: liveness under fairness (`WaiterReturns`, `StatementEnds`,
`RequestAnswered`), which is out of the prover's reach; Optimizer, whose
operators on expressions and plans are RECURSIVE; the tree-shaped invariants
and the refinement of BPlusTree, and `AnswersInOrder` of Server, which have no
proof yet.

## Not modelled

- Byte formats (serializer, log records, metadata, wire messages) except where
  the layout is the point (slotted page, frames).
- Parser, binder, statistics, cost model, prepared statements, printing and
  meta commands: stateless translations, single passes, or input and output.
- Joins, aggregation and having: see the last known weakness for joins; the
  planner tells aggregates apart by their type alone, so that the meaning of a
  query with two of a type is not the code's.
- The index of several leaves under concurrent statements: the executors open it
  at a root that the catalog never updates.
- Reads of pages that are no heap pages: createTable makes raw root pages, and
  what follows depends on the bytes of the metadata page.
- Data races: sessions share one engine without a latch, and
  `Transaction::state_` is a plain field. Each call is one step.
- Failing fetches inside the B+ tree: the code ignores several of them.
- Vendored code (GoogleTest, twice), build trees, tests and helper scripts. They
  are four fifths of the lines of the repository; of the engine's own lines the
  modules cover about a third.

## Plan

The modules of the engine's state are complete; what is left is proof:

1. `PointersAgree` for BPlusTree, for trees of any height.
2. `AnswersInOrder` for Server.
