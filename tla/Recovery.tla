------------------------------ MODULE Recovery ------------------------------
(***************************************************************************)
(* The write-ahead log and crash recovery: LogManager and RecoveryManager  *)
(* (src/src/wal), and the operations of SlottedPage that recovery uses.    *)
(*                                                                         *)
(* No code in src/ drives recovery yet; its callers are modelled from the  *)
(* tests of RecoveryManager.  They log BEGIN, changes and COMMIT or ABORT, *)
(* stamp a changed page with the LSN of the change, and hold a record      *)
(* exclusively until they finish (the lock manager's rule).  Nothing ties  *)
(* the pages to the log: a dirty page reaches the disk at any moment,      *)
(* before its log records or after them.  A crash loses the cached pages   *)
(* and the unflushed log; the "simulated disk" of LogManager survives it.  *)
(*                                                                         *)
(* A page is its page_lsn, its slots and the room left in its tuple area,  *)
(* counted in tuples: inserts and updates consume room, deletes free none. *)
(* A slot beyond the directory and a deleted slot both read as NoTuple.    *)
(***************************************************************************)
EXTENDS Integers, Sequences, FiniteSets, Subsequences

CONSTANTS
    Txn, Page, Slot,
    Tuple,          \* tuple payloads
    NoTuple,        \* an empty slot
    Room,           \* tuples that fit into a page's tuple area
    MaxLSN          \* bound on the LSNs drawn

ASSUME RecoveryAssumption ==
    /\ NoTuple \notin Tuple
    /\ Room \in Nat /\ MaxLSN \in Nat

VARIABLES
    next_lsn, persistent_lsn,   \* LogManager
    log_buffer, disk_log,       \* log_buffer_ and disk_log_buffer_
    status,                     \* the life of each transaction
    pool,                       \* the page images callers of the buffer pool see
    dirty,                      \* the pages whose frames are dirty
    disk,                       \* the page images on disk
    phase,                      \* what the process is doing
    pos,                        \* the log record recovery looks at next
    active_txns,                \* RecoveryManager::active_txns_
    resumed,                    \* history: transactions ran after a recovery
    reread,                     \* history: the pages that were evicted and read
                                \* again since the last crash
    lost                        \* history: the LSN and the transaction of the
                                \* records that were in the buffer at a crash

logVars == <<next_lsn, persistent_lsn, log_buffer, disk_log>>
recoveryVars == <<phase, pos, active_txns>>
history == <<resumed, reread, lost>>
vars == <<logVars, status, pool, dirty, disk, recoveryVars, history>>

-----------------------------------------------------------------------------
Change == {"INSERT", "UPDATE", "DELETE"}

\* The old and new tuple of a change; INSERT has no old one, DELETE no new one.
LogRecord ==
    [lsn : 1 .. MaxLSN, type : Change, txn : Txn, page : Page, slot : Slot,
     old : Tuple \cup {NoTuple}, new : Tuple \cup {NoTuple}]
        \cup [lsn : 1 .. MaxLSN, type : {"BEGIN", "COMMIT", "ABORT"}, txn : Txn]

PageImage == [page_lsn : 0 .. MaxLSN, slots : [Slot -> Tuple \cup {NoTuple}], room : 0 .. Room]

TypeOK ==
    /\ next_lsn \in 1 .. MaxLSN + 1
    /\ persistent_lsn \in 0 .. MaxLSN
    /\ log_buffer \in Seq(LogRecord) /\ disk_log \in Seq(LogRecord)
    /\ status \in [Txn -> {"none", "active", "finished"}]
    /\ pool \in [Page -> PageImage] /\ disk \in [Page -> PageImage]
    /\ dirty \subseteq Page
    /\ phase \in {"running", "crashed", "redo", "undo", "recovered"}
    /\ pos \in 0 .. MaxLSN + 1
    /\ active_txns \subseteq Txn
    /\ resumed \in BOOLEAN /\ reread \subseteq Page
    /\ lost \subseteq (1 .. MaxLSN) \X Txn

(***************************************************************************)
(* SlottedPage.  An operation that finds no room, or not the slot it       *)
(* expects, returns an error and leaves the page as it was.                *)
(***************************************************************************)
Put(image, s, tuple) == [image EXCEPT !.slots[s] = tuple, !.room = @ - 1]

InsertTupleAtSlot(image, s, tuple) ==
    IF image.room > 0 THEN Put(image, s, tuple) ELSE image

UpdateTuple(image, s, tuple) ==
    IF image.slots[s] # NoTuple /\ image.room > 0 THEN Put(image, s, tuple) ELSE image

DeleteTuple(image, s) == [image EXCEPT !.slots[s] = NoTuple]

\* The change a log record describes, done and taken back.
Do(image, rec) ==
    CASE rec.type = "INSERT" -> InsertTupleAtSlot(image, rec.slot, rec.new)
      [] rec.type = "UPDATE" -> UpdateTuple(image, rec.slot, rec.new)
      [] rec.type = "DELETE" -> DeleteTuple(image, rec.slot)

\* Mutant of TakeBack: an update is undone with its new image.
TakeBackNew(image, rec) ==
    CASE rec.type = "INSERT" -> DeleteTuple(image, rec.slot)
      [] rec.type = "UPDATE" -> UpdateTuple(image, rec.slot, rec.new)
      [] rec.type = "DELETE" -> InsertTupleAtSlot(image, rec.slot, rec.old)

TakeBack(image, rec) ==
    CASE rec.type = "INSERT" -> DeleteTuple(image, rec.slot)
      [] rec.type = "UPDATE" -> UpdateTuple(image, rec.slot, rec.old)
      [] rec.type = "DELETE" -> InsertTupleAtSlot(image, rec.slot, rec.old)

-----------------------------------------------------------------------------
EmptyPage == [page_lsn |-> 0, slots |-> [s \in Slot |-> NoTuple], room |-> Room]

Init ==
    /\ next_lsn = 1 /\ persistent_lsn = 0
    /\ log_buffer = <<>> /\ disk_log = <<>>
    /\ status = [t \in Txn |-> "none"]
    /\ pool = [p \in Page |-> EmptyPage] /\ disk = [p \in Page |-> EmptyPage]
    /\ dirty = {}
    /\ phase = "running" /\ pos = 0 /\ active_txns = {}
    /\ resumed = FALSE /\ reread = {} /\ lost = {}

\* LogManager::append
AppendRecord(rec) ==
    /\ next_lsn <= MaxLSN
    /\ log_buffer' = Append(log_buffer, rec)
    /\ next_lsn' = next_lsn + 1
    /\ UNCHANGED <<persistent_lsn, disk_log>>

(***************************************************************************)
(* The callers.                                                            *)
(***************************************************************************)
Mark(type, t) == [lsn |-> next_lsn, type |-> type, txn |-> t]

BeginTxn(t) ==
    /\ phase = "running"
    /\ status[t] = "none"
    /\ AppendRecord(Mark("BEGIN", t))
    /\ status' = [status EXCEPT ![t] = "active"]
    /\ UNCHANGED <<pool, dirty, disk, recoveryVars, history>>

\* The whole log in memory and on disk.
WholeLog == disk_log \o log_buffer

ChangesOf(t) ==
    {i \in 1 .. Len(WholeLog) : WholeLog[i].txn = t /\ WholeLog[i].type \in Change}

Touches(t, p, s) == \E i \in ChangesOf(t) : WholeLog[i].page = p /\ WholeLog[i].slot = s

\* The kind of change that takes a slot from one tuple to another.
ChangeType(old, new) ==
    IF old = NoTuple THEN "INSERT" ELSE IF new = NoTuple THEN "DELETE" ELSE "UPDATE"

ChangeRecord(t, p, s, new) ==
    LET old == pool[p].slots[s]
    IN  [lsn |-> next_lsn, type |-> ChangeType(old, new), txn |-> t,
         page |-> p, slot |-> s, old |-> old, new |-> new]

\* The page is changed and stamped and the record appended, in either order: a
\* crash between the two is one that comes after both and before a flush.
ChangeTuple(t, p, s, new) ==
    /\ phase = "running"
    /\ status[t] = "active"
    /\ pool[p].slots[s] # new
    /\ new # NoTuple => pool[p].room > 0
    /\ \A u \in Txn \ {t} : status[u] = "active" => ~Touches(u, p, s)
    /\ AppendRecord(ChangeRecord(t, p, s, new))
    /\ pool' = [pool EXCEPT ![p] =
                  [Do(@, ChangeRecord(t, p, s, new)) EXCEPT !.page_lsn = next_lsn]]
    /\ dirty' = dirty \cup {p}
    /\ UNCHANGED <<status, disk, recoveryVars, history>>

FinishTxn(t, type) ==
    /\ phase = "running"
    /\ status[t] = "active"
    /\ AppendRecord(Mark(type, t))
    /\ status' = [status EXCEPT ![t] = "finished"]
    /\ UNCHANGED <<pool, dirty, disk, recoveryVars, history>>

CommitTxn(t) == FinishTxn(t, "COMMIT")

\* A transaction logs ABORT once it has changed everything back: recovery
\* takes ABORT for the end of the transaction and undoes nothing of it.
AbortTxn(t) ==
    /\ \A i \in ChangesOf(t) :
          (\A j \in ChangesOf(t) : j < i =>
              <<WholeLog[j].page, WholeLog[j].slot>> # <<WholeLog[i].page, WholeLog[i].slot>>)
            => pool[WholeLog[i].page].slots[WholeLog[i].slot] = WholeLog[i].old
    /\ FinishTxn(t, "ABORT")

\* Mutant of FlushTo: the records up to lsn stay in the buffer and are lost
\* with it.
FlushToForgets(lsn) ==
    /\ persistent_lsn' = IF lsn > persistent_lsn THEN lsn ELSE persistent_lsn
    /\ UNCHANGED <<disk_log, log_buffer>>

(***************************************************************************)
(* LogManager::flush(lsn) and flushAll(), which flushes the highest LSN.   *)
(***************************************************************************)
FlushTo(lsn) ==
    /\ persistent_lsn' = IF lsn > persistent_lsn THEN lsn ELSE persistent_lsn
    /\ disk_log' = disk_log \o Pick(log_buffer, {i \in 1 .. Len(log_buffer) : log_buffer[i].lsn <= lsn})
    /\ log_buffer' = Pick(log_buffer, {i \in 1 .. Len(log_buffer) : log_buffer[i].lsn > lsn})

Flush(i) ==
    /\ phase = "running"
    /\ FlushTo(log_buffer[i].lsn)
    /\ UNCHANGED <<next_lsn, status, pool, dirty, disk, recoveryVars, history>>

\* The buffer pool writes a dirty page, whether its log records are on disk or not.
WritePage(p) ==
    /\ p \in dirty
    /\ disk' = [disk EXCEPT ![p] = pool[p]]
    /\ dirty' = dirty \ {p}
    /\ UNCHANGED <<logVars, status, pool, recoveryVars, history>>

\* The buffer pool drops a clean page and reads it again when it is needed.
EvictPage(p) ==
    /\ p \notin dirty
    /\ pool[p] # disk[p]
    /\ pool' = [pool EXCEPT ![p] = disk[p]]
    /\ reread' = reread \cup {p}
    /\ UNCHANGED <<logVars, status, dirty, disk, recoveryVars, resumed, lost>>

Crash ==
    /\ phase # "crashed"
    /\ phase' = "crashed"
    /\ log_buffer' = <<>>
    /\ pool' = disk
    /\ dirty' = {}
    /\ status' = [t \in Txn |-> IF status[t] = "active" THEN "finished" ELSE status[t]]
    /\ reread' = {}
    /\ lost' = lost \cup {<<log_buffer[i].lsn, log_buffer[i].txn>> : i \in 1 .. Len(log_buffer)}
    /\ UNCHANGED <<next_lsn, persistent_lsn, disk_log, disk, pos, active_txns, resumed>>

-----------------------------------------------------------------------------
(***************************************************************************)
(* RecoveryManager::recover, one log record a step: a crash or an eviction *)
(* may come between two records.                                           *)
(***************************************************************************)

\* analyze(): the transactions whose last BEGIN has no COMMIT or ABORT after it.
Analyzed(log) ==
    {t \in Txn : \E i \in 1 .. Len(log) :
        /\ log[i].type = "BEGIN" /\ log[i].txn = t
        /\ \A j \in i .. Len(log) : ~(log[j].type \in {"COMMIT", "ABORT"} /\ log[j].txn = t)}

Analyze ==
    /\ phase = "crashed"
    /\ active_txns' = Analyzed(disk_log)
    /\ phase' = IF disk_log = <<>> THEN "recovered" ELSE "redo"
    /\ pos' = 1
    /\ UNCHANGED <<logVars, status, pool, dirty, disk, history>>

\* redo() skips a record whose effect the page already has, and stamps the
\* page even if the slotted page refused the change.
Redone(image, rec) ==
    IF rec.type \notin Change \/ image.page_lsn >= rec.lsn THEN image
    ELSE [Do(image, rec) EXCEPT !.page_lsn = rec.lsn]

Redo ==
    /\ phase = "redo"
    /\ pos <= Len(disk_log)
    /\ pool' = IF disk_log[pos].type \in Change
               THEN [pool EXCEPT ![disk_log[pos].page] = Redone(@, disk_log[pos])] ELSE pool
    /\ pos' = pos + 1
    /\ UNCHANGED <<logVars, status, dirty, disk, phase, active_txns, history>>

RedoEnds ==
    /\ phase = "redo"
    /\ pos > Len(disk_log)
    /\ phase' = "undo"
    /\ pos' = Len(disk_log)
    /\ UNCHANGED <<logVars, status, pool, dirty, disk, active_txns, history>>

Undo ==
    /\ phase = "undo"
    /\ pos >= 1
    /\ pool' = IF disk_log[pos].txn \in active_txns /\ disk_log[pos].type \in Change
               THEN [pool EXCEPT ![disk_log[pos].page] = TakeBack(@, disk_log[pos])] ELSE pool
    /\ pos' = pos - 1
    /\ UNCHANGED <<logVars, status, dirty, disk, phase, active_txns, history>>

UndoEnds ==
    /\ phase = "undo"
    /\ pos = 0
    /\ phase' = "recovered"
    /\ UNCHANGED <<logVars, status, pool, dirty, disk, pos, active_txns, history>>

\* Transactions run again.
Resume ==
    /\ phase = "recovered"
    /\ phase' = "running"
    /\ resumed' = TRUE
    /\ UNCHANGED <<logVars, status, pool, dirty, disk, pos, active_txns, reread, lost>>

Next ==
    \/ \E t \in Txn : BeginTxn(t) \/ CommitTxn(t) \/ AbortTxn(t)
    \/ \E t \in Txn, p \in Page, s \in Slot, new \in Tuple \cup {NoTuple} : ChangeTuple(t, p, s, new)
    \/ \E i \in 1 .. Len(log_buffer) : Flush(i)
    \/ \E p \in Page : WritePage(p) \/ EvictPage(p)
    \/ Crash
    \/ Analyze \/ Redo \/ RedoEnds \/ Undo \/ UndoEnds
    \/ Resume

Spec == Init /\ [][Next]_vars

-----------------------------------------------------------------------------
(***************************************************************************)
(* Properties                                                              *)
(***************************************************************************)

\* The first k records that change slot s of page p, and what the last of some
\* of them left there.
SlotChanges(log, k, p, s) ==
    {i \in 1 .. k : log[i].type \in Change /\ log[i].page = p /\ log[i].slot = s}

LastNew(log, changes) ==
    IF changes = {} THEN NoTuple
    ELSE log[CHOOSE i \in changes : \A j \in changes : j <= i].new

\* What the first k records leave in a slot.
SlotAfter(log, k, p, s) == LastNew(log, SlotChanges(log, k, p, s))

IsFinish(rec, t) == rec.type \in {"COMMIT", "ABORT"} /\ rec.txn = t

Finished(log, t) == \E i \in 1 .. Len(log) : IsFinish(log[i], t)

\* What finished transactions left in a slot, read off the log on disk alone.
FinishedChanges(p, s) ==
    {i \in SlotChanges(disk_log, Len(disk_log), p, s) : Finished(disk_log, disk_log[i].txn)}

Expected(p, s) == LastNew(disk_log, FinishedChanges(p, s))

\* A page whose last change is in the log on disk, and that stayed in the
\* buffer pool while recovery worked on it.
Followed(p) == disk[p].page_lsn <= persistent_lsn /\ p \notin reread

\* The room the first k records leave on a page: inserts and updates take some.
Puts(log, k, p) ==
    {i \in 1 .. k : log[i].type \in Change /\ log[i].page = p /\ log[i].new # NoTuple}

RoomAfter(log, k, p) == Room - Cardinality(Puts(log, k, p))

\* The records after the first k for which undo() puts an old tuple back.
PutBacks(log, k, p) ==
    {i \in k + 1 .. Len(log) :
        /\ log[i].type \in Change /\ log[i].page = p /\ log[i].old # NoTuple
        /\ ~Finished(log, log[i].txn)}

\* undo() puts an old tuple back into the tuple area like a new one.  Those it
\* put back before have taken the room the log has left, and the page refuses.
PutBackRefused(i) ==
    LET p == disk_log[i].page
    IN  RoomAfter(disk_log, Len(disk_log), p) <= Cardinality(PutBacks(disk_log, i, p))

Refused(p, s) ==
    /\ Expected(p, s) # NoTuple
    /\ \E i \in PutBacks(disk_log, 0, p) : disk_log[i].slot = s /\ PutBackRefused(i)

Restored ==
    \A p \in Page, s \in Slot :
        Followed(p) => pool[p].slots[s] = Expected(p, s) \/ Refused(p, s)

\* When recover() returns, every slot holds what the finished transactions
\* left there and nothing of the others, whichever pages had reached the disk
\* before the crash and however often recovery itself was interrupted by
\* another crash; redo() never finds a page full.  Four things the code gets
\* wrong are left out: a page that was written before the log records of its
\* changes, an old tuple that undo() could not put back on a full page (what
\* unfinished transactions inserted goes even there), a page that leaves the
\* buffer pool after recovery changed it, and a second recovery after
\* transactions have run again.
RecoveredState == phase = "recovered" /\ ~resumed => Restored

\* No transaction whose COMMIT or ABORT is on disk has lost a record of its
\* own, whatever a crash took from the buffer: flush() moves what it claims to
\* have persisted, in LSN order and no record twice, and every LSN drawn is in
\* the log or was in the buffer at a crash (LogManager::append, flush, flushAll).
FinishedOnDisk ==
    /\ \A i \in 1 .. Len(log_buffer) : log_buffer[i].lsn > persistent_lsn
    /\ \A i, j \in 1 .. Len(WholeLog) : i < j => WholeLog[i].lsn < WholeLog[j].lsn
    /\ \A n \in 1 .. next_lsn - 1 :
          \/ \E i \in 1 .. Len(WholeLog) : WholeLog[i].lsn = n
          \/ \E t \in Txn : <<n, t>> \in lost
    /\ \A r \in lost : ~Finished(disk_log, r[2])

(***************************************************************************)
(* The inductive invariants behind the two.                                *)
(***************************************************************************)

\* LSNs are drawn in order, a transaction appends nothing after its COMMIT or
\* ABORT, and one that runs has not lost a record.
LogInOrder ==
    /\ persistent_lsn < next_lsn
    /\ \A i \in 1 .. Len(WholeLog) :
          /\ WholeLog[i].lsn < next_lsn
          /\ status[WholeLog[i].txn] # "none"
          /\ status[WholeLog[i].txn] = "active" => WholeLog[i].type \notin {"COMMIT", "ABORT"}
    /\ \A i, j \in 1 .. Len(WholeLog) : IsFinish(WholeLog[i], WholeLog[j].txn) => j <= i
    /\ \A r \in lost : status[r[2]] = "finished" /\ ~Finished(WholeLog, r[2])

\* Recovery looks at records of the log on disk.
PosInLog ==
    /\ phase = "redo" => pos \in 1 .. Len(disk_log) + 1
    /\ phase = "undo" => pos \in 0 .. Len(disk_log)

LogInvariant == TypeOK /\ FinishedOnDisk /\ LogInOrder /\ PosInLog

\* A log that was written without a crash: no LSN is missing, a change starts
\* from what the slot held and finds room, a slot passes to another transaction
\* only after the one before it finished, and a transaction begins before it
\* changes anything and before it finishes.
ChangeWhole(log, i) ==
    /\ log[i].old = SlotAfter(log, i - 1, log[i].page, log[i].slot)
    /\ log[i].old # log[i].new /\ log[i].type = ChangeType(log[i].old, log[i].new)
    /\ log[i].new # NoTuple => RoomAfter(log, i - 1, log[i].page) > 0
    /\ \E b \in 1 .. i - 1 : log[b].type = "BEGIN" /\ log[b].txn = log[i].txn
    /\ \A j \in SlotChanges(log, i - 1, log[i].page, log[i].slot) :
          log[j].txn # log[i].txn => \E f \in 1 .. i - 1 : IsFinish(log[f], log[j].txn)

LogWhole(log) ==
    /\ \A i \in 1 .. Len(log) : log[i].lsn = i
    /\ \A i \in 1 .. Len(log) : log[i].type \in Change => ChangeWhole(log, i)
    /\ \A b, f \in 1 .. Len(log) : log[b].type = "BEGIN" /\ IsFinish(log[f], log[b].txn) => b < f

\* The pages on disk before any recovery: the changes up to their stamps, as
\* far as the log goes that far.
DiskWhole ==
    \A p \in Page :
        disk[p].page_lsn <= Len(WholeLog) =>
            /\ disk[p].room = RoomAfter(WholeLog, disk[p].page_lsn, p)
            /\ \A s \in Slot : disk[p].slots[s] = SlotAfter(WholeLog, disk[p].page_lsn, p, s)

\* The process before any crash: the log tells the transactions' status, and
\* the cached pages hold every logged change.
StatusWhole ==
    \A t \in Txn :
        /\ status[t] = "none" => \A i \in 1 .. Len(WholeLog) : WholeLog[i].txn # t
        /\ status[t] = "active" =>
              /\ ~Finished(WholeLog, t)
              /\ \E b \in 1 .. Len(WholeLog) : WholeLog[b].type = "BEGIN" /\ WholeLog[b].txn = t
        /\ status[t] = "finished" => Finished(WholeLog, t)

PoolWhole ==
    \A p \in Page :
        /\ pool[p].page_lsn <= Len(WholeLog) /\ disk[p].page_lsn <= Len(WholeLog)
        /\ pool[p].room = RoomAfter(WholeLog, Len(WholeLog), p)
        /\ \A s \in Slot :
              /\ pool[p].slots[s] = SlotAfter(WholeLog, Len(WholeLog), p, s)
              /\ \A i \in SlotChanges(WholeLog, Len(WholeLog), p, s) : i <= pool[p].page_lsn
        /\ p \notin dirty => pool[p] = disk[p]

RunningWhole ==
    /\ next_lsn = Len(WholeLog) + 1
    /\ StatusWhole /\ PoolWhole

\* redo() has brought a page to the record before pos, or left it where it was
\* further on.
Reached(p) == IF disk[p].page_lsn > pos - 1 THEN disk[p].page_lsn ELSE pos - 1

RedoneSoFar ==
    /\ active_txns = Analyzed(disk_log)
    /\ \A p \in Page : Followed(p) =>
          /\ disk[p].page_lsn <= pool[p].page_lsn /\ pool[p].page_lsn <= Reached(p)
          /\ pool[p].room = RoomAfter(disk_log, Reached(p), p)
          /\ \A s \in Slot : pool[p].slots[s] = SlotAfter(disk_log, Reached(p), p, s)

\* undo() has taken back what unfinished transactions did after record pos, but
\* for the old tuples a full page had no room for.
StillDone(p, s) ==
    {i \in SlotChanges(disk_log, Len(disk_log), p, s) :
        i <= pos \/ Finished(disk_log, disk_log[i].txn)}

RefusedSoFar(p, s) ==
    /\ pool[p].room = 0 /\ LastNew(disk_log, StillDone(p, s)) # NoTuple
    /\ \E i \in PutBacks(disk_log, pos, p) : disk_log[i].slot = s /\ PutBackRefused(i)

UndoneSoFar ==
    /\ active_txns = Analyzed(disk_log)
    /\ \A p \in Page : Followed(p) =>
          /\ RoomAfter(disk_log, Len(disk_log), p)
                <= pool[p].room + Cardinality(PutBacks(disk_log, pos, p))
          /\ \A s \in Slot :
                pool[p].slots[s] = LastNew(disk_log, StillDone(p, s)) \/ RefusedSoFar(p, s)

\* The first life of the database: until transactions run again after a crash.
FirstLife ==
    ~resumed =>
        /\ persistent_lsn = Len(disk_log)
        /\ LogWhole(WholeLog) /\ DiskWhole
        /\ phase = "running" => RunningWhole
        /\ phase # "running" => log_buffer = <<>> /\ dirty = {}
        /\ phase = "crashed" => pool = disk
        /\ phase = "redo" => RedoneSoFar
        /\ phase = "undo" => UndoneSoFar
        /\ phase = "recovered" => Restored

RecoveryInvariant == LogInvariant /\ FirstLife
=============================================================================
