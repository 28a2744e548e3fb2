---------------------------- MODULE MvccManager ----------------------------
(***************************************************************************)
(* Multi-version storage of HamDB: the version chains of                   *)
(* src/transaction/mvcc_manager.cpp together with the transaction ids of   *)
(* transaction_manager.cpp.  A transaction is named by its id, which is    *)
(* also its snapshot timestamp; a commit draws one more id from the same   *)
(* counter as its commit timestamp.  Every call runs under latch_ and is   *)
(* one step.  A call that returns false changes nothing and is a           *)
(* stuttering step.  read() is the operator Read.                          *)
(***************************************************************************)
EXTENDS Naturals, Sequences, Subsequences

CONSTANTS
    RID,            \* record identifiers
    Value,          \* tuple payloads
    NoValue,        \* std::nullopt, and the empty payload of a tombstone
    MaxTxnId,       \* bound on the ids drawn from next_txn_id_
    MaxVersions     \* bound on the length of a version chain

ASSUME ConstantsAssumption ==
    /\ MaxTxnId \in Nat /\ MaxVersions \in Nat
    /\ NoValue \notin Value

VARIABLES
    chains,         \* chains_[rid], newest version first
    next_txn_id,    \* TransactionManager::next_txn_id_
    status          \* where each transaction is in its life

vars == <<chains, next_txn_id, status>>

-----------------------------------------------------------------------------
TxnId == 0 .. MaxTxnId

\* kTxnIdInfinity, above every id that is ever drawn.
Infinity == MaxTxnId + 2

TupleVersion ==
    [begin_txn_id : TxnId, end_txn_id : TxnId \cup {Infinity},
     is_committed : BOOLEAN, is_deleted : BOOLEAN, data : Value \cup {NoValue}]

\* "none": not begun, or an id used up as a commit timestamp.  "committed" and
\* "aborted": MvccManager has finished with it, TransactionManager has not.
Status == {"none", "active", "committed", "aborted", "done"}

TypeOK ==
    /\ chains \in [RID -> Seq(TupleVersion)]
    /\ next_txn_id \in 0 .. (MaxTxnId + 1)
    /\ status \in [TxnId -> Status]

NewVersion(t, v, deleted) ==
    [begin_txn_id |-> t, end_txn_id |-> Infinity, is_committed |-> FALSE,
     is_deleted |-> deleted, data |-> v]

\* Mutant of IsVisibleTo: the begin of the version is not compared.
IsVisibleToIgnoringBegin(ver, snapshot) ==
    ver.is_committed /\ snapshot < ver.end_txn_id

IsVisibleTo(ver, snapshot) ==
    /\ ver.is_committed
    /\ ver.begin_txn_id <= snapshot
    /\ snapshot < ver.end_txn_id

\* Is the version t's own uncommitted write, or visible to t's snapshot?
Readable(t, ver) ==
    \/ ~ver.is_committed /\ ver.begin_txn_id = t
    \/ IsVisibleTo(ver, t)

\* The first readable version, newest to oldest; a tombstone reads as nothing.
ReadFrom(t, chain) ==
    LET first == {i \in 1 .. Len(chain) :
                    Readable(t, chain[i]) /\ \A j \in 1 .. (i - 1) : ~Readable(t, chain[j])}
    IN  IF first = {} THEN NoValue
        ELSE LET ver == chain[CHOOSE i \in first : TRUE]
             IN  IF ver.is_deleted THEN NoValue ELSE ver.data

Read(t, r) == ReadFrom(t, chains[r])

-----------------------------------------------------------------------------
Init ==
    /\ chains = [r \in RID |-> <<>>]
    /\ next_txn_id = 0
    /\ status = [t \in TxnId |-> "none"]

\* TransactionManager::begin.
Begin(t) ==
    /\ t = next_txn_id
    /\ next_txn_id' = next_txn_id + 1
    /\ status' = [status EXCEPT ![t] = "active"]
    /\ UNCHANGED chains

\* insert fails on every live head, and starts a new chain over a tombstone,
\* whoever wrote it and whether or not it is committed.
Insert(t, r, v) ==
    /\ status[t] = "active"
    /\ chains[r] # <<>> => chains[r][1].is_deleted
    /\ chains' = [chains EXCEPT ![r] = <<NewVersion(t, v, FALSE)>>]
    /\ UNCHANGED <<next_txn_id, status>>

\* Mutant of HasWriteConflict: there is no conflict check.
HasWriteConflictNever(head, t) == FALSE

HasWriteConflict(head, t) == ~head.is_committed /\ head.begin_txn_id # t

\* Mutant of PushVersion: the replaced version is not stamped.
PushVersionUnstamped(t, r, ver) ==
    chains' = [chains EXCEPT ![r] = <<ver>> \o @]

\* update and remove stamp the head and put a new version on top of it.
PushVersion(t, r, ver) ==
    chains' = [chains EXCEPT ![r] = <<ver>> \o [@ EXCEPT ![1].end_txn_id = t]]

Write(t, r, ver) ==
    /\ status[t] = "active"
    /\ chains[r] # <<>> /\ ~chains[r][1].is_deleted
    /\ ~HasWriteConflict(chains[r][1], t)
    /\ Len(chains[r]) < MaxVersions
    /\ PushVersion(t, r, ver)
    /\ UNCHANGED <<next_txn_id, status>>

Update(t, r, v) == Write(t, r, NewVersion(t, v, FALSE))

Remove(t, r) == Write(t, r, NewVersion(t, NoValue, TRUE))

\* MvccManager::commit marks every version of t, in every chain.
Committed(chain, t) ==
    [i \in 1 .. Len(chain) |->
        IF chain[i].begin_txn_id = t
        THEN [chain[i] EXCEPT !.is_committed = TRUE] ELSE chain[i]]

MvccCommit(t) ==
    /\ status[t] = "active"
    /\ chains' = [r \in RID |-> Committed(chains[r], t)]
    /\ status' = [status EXCEPT ![t] = "committed"]
    /\ UNCHANGED next_txn_id

\* Mutant of Without: the whole chain goes with the version of t at its head.
WithoutLosesHead(chain, t) ==
    IF chain # <<>> /\ chain[1].begin_txn_id = t THEN <<>> ELSE chain

\* MvccManager::abort drops every version of t; a new head that t had stamped
\* is open again.
Without(chain, t) ==
    LET kept == Pick(chain, {i \in 1 .. Len(chain) : chain[i].begin_txn_id # t})
    IN  IF kept # <<>> /\ kept[1].end_txn_id = t
        THEN [kept EXCEPT ![1].end_txn_id = Infinity] ELSE kept

MvccAbort(t) ==
    /\ status[t] = "active"
    /\ chains' = [r \in RID |-> Without(chains[r], t)]
    /\ status' = [status EXCEPT ![t] = "aborted"]
    /\ UNCHANGED next_txn_id

\* TransactionManager::commit draws the commit timestamp from the id counter.
TxnCommit(t) ==
    /\ status[t] = "committed"
    /\ next_txn_id <= MaxTxnId
    /\ next_txn_id' = next_txn_id + 1
    /\ status' = [status EXCEPT ![t] = "done"]
    /\ UNCHANGED chains

TxnAbort(t) ==
    /\ status[t] = "aborted"
    /\ status' = [status EXCEPT ![t] = "done"]
    /\ UNCHANGED <<chains, next_txn_id>>

\* A step of transaction t inside MvccManager.
MvccStep(t) ==
    \/ \E r \in RID :
          \/ \E v \in Value : Insert(t, r, v) \/ Update(t, r, v)
          \/ Remove(t, r)
    \/ MvccCommit(t)
    \/ MvccAbort(t)

Next ==
    \E t \in TxnId : Begin(t) \/ MvccStep(t) \/ TxnCommit(t) \/ TxnAbort(t)

Spec == Init /\ [][Next]_vars

-----------------------------------------------------------------------------
(* Properties. *)

\* The uncommitted versions of a chain are its newest ones, all of one
\* transaction, and that transaction is still active: commit and abort leave
\* no version of theirs undecided, and two writers never interleave in a chain.
SingleWriter ==
    \A r \in RID : \A i \in 1 .. Len(chains[r]) :
        ~chains[r][i].is_committed =>
            /\ status[chains[r][i].begin_txn_id] = "active"
            /\ \A j \in 1 .. i :
                  /\ ~chains[r][j].is_committed
                  /\ chains[r][j].begin_txn_id = chains[r][i].begin_txn_id

\* Each version ends where the next newer one begins and the head never ends,
\* also after an abort in the middle of other transactions' updates.
ChainLinked ==
    \A r \in RID : \A i \in 1 .. Len(chains[r]) :
        chains[r][i].end_txn_id =
            (IF i = 1 THEN Infinity ELSE chains[r][i - 1].begin_txn_id)

\* Ids are handed out in order: those not drawn yet belong to nobody.
IdsFresh == \A t \in TxnId : t >= next_txn_id => status[t] = "none"

\* A committed version belongs to a transaction that has committed.
CommittedByFinished ==
    \A r \in RID : \A i \in 1 .. Len(chains[r]) :
        chains[r][i].is_committed =>
            status[chains[r][i].begin_txn_id] \in {"committed", "done"}

\* The invariant the proofs use: together the parts are inductive.
ChainInvariant ==
    TypeOK /\ SingleWriter /\ ChainLinked /\ IdsFresh /\ CommittedByFinished

\* The value of the newest committed version of a chain, and of a record.
LatestOf(chain) ==
    LET committed == {i \in 1 .. Len(chain) : chain[i].is_committed}
        newest == CHOOSE i \in committed : \A j \in committed : i <= j
    IN  IF committed = {} \/ chain[newest].is_deleted THEN NoValue
        ELSE chain[newest].data

Latest(r) == LatestOf(chains[r])

\* A step that inserts at a deleted record, which throws the old chain away.
Reinserts == \E t \in TxnId, r \in RID, v \in Value : chains[r] # <<>> /\ Insert(t, r, v)

\* Except for an insert at a deleted record, what is committed changes only by
\* a commit: no write, abort or begin adds or loses a committed value.
CommittedDurable ==
    [][ \A r \in RID : Latest(r)' # Latest(r) =>
            \/ \E t \in TxnId : status[t] = "active" /\ status'[t] = "committed"
            \/ Reinserts ]_vars

\* Except for an insert at a deleted record, what an active transaction reads
\* does not depend on transactions that began after it, whatever they write,
\* commit or abort.
LaterWritersInvisible ==
    [][ \A u \in TxnId : MvccStep(u) /\ ~Reinserts =>
            \A t \in 0 .. (u - 1), r \in RID :
                status[t] = "active" => Read(t, r)' = Read(t, r) ]_vars
=============================================================================
