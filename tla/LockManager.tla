---------------------------- MODULE LockManager ----------------------------
(***************************************************************************)
(* The tuple lock table of HamDB (src/transaction/lock_manager.cpp): one   *)
(* FIFO request queue per record, shared and exclusive requests, upgrades, *)
(* and waiters parked on the queue's condition variable.                   *)
(*                                                                         *)
(* A member of Txn is a client thread together with its current            *)
(* transaction.  A latched section runs in one step, from taking latch_ to *)
(* the wait or the return.  A blocked call is either asleep in cv.wait or  *)
(* awake, that is, notified and about to evaluate its predicate under the  *)
(* latch.  Calls that return at once without changing anything (the lock   *)
(* is already held, the transaction is already aborted) are stuttering     *)
(* steps.                                                                  *)
(***************************************************************************)
EXTENDS Naturals, Sequences

CONSTANTS
    Txn,            \* client threads, each running one transaction at a time
    RID,            \* record identifiers that are locked
    NoTxn,          \* "no transaction is upgrading"
    Upgraders,      \* the transactions whose clients call lockUpgrade
    Wounded         \* the transactions another thread may set to ABORTED

ASSUME ConstantsAssumption ==
    /\ NoTxn \notin Txn
    /\ Upgraders \subseteq Txn
    /\ Wounded \subseteq Txn

VARIABLES
    queue,          \* lock_table_[rid].request_queue
    upgrading,      \* lock_table_[rid].upgrading and .upgrading_txn
    shared,         \* txn->shared_lock_set_
    exclusive,      \* txn->exclusive_lock_set_
    state,          \* txn->state_
    call            \* the call the client thread is blocked in, if any

vars == <<queue, upgrading, shared, exclusive, state, call>>

-----------------------------------------------------------------------------
(* Types. *)

LockMode == {"SHARED", "EXCLUSIVE"}

LockRequest == [txn : Txn, mode : LockMode, granted : BOOLEAN]

Idle == [op |-> "none"]

Releasing == [op |-> "releaseAll"]

Blocked == [op : {"lockShared", "lockExclusive", "lockUpgrade"}, rid : RID,
            awake : BOOLEAN]

TypeOK ==
    /\ queue \in [RID -> Seq(LockRequest)]
    /\ upgrading \in [RID -> Txn \cup {NoTxn}]
    /\ shared \in [Txn -> SUBSET RID]
    /\ exclusive \in [Txn -> SUBSET RID]
    /\ state \in [Txn -> {"ACTIVE", "ABORTED"}]
    /\ call \in [Txn -> Blocked \cup {Idle, Releasing}]

-----------------------------------------------------------------------------
(* The request queue. *)

Waiting(t) == call[t] \in Blocked

\* Position of the first request of t; the loops of grantLock and
\* removeRequest and the find_if of lockUpgrade stop there.
IndexOf(q, t) ==
    CHOOSE i \in 1 .. Len(q) :
        /\ q[i].txn = t
        /\ \A j \in 1 .. (i - 1) : q[j].txn # t

HasRequest(q, t) == \E i \in 1 .. Len(q) : q[i].txn = t

\* t has a granted, respectively a pending, request in mode m.
Holds(q, t, m) ==
    \E i \in 1 .. Len(q) : q[i].txn = t /\ q[i].mode = m /\ q[i].granted

Waits(q, t, m) ==
    \E i \in 1 .. Len(q) : q[i].txn = t /\ q[i].mode = m /\ ~q[i].granted

ModeOf(op) == IF op = "lockShared" THEN "SHARED" ELSE "EXCLUSIVE"

\* Mutant of CanGrantShared: the exclusive requests ahead are ignored.
CanGrantSharedIgnoringExclusive(q, up, t) ==
    /\ up \in {NoTxn, t}
    /\ HasRequest(q, t)

\* A shared request is granted when nobody else is upgrading and no exclusive
\* request, granted or not, is queued before it.
CanGrantShared(q, up, t) ==
    /\ up \in {NoTxn, t}
    /\ HasRequest(q, t)
    /\ \A j \in 1 .. (IndexOf(q, t) - 1) : q[j].mode # "EXCLUSIVE"

\* Mutant of CanGrantExclusive: the granted requests of others are ignored.
CanGrantExclusiveFrontOnly(q, t) ==
    Len(q) > 0 /\ q[1].txn = t

\* An exclusive request is granted when no other request is granted and it is
\* the first of the queue.
CanGrantExclusive(q, t) ==
    /\ \A i \in 1 .. Len(q) : q[i].txn # t => ~q[i].granted
    /\ Len(q) > 0 /\ q[1].txn = t

\* A new request goes to the back of the queue, not granted.
EmplaceBack(q, t, m) == Append(q, [txn |-> t, mode |-> m, granted |-> FALSE])

CanGrant(op, q, up, t) ==
    IF op = "lockShared" THEN CanGrantShared(q, up, t) ELSE CanGrantExclusive(q, t)

GrantLock(q, t) ==
    IF HasRequest(q, t) THEN [q EXCEPT ![IndexOf(q, t)].granted = TRUE] ELSE q

\* lockUpgrade makes the request of t exclusive and pending, at its place.
Reopen(q, t) ==
    IF HasRequest(q, t)
    THEN [q EXCEPT ![IndexOf(q, t)] = [@ EXCEPT !.mode = "EXCLUSIVE", !.granted = FALSE]]
    ELSE q

RemoveAtIndex(q, i) ==
    [j \in 1 .. (Len(q) - 1) |-> IF j < i THEN q[j] ELSE q[j + 1]]

RemoveRequest(q, t) ==
    IF HasRequest(q, t) THEN RemoveAtIndex(q, IndexOf(q, t)) ELSE q

\* queue.cv.notify_all(): every call asleep on the record becomes awake.
NotifyAll(c, r) ==
    [t \in Txn |->
        IF c[t] \in Blocked /\ c[t].rid = r THEN [c[t] EXCEPT !.awake = TRUE] ELSE c[t]]

-----------------------------------------------------------------------------
Init ==
    /\ queue = [r \in RID |-> <<>>]
    /\ upgrading = [r \in RID |-> NoTxn]
    /\ shared = [t \in Txn |-> {}]
    /\ exclusive = [t \in Txn |-> {}]
    /\ state = [t \in Txn |-> "ACTIVE"]
    /\ call = [t \in Txn |-> Idle]

\* What a call does under the latch once its predicate holds: grantLock and
\* the transaction's lock sets (an upgraded record leaves the shared one).
Granted(t, op, r, q) ==
    /\ queue' = [queue EXCEPT ![r] = GrantLock(q, t)]
    /\ shared' = [shared EXCEPT ![t] = IF op = "lockShared" THEN @ \cup {r} ELSE @ \ {r}]
    /\ exclusive' = [exclusive EXCEPT ![t] = IF op = "lockShared" THEN @ ELSE @ \cup {r}]
    /\ call' = [call EXCEPT ![t] = Idle]

Asleep(op, r) == [op |-> op, rid |-> r, awake |-> FALSE]

\* lockShared and lockExclusive up to the return or the wait: enqueue, then
\* evaluate the predicate for the first time.
Enqueue(t, r, op) ==
    LET q == EmplaceBack(queue[r], t, ModeOf(op))
    IN  \/ /\ CanGrant(op, q, upgrading[r], t)
           /\ Granted(t, op, r, q)
           /\ UNCHANGED <<upgrading, state>>
        \/ /\ ~CanGrant(op, q, upgrading[r], t)
           /\ queue' = [queue EXCEPT ![r] = q]
           /\ call' = [call EXCEPT ![t] = Asleep(op, r)]
           /\ UNCHANGED <<upgrading, shared, exclusive, state>>

LockShared(t, r) ==
    /\ call[t] = Idle
    /\ state[t] = "ACTIVE"
    /\ r \notin shared[t] \cup exclusive[t]
    /\ Enqueue(t, r, "lockShared")

\* The lock functions abort their own transaction on a protocol error: an
\* exclusive request while holding the shared lock, an upgrade without it, or
\* an upgrade while another one is pending.
SelfAbort(t) ==
    /\ state' = [state EXCEPT ![t] = "ABORTED"]
    /\ UNCHANGED <<queue, upgrading, shared, exclusive, call>>

LockExclusive(t, r) ==
    /\ call[t] = Idle
    /\ state[t] = "ACTIVE"
    /\ r \notin exclusive[t]
    /\ \/ r \in shared[t] /\ SelfAbort(t)
       \/ r \notin shared[t] /\ Enqueue(t, r, "lockExclusive")

\* The granted shared request becomes an ungranted exclusive one in place, the
\* record leaves the shared lock set, and the call waits for its turn.
BeginUpgrade(t, r) ==
    LET q == Reopen(queue[r], t)
    IN  \/ /\ CanGrantExclusive(q, t)
           /\ Granted(t, "lockUpgrade", r, q)
           /\ UNCHANGED <<upgrading, state>>
        \/ /\ ~CanGrantExclusive(q, t)
           /\ queue' = [queue EXCEPT ![r] = q]
           /\ shared' = [shared EXCEPT ![t] = @ \ {r}]
           /\ upgrading' = [upgrading EXCEPT ![r] = t]
           /\ call' = [call EXCEPT ![t] = Asleep("lockUpgrade", r)]
           /\ UNCHANGED <<exclusive, state>>

LockUpgrade(t, r) ==
    /\ t \in Upgraders
    /\ call[t] = Idle
    /\ state[t] = "ACTIVE"
    /\ \/ (r \notin shared[t] \/ upgrading[r] # NoTxn) /\ SelfAbort(t)
       \/ r \in shared[t] /\ upgrading[r] = NoTxn /\ BeginUpgrade(t, r)

\* A condition variable may wake a waiter that nobody notified.
SpuriousWakeup(t) ==
    /\ Waiting(t) /\ ~call[t].awake
    /\ call' = [call EXCEPT ![t].awake = TRUE]
    /\ UNCHANGED <<queue, upgrading, shared, exclusive, state>>

ClearUpgrade(op, r) ==
    IF op = "lockUpgrade" THEN [upgrading EXCEPT ![r] = NoTxn] ELSE upgrading

\* Mutant of Withdraw: removeRequest is missing.
WithdrawKeepsRequest(t, op, r) ==
    /\ upgrading' = ClearUpgrade(op, r)
    /\ call' = NotifyAll([call EXCEPT ![t] = Idle], r)
    /\ UNCHANGED <<queue, shared, exclusive, state>>

\* An aborted waiter withdraws its request, wakes the others and returns false.
Withdraw(t, op, r) ==
    /\ queue' = [queue EXCEPT ![r] = RemoveRequest(@, t)]
    /\ upgrading' = ClearUpgrade(op, r)
    /\ call' = NotifyAll([call EXCEPT ![t] = Idle], r)
    /\ UNCHANGED <<shared, exclusive, state>>

\* An awake waiter takes the latch again and evaluates the wait predicate.
Resume(t) ==
    /\ Waiting(t) /\ call[t].awake
    /\ LET op == call[t].op
           r  == call[t].rid
           ok == CanGrant(op, queue[r], upgrading[r], t)
       IN  \/ state[t] = "ABORTED" /\ Withdraw(t, op, r)
           \/ /\ state[t] = "ACTIVE" /\ ok
              /\ Granted(t, op, r, queue[r])
              /\ upgrading' = ClearUpgrade(op, r)
              /\ UNCHANGED state
           \/ /\ state[t] = "ACTIVE" /\ ~ok
              /\ call' = [call EXCEPT ![t].awake = FALSE]
              /\ UNCHANGED <<queue, upgrading, shared, exclusive, state>>

\* Mutant of Release: notify_all is missing.
ReleaseWithoutNotify(t, r) ==
    /\ queue' = [queue EXCEPT ![r] = RemoveRequest(@, t)]
    /\ shared' = [shared EXCEPT ![t] = @ \ {r}]
    /\ exclusive' = [exclusive EXCEPT ![t] = @ \ {r}]
    /\ UNCHANGED <<upgrading, state, call>>

\* Mutant of Release: the shared lock set is not updated.
ReleaseKeepsLockSet(t, r) ==
    /\ queue' = [queue EXCEPT ![r] = RemoveRequest(@, t)]
    /\ exclusive' = [exclusive EXCEPT ![t] = @ \ {r}]
    /\ call' = NotifyAll(call, r)
    /\ UNCHANGED <<upgrading, state, shared>>

\* The body of unlock once the lock is known to be held.
Release(t, r) ==
    /\ queue' = [queue EXCEPT ![r] = RemoveRequest(@, t)]
    /\ shared' = [shared EXCEPT ![t] = @ \ {r}]
    /\ exclusive' = [exclusive EXCEPT ![t] = @ \ {r}]
    /\ call' = NotifyAll(call, r)
    /\ UNCHANGED <<upgrading, state>>

Unlock(t, r) ==
    /\ call[t] = Idle
    /\ r \in shared[t] \cup exclusive[t]
    /\ Release(t, r)

\* releaseAll takes the latch once per lock: first the shared, then the
\* exclusive ones.
BeginReleaseAll(t) ==
    /\ call[t] = Idle
    /\ shared[t] \cup exclusive[t] # {} \/ state[t] = "ABORTED"
    /\ call' = [call EXCEPT ![t] = Releasing]
    /\ UNCHANGED <<queue, upgrading, shared, exclusive, state>>

ReleaseOne(t, r) ==
    /\ call[t] = Releasing
    /\ r \in (IF shared[t] # {} THEN shared[t] ELSE exclusive[t])
    /\ Release(t, r)

\* The transaction is over; the thread's next one has a fresh id, which no
\* queue mentions (FinishedLeavesNoRequest), so it can bear the same name.
EndReleaseAll(t) ==
    /\ call[t] = Releasing
    /\ shared[t] = {} /\ exclusive[t] = {}
    /\ state' = [state EXCEPT ![t] = "ACTIVE"]
    /\ call' = [call EXCEPT ![t] = Idle]
    /\ UNCHANGED <<queue, upgrading, shared, exclusive>>

\* Another thread calls setState(ABORTED); nothing notifies the waiter.  A
\* wound that lands between two reads of state_ in one call has the effect of
\* one that lands before or after the call.
Wound(t) ==
    /\ t \in Wounded
    /\ state[t] = "ACTIVE" /\ call[t] # Releasing
    /\ state' = [state EXCEPT ![t] = "ABORTED"]
    /\ UNCHANGED <<queue, upgrading, shared, exclusive, call>>

ReleaseSome(t) == \E r \in RID : ReleaseOne(t, r)

Next ==
    \E t \in Txn :
        \/ \E r \in RID :
              \/ LockShared(t, r)
              \/ LockExclusive(t, r)
              \/ LockUpgrade(t, r)
              \/ Unlock(t, r)
        \/ SpuriousWakeup(t)
        \/ Resume(t)
        \/ BeginReleaseAll(t)
        \/ ReleaseSome(t)
        \/ EndReleaseAll(t)
        \/ Wound(t)

Spec == Init /\ [][Next]_vars

\* A notified thread is scheduled, and every client that is not blocked ends
\* its transaction by releaseAll.  Nothing obliges a client to lock, to unlock
\* early or to wound, nor the condition variable to wake anybody unasked.
Fairness ==
    \A t \in Txn :
        /\ WF_vars(Resume(t))
        /\ WF_vars(BeginReleaseAll(t))
        /\ WF_vars(ReleaseSome(t))
        /\ WF_vars(EndReleaseAll(t))

FairSpec == Spec /\ Fairness

-----------------------------------------------------------------------------
(* Properties. *)

\* While a transaction has a record in its exclusive lock set, no other
\* transaction has it in either lock set, whatever the interleaving of grants,
\* upgrades, wake-ups and aborts (canGrantShared, canGrantExclusive).
MutualExclusion ==
    \A t, u \in Txn :
        t # u => exclusive[t] \cap (shared[u] \cup exclusive[u]) = {}

\* The two records of who holds what agree: a record is in a lock set of t
\* exactly when the queue has a granted request of t in that mode.  releaseAll
\* walks the sets and canGrant* the queue, so a difference leaks a lock.
LockSetsMatchQueue ==
    \A t \in Txn, r \in RID :
        /\ r \in shared[t] <=> Holds(queue[r], t, "SHARED")
        /\ r \in exclusive[t] <=> Holds(queue[r], t, "EXCLUSIVE")

\* The upgrading flag of a record is owned by a call that is still waiting for
\* that upgrade; a stale flag would shut out every later shared request.
UpgradeFlagOwned ==
    \A r \in RID :
        upgrading[r] # NoTxn =>
            LET c == call[upgrading[r]]
            IN  c \in Blocked /\ c.op = "lockUpgrade" /\ c.rid = r

\* A transaction that holds nothing and waits for nothing has no request left
\* in any queue: a forgotten one would block the record for ever.
FinishedLeavesNoRequest ==
    \A t \in Txn, r \in RID :
        /\ ~Waiting(t)
        /\ r \notin shared[t] \cup exclusive[t]
        => ~HasRequest(queue[r], t)

\* Ungranted requests and blocked calls correspond one to one: a request
\* nobody waits for would never be granted and would block the queue.
WaitersMatchQueue ==
    \A t \in Txn, r \in RID, m \in LockMode :
        Waits(queue[r], t, m)
            <=> Waiting(t) /\ call[t].rid = r /\ m = ModeOf(call[t].op)

\* A queue holds at most one request per transaction, and a granted exclusive
\* request is the first of its queue and the only granted one.
WellFormedQueue(q) ==
    /\ \A i, j \in 1 .. Len(q) : q[i].txn = q[j].txn => i = j
    /\ \A i, j \in 1 .. Len(q) :
          q[i].granted /\ q[i].mode = "EXCLUSIVE" /\ q[j].granted => i = 1 /\ j = 1

\* The inductive invariant of the lock table: what every latched section of
\* lock_manager.cpp relies on and re-establishes.
Invariant ==
    /\ TypeOK
    /\ \A r \in RID : WellFormedQueue(queue[r])
    /\ LockSetsMatchQueue
    /\ WaitersMatchQueue
    /\ UpgradeFlagOwned

\* A shared request waits ahead of a pending upgrade of the record.  The
\* upgrade needs the head of the queue, and the request is refused as long as
\* the upgrade is pending: the two wait for each other for ever.
UpgradeStuck(r) ==
    \E i, j \in 1 .. Len(queue[r]) :
        /\ i < j /\ queue[r][j].txn = upgrading[r]
        /\ queue[r][i].mode = "SHARED" /\ ~queue[r][i].granted

\* Every blocked call returns, granted or aborted, when every client ends its
\* transactions, unless its record is caught in that one upgrade deadlock: no
\* wake-up of notify_all is lost, and no other queue stops moving.
WaiterReturns ==
    \A t \in Txn : Waiting(t) ~> (~Waiting(t) \/ UpgradeStuck(call[t].rid))
=============================================================================
