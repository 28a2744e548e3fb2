------------------------- MODULE LockManagerProofs -------------------------
(***************************************************************************)
(* Proofs, for every set of transactions and of records, of the safety     *)
(* properties of LockManager.  The lemmas say what each operation on a     *)
(* request queue does to the requests that are held and that wait.  The    *)
(* preservation theorem then follows action by action.                     *)
(***************************************************************************)
EXTENDS LockManager, TLAPS

-----------------------------------------------------------------------------
(* Operations on one queue. *)

\* The search loops of lock_manager.cpp find the only request of t.
LEMMA IndexOfRequest ==
    ASSUME NEW q \in Seq(LockRequest), NEW t \in Txn,
           WellFormedQueue(q), HasRequest(q, t)
    PROVE  /\ IndexOf(q, t) \in 1 .. Len(q)
           /\ q[IndexOf(q, t)].txn = t
           /\ \A i \in 1 .. Len(q) : q[i].txn = t => i = IndexOf(q, t)
<1>1. PICK i \in 1 .. Len(q) : q[i].txn = t
      BY DEF HasRequest
<1>2. \A j \in 1 .. (i - 1) : q[j].txn # t
      BY <1>1 DEF WellFormedQueue
<1>3. /\ IndexOf(q, t) \in 1 .. Len(q)
      /\ q[IndexOf(q, t)].txn = t
      BY <1>1, <1>2 DEF IndexOf
<1> QED
      BY <1>3 DEF WellFormedQueue

\* emplace_back by a transaction with no request adds one pending request.
LEMMA AppendRequest ==
    ASSUME NEW q \in Seq(LockRequest), NEW t \in Txn, NEW m \in LockMode,
           WellFormedQueue(q), ~HasRequest(q, t)
    PROVE  /\ EmplaceBack(q, t, m) \in Seq(LockRequest)
           /\ WellFormedQueue(EmplaceBack(q, t, m))
           /\ \A u \in Txn, n \in LockMode :
                 /\ Holds(EmplaceBack(q, t, m), u, n) <=> Holds(q, u, n)
                 /\ Waits(EmplaceBack(q, t, m), u, n) <=> Waits(q, u, n) \/ (u = t /\ n = m)
<1> DEFINE req == [txn |-> t, mode |-> m, granted |-> FALSE]
<1>1. req \in LockRequest /\ req.txn = t /\ req.mode = m /\ req.granted = FALSE
      BY DEF LockRequest
<1> DEFINE p == EmplaceBack(q, t, m)
<1>2. /\ p \in Seq(LockRequest)
      /\ Len(p) = Len(q) + 1
      /\ Len(q) \in Nat
      /\ p[Len(q) + 1] = req
      /\ \A i \in 1 .. Len(q) : p[i] = q[i]
      BY <1>1 DEF EmplaceBack
<1> HIDE DEF req, p
<1>3. WellFormedQueue(p)
      BY <1>1, <1>2 DEF WellFormedQueue, HasRequest
<1>4. ASSUME NEW u \in Txn, NEW n \in LockMode
      PROVE  /\ Holds(p, u, n) <=> Holds(q, u, n)
             /\ Waits(p, u, n) <=> Waits(q, u, n) \/ (u = t /\ n = m)
  <2>1. Holds(p, u, n) <=> Holds(q, u, n)
        BY <1>1, <1>2 DEF Holds
  <2>2. Waits(p, u, n) <=> Waits(q, u, n) \/ (u = t /\ n = m)
        BY <1>1, <1>2 DEF Waits
  <2> QED  BY <2>1, <2>2
<1> QED  BY <1>2, <1>3, <1>4 DEF p

\* The queue with the request of t changed to req, at its place.
Replace(q, t, req) == [q EXCEPT ![IndexOf(q, t)] = req]

\* What makes req compatible with the other requests of the queue.
Compatible(q, t, req) ==
    req.granted =>
        /\ \A i \in 1 .. Len(q) : i < IndexOf(q, t) => q[i].mode # "EXCLUSIVE"
        /\ req.mode = "EXCLUSIVE" =>
              /\ IndexOf(q, t) = 1
              /\ \A i \in 1 .. Len(q) : q[i].txn # t => ~q[i].granted

\* Replacing the request of t changes what t holds and waits for, and nothing
\* else; a compatible replacement keeps the queue well formed.
LEMMA ReplaceRequest ==
    ASSUME NEW q \in Seq(LockRequest), NEW t \in Txn, NEW req \in LockRequest,
           WellFormedQueue(q), HasRequest(q, t), req.txn = t, Compatible(q, t, req),
           NEW p, p = Replace(q, t, req)
    PROVE  /\ p \in Seq(LockRequest)
           /\ WellFormedQueue(p)
           /\ \A u \in Txn, n \in LockMode :
                 /\ Holds(p, u, n) <=>
                       IF u = t THEN n = req.mode /\ req.granted ELSE Holds(q, u, n)
                 /\ Waits(p, u, n) <=>
                       IF u = t THEN n = req.mode /\ ~req.granted ELSE Waits(q, u, n)
<1> DEFINE k == IndexOf(q, t)
<1>1. /\ k \in 1 .. Len(q)
      /\ q[k].txn = t
      /\ \A i \in 1 .. Len(q) : q[i].txn = t => i = k
      BY IndexOfRequest
<1>2. /\ p \in Seq(LockRequest)
      /\ Len(p) = Len(q)
      /\ p[k] = req
      /\ \A i \in 1 .. Len(q) : i # k => p[i] = q[i]
      /\ Len(q) \in Nat
      BY <1>1 DEF Replace
<1> HIDE DEF k
<1>3. \A i, j \in 1 .. Len(p) : p[i].txn = p[j].txn => i = j
      BY <1>1, <1>2 DEF WellFormedQueue
<1>4. ASSUME NEW i \in 1 .. Len(p), NEW j \in 1 .. Len(p),
             p[i].granted, p[i].mode = "EXCLUSIVE", p[j].granted
      PROVE  i = 1 /\ j = 1
  <2>1. CASE i = k
    <3>1. k = 1 /\ \A l \in 1 .. Len(q) : q[l].txn # t => ~q[l].granted
          BY <2>1, <1>2, <1>4 DEF k, Compatible
    <3>2. j = k
          BY <3>1, <1>1, <1>2, <1>4
    <3> QED  BY <2>1, <3>1, <3>2
  <2>2. CASE i # k
    <3>1. /\ q[i].granted /\ q[i].mode = "EXCLUSIVE"
          BY <2>2, <1>2, <1>4
    <3>2. i = 1
          BY <3>1, <1>2 DEF WellFormedQueue
    <3>3. CASE j # k
          BY <3>1, <3>3, <1>2, <1>4 DEF WellFormedQueue
    <3>4. CASE j = k
          BY <3>1, <3>2, <3>4, <2>2, <1>1, <1>2, <1>4 DEF k, Compatible
    <3> QED  BY <3>2, <3>3, <3>4
  <2> QED  BY <2>1, <2>2
<1>5. WellFormedQueue(p)
      BY <1>3, <1>4 DEF WellFormedQueue
<1>6. ASSUME NEW u \in Txn, NEW n \in LockMode
      PROVE  /\ Holds(p, u, n) <=>
                   IF u = t THEN n = req.mode /\ req.granted ELSE Holds(q, u, n)
             /\ Waits(p, u, n) <=>
                   IF u = t THEN n = req.mode /\ ~req.granted ELSE Waits(q, u, n)
  <2>1. CASE u = t
    <3>1. Holds(p, u, n) <=> n = req.mode /\ req.granted
          BY <2>1, <1>1, <1>2 DEF Holds
    <3>2. Waits(p, u, n) <=> n = req.mode /\ ~req.granted
          BY <2>1, <1>1, <1>2 DEF Waits
    <3> QED  BY <2>1, <3>1, <3>2
  <2>2. CASE u # t
    <3>1. Holds(p, u, n) <=> Holds(q, u, n)
          BY <2>2, <1>1, <1>2 DEF Holds
    <3>2. Waits(p, u, n) <=> Waits(q, u, n)
          BY <2>2, <1>1, <1>2 DEF Waits
    <3> QED  BY <2>2, <3>1, <3>2
  <2> QED  BY <2>1, <2>2
<1> QED  BY <1>2, <1>5, <1>6

\* grantLock once the wait predicate holds.
LEMMA GrantRequest ==
    ASSUME NEW q \in Seq(LockRequest), NEW t \in Txn, NEW op, NEW up,
           WellFormedQueue(q), Waits(q, t, ModeOf(op)), CanGrant(op, q, up, t)
    PROVE  /\ GrantLock(q, t) \in Seq(LockRequest)
           /\ WellFormedQueue(GrantLock(q, t))
           /\ \A u \in Txn, n \in LockMode :
                 /\ Holds(GrantLock(q, t), u, n) <=>
                       IF u = t THEN n = ModeOf(op) ELSE Holds(q, u, n)
                 /\ Waits(GrantLock(q, t), u, n) <=> u # t /\ Waits(q, u, n)
<1> DEFINE k == IndexOf(q, t)
           req == [q[k] EXCEPT !.granted = TRUE]
<1>1. HasRequest(q, t)
      BY DEF Waits, HasRequest
<1>2. /\ k \in 1 .. Len(q)
      /\ q[k].txn = t
      /\ \A i \in 1 .. Len(q) : q[i].txn = t => i = k
      BY <1>1, IndexOfRequest
<1>3. q[k] \in LockRequest /\ q[k].mode = ModeOf(op)
      BY <1>2 DEF Waits
<1>4. req \in LockRequest
      BY <1>3 DEF LockRequest
<1>5. req.txn = t /\ req.mode = ModeOf(op) /\ req.granted = TRUE
      BY <1>2, <1>3 DEF LockRequest
<1>6. GrantLock(q, t) = Replace(q, t, req)
      BY <1>1 DEF GrantLock, Replace
<1>7. Compatible(q, t, req)
  <2>1. CASE op = "lockShared"
        BY <2>1, <1>2, <1>5 DEF CanGrant, CanGrantShared, ModeOf, Compatible
  <2>2. CASE op # "lockShared"
        BY <2>2, <1>2, <1>5 DEF CanGrant, CanGrantExclusive, ModeOf, Compatible
  <2> QED  BY <2>1, <2>2
<1> HIDE DEF req, k
<1>8. /\ GrantLock(q, t) \in Seq(LockRequest)
      /\ WellFormedQueue(GrantLock(q, t))
      /\ \A u \in Txn, n \in LockMode :
            /\ Holds(GrantLock(q, t), u, n) <=>
                  IF u = t THEN n = req.mode /\ req.granted ELSE Holds(q, u, n)
            /\ Waits(GrantLock(q, t), u, n) <=>
                  IF u = t THEN n = req.mode /\ ~req.granted ELSE Waits(q, u, n)
      BY <1>1, <1>4, <1>5, <1>6, <1>7, ReplaceRequest
<1> QED  BY <1>5, <1>8

\* lockUpgrade turns the granted shared request into a pending exclusive one.
LEMMA ReopenRequest ==
    ASSUME NEW q \in Seq(LockRequest), NEW t \in Txn,
           WellFormedQueue(q), HasRequest(q, t)
    PROVE  /\ Reopen(q, t) \in Seq(LockRequest)
           /\ WellFormedQueue(Reopen(q, t))
           /\ \A u \in Txn, n \in LockMode :
                 /\ Holds(Reopen(q, t), u, n) <=> u # t /\ Holds(q, u, n)
                 /\ Waits(Reopen(q, t), u, n) <=>
                       IF u = t THEN n = "EXCLUSIVE" ELSE Waits(q, u, n)
<1> DEFINE k == IndexOf(q, t)
           req == [q[k] EXCEPT !.mode = "EXCLUSIVE", !.granted = FALSE]
<1>1. k \in 1 .. Len(q) /\ q[k].txn = t
      BY IndexOfRequest
<1>2. q[k] \in LockRequest
      BY <1>1
<1>3. /\ req \in LockRequest /\ req.txn = t /\ req.mode = "EXCLUSIVE"
      /\ req.granted = FALSE
      BY <1>1, <1>2 DEF LockRequest, LockMode
<1>4. Reopen(q, t) = Replace(q, t, req)
      BY DEF Replace, Reopen
<1>5. Compatible(q, t, req)
      BY <1>3 DEF Compatible
<1> HIDE DEF req, k
<1>6. /\ Reopen(q, t) \in Seq(LockRequest)
      /\ WellFormedQueue(Reopen(q, t))
      /\ \A u \in Txn, n \in LockMode :
            /\ Holds(Reopen(q, t), u, n) <=>
                  IF u = t THEN n = req.mode /\ req.granted ELSE Holds(q, u, n)
            /\ Waits(Reopen(q, t), u, n) <=>
                  IF u = t THEN n = req.mode /\ ~req.granted ELSE Waits(q, u, n)
      BY <1>3, <1>4, <1>5, ReplaceRequest
<1> QED  BY <1>3, <1>6

\* removeRequest takes the only request of t out and keeps the others in order.
LEMMA RemoveOwnRequest ==
    ASSUME NEW q \in Seq(LockRequest), NEW t \in Txn,
           WellFormedQueue(q), HasRequest(q, t)
    PROVE  /\ RemoveRequest(q, t) \in Seq(LockRequest)
           /\ WellFormedQueue(RemoveRequest(q, t))
           /\ \A u \in Txn, n \in LockMode :
                 /\ Holds(RemoveRequest(q, t), u, n) <=> u # t /\ Holds(q, u, n)
                 /\ Waits(RemoveRequest(q, t), u, n) <=> u # t /\ Waits(q, u, n)
<1> DEFINE k == IndexOf(q, t)
           p == RemoveRequest(q, t)
<1>1. /\ k \in 1 .. Len(q)
      /\ q[k].txn = t
      /\ \A i \in 1 .. Len(q) : q[i].txn = t => i = k
      /\ Len(q) \in Nat
      BY IndexOfRequest
<1>2. p = [j \in 1 .. (Len(q) - 1) |-> IF j < k THEN q[j] ELSE q[j + 1]]
      BY DEF RemoveRequest, RemoveAtIndex
<1> HIDE DEF k, p
<1>3. p \in Seq(LockRequest) /\ Len(p) = Len(q) - 1
  <2>1. Len(q) - 1 \in Nat
        BY <1>1
  <2>2. ASSUME NEW j \in 1 .. (Len(q) - 1)
        PROVE  (IF j < k THEN q[j] ELSE q[j + 1]) \in LockRequest
        BY <1>1
  <2>3. p \in [1 .. (Len(q) - 1) -> LockRequest]
        BY <1>2, <2>2
  <2> QED  BY <2>1, <2>3
<1>4. \A j \in 1 .. Len(p) : p[j] = (IF j < k THEN q[j] ELSE q[j + 1])
      BY <1>2, <1>3
<1>5. \A i \in 1 .. Len(q) : i # k => \E j \in 1 .. Len(p) : p[j] = q[i]
  <2> SUFFICES ASSUME NEW i \in 1 .. Len(q), i # k
               PROVE  \E j \in 1 .. Len(p) : p[j] = q[i]
      OBVIOUS
  <2>1. CASE i < k
        BY <2>1, <1>1, <1>3, <1>4
  <2>2. CASE i > k
    <3>1. i - 1 \in 1 .. Len(p) /\ ~(i - 1 < k) /\ (i - 1) + 1 = i
          BY <2>2, <1>1, <1>3
    <3> QED  BY <3>1, <1>4
  <2> QED  BY <2>1, <2>2, <1>1
<1>6. \A j \in 1 .. Len(p) : \E i \in 1 .. Len(q) : i # k /\ i >= j /\ p[j] = q[i]
  <2> SUFFICES ASSUME NEW j \in 1 .. Len(p)
               PROVE  \E i \in 1 .. Len(q) : i # k /\ i >= j /\ p[j] = q[i]
      OBVIOUS
  <2>1. CASE j < k
        BY <2>1, <1>1, <1>3, <1>4
  <2>2. CASE ~(j < k)
        BY <2>2, <1>1, <1>3, <1>4
  <2> QED  BY <2>1, <2>2
<1>7. \A i, j \in 1 .. Len(p) : p[i].txn = p[j].txn => i = j
      BY SMTT(40), <1>1, <1>3, <1>4 DEF WellFormedQueue
<1>8. \A i, j \in 1 .. Len(p) :
          p[i].granted /\ p[i].mode = "EXCLUSIVE" /\ p[j].granted => i = 1 /\ j = 1
  <2> SUFFICES ASSUME NEW i \in 1 .. Len(p), NEW j \in 1 .. Len(p),
                      p[i].granted, p[i].mode = "EXCLUSIVE", p[j].granted
               PROVE  i = 1 /\ j = 1
      OBVIOUS
  <2>1. PICK a \in 1 .. Len(q) : a # k /\ a >= i /\ p[i] = q[a]
        BY <1>6
  <2>2. PICK b \in 1 .. Len(q) : b # k /\ b >= j /\ p[j] = q[b]
        BY <1>6
  <2>3. a = 1 /\ b = 1
        BY <2>1, <2>2 DEF WellFormedQueue
  <2> QED  BY <2>1, <2>2, <2>3, <1>3
<1>9. ASSUME NEW u \in Txn, NEW n \in LockMode
      PROVE  /\ Holds(p, u, n) <=> u # t /\ Holds(q, u, n)
             /\ Waits(p, u, n) <=> u # t /\ Waits(q, u, n)
  <2>1. Holds(p, u, n) => u # t /\ Holds(q, u, n)
        BY <1>1, <1>6 DEF Holds
  <2>2. u # t /\ Holds(q, u, n) => Holds(p, u, n)
        BY <1>1, <1>5 DEF Holds
  <2>3. Waits(p, u, n) => u # t /\ Waits(q, u, n)
        BY <1>1, <1>6 DEF Waits
  <2>4. u # t /\ Waits(q, u, n) => Waits(p, u, n)
        BY <1>1, <1>5 DEF Waits
  <2> QED  BY <2>1, <2>2, <2>3, <2>4
<1> QED  BY <1>3, <1>7, <1>8, <1>9 DEF p, WellFormedQueue

-----------------------------------------------------------------------------
(* Calls. *)

Calls == Blocked \cup {Idle, Releasing}

\* The call of u is the same up to being asleep or awake.
SameCall(c, d) ==
    /\ c \in Blocked <=> d \in Blocked
    /\ c \in Blocked => c.op = d.op /\ c.rid = d.rid

\* Neither an idle nor a releasing thread is blocked.
LEMMA NotBlocked ==
    /\ Idle \notin Blocked
    /\ Releasing \notin Blocked
    /\ Idle # Releasing
BY DEF Idle, Releasing, Blocked

\* A call that goes to sleep is blocked, and waking it up keeps it so.
LEMMA BlockedCalls ==
    /\ \A op \in {"lockShared", "lockExclusive", "lockUpgrade"}, r \in RID :
          /\ Asleep(op, r) \in Blocked
          /\ Asleep(op, r).op = op
          /\ Asleep(op, r).rid = r
    /\ \A c \in Blocked, b \in BOOLEAN :
          /\ [c EXCEPT !.awake = b] \in Blocked
          /\ SameCall([c EXCEPT !.awake = b], c)
<1>1. \A op \in {"lockShared", "lockExclusive", "lockUpgrade"}, r \in RID :
          /\ Asleep(op, r) \in Blocked
          /\ Asleep(op, r).op = op
          /\ Asleep(op, r).rid = r
      BY DEF Asleep, Blocked
<1>2. ASSUME NEW c \in Blocked, NEW b \in BOOLEAN
      PROVE  /\ [c EXCEPT !.awake = b] \in Blocked
             /\ SameCall([c EXCEPT !.awake = b], c)
      BY DEF Blocked, SameCall
<1> QED  BY <1>1, <1>2

\* notify_all only wakes calls up.
LEMMA NotifyAllCalls ==
    ASSUME NEW c \in [Txn -> Calls], NEW r \in RID
    PROVE  /\ NotifyAll(c, r) \in [Txn -> Calls]
           /\ \A u \in Txn : SameCall(NotifyAll(c, r)[u], c[u])
<1>1. ASSUME NEW u \in Txn
      PROVE  /\ NotifyAll(c, r)[u] \in Calls
             /\ SameCall(NotifyAll(c, r)[u], c[u])
  <2>1. CASE c[u] \in Blocked /\ c[u].rid = r
    <3>1. NotifyAll(c, r)[u] = [c[u] EXCEPT !.awake = TRUE]
          BY <2>1 DEF NotifyAll
    <3>2. /\ [c[u] EXCEPT !.awake = TRUE] \in Blocked
          /\ SameCall([c[u] EXCEPT !.awake = TRUE], c[u])
          BY <2>1, BlockedCalls, Zenon
    <3> QED  BY <3>1, <3>2 DEF Calls
  <2>2. CASE ~(c[u] \in Blocked /\ c[u].rid = r)
    <3>1. NotifyAll(c, r)[u] = c[u]
          BY <2>2 DEF NotifyAll
    <3> QED  BY <3>1 DEF Calls, SameCall
  <2> QED  BY <2>1, <2>2
<1>2. NotifyAll(c, r) = [u \in Txn |-> NotifyAll(c, r)[u]]
      BY DEF NotifyAll
<1> QED  BY <1>1, <1>2

-----------------------------------------------------------------------------
(* The two shapes of a step. *)

\* A step that touches no queue and no lock set, and at most wakes calls up or
\* moves a thread between idle and releasing.
LEMMA CallStep ==
    ASSUME Invariant,
           UNCHANGED <<queue, upgrading, shared, exclusive>>,
           state' \in [Txn -> {"ACTIVE", "ABORTED"}],
           call' \in [Txn -> Calls],
           \A u \in Txn : SameCall(call'[u], call[u])
    PROVE  Invariant'
<1>1. TypeOK'
      BY DEF Invariant, TypeOK, Calls
<1>2. (\A r \in RID : WellFormedQueue(queue[r]))' /\ LockSetsMatchQueue'
      BY DEF Invariant, LockSetsMatchQueue, WellFormedQueue, Holds
<1>3. WaitersMatchQueue'
  <2> SUFFICES ASSUME NEW u \in Txn, NEW r \in RID, NEW m \in LockMode
               PROVE  Waits(queue[r], u, m)
                          <=> call'[u] \in Blocked /\ call'[u].rid = r
                              /\ m = ModeOf(call'[u].op)
      BY DEF WaitersMatchQueue, Waits, Waiting
  <2> QED  BY DEF Invariant, WaitersMatchQueue, Waiting, SameCall
<1>4. UpgradeFlagOwned'
      BY DEF Invariant, UpgradeFlagOwned, SameCall, TypeOK
<1> QED  BY <1>1, <1>2, <1>3, <1>4 DEF Invariant

\* A step of t at record r: the queue of r becomes p, which agrees with the new
\* lock sets and the new call of t and, for the others, with the old queue.
LEMMA QueueStep ==
    ASSUME Invariant, NEW t \in Txn, NEW r \in RID, NEW p \in Seq(LockRequest),
           WellFormedQueue(p),
           queue' = [queue EXCEPT ![r] = p],
           shared' \in [Txn -> SUBSET RID], exclusive' \in [Txn -> SUBSET RID],
           upgrading' \in [RID -> Txn \cup {NoTxn}],
           state' = state,
           call' \in [Txn -> Calls],
           \A u \in Txn, s \in RID : u # t \/ s # r =>
               /\ s \in shared'[u] <=> s \in shared[u]
               /\ s \in exclusive'[u] <=> s \in exclusive[u],
           \A u \in Txn : u # t => SameCall(call'[u], call[u]),
           call[t] \in Blocked => call[t].rid = r,
           call'[t] \in Blocked => call'[t].rid = r,
           \A u \in Txn, m \in LockMode : u # t =>
               /\ Holds(p, u, m) <=> Holds(queue[r], u, m)
               /\ Waits(p, u, m) <=> Waits(queue[r], u, m),
           r \in shared'[t] <=> Holds(p, t, "SHARED"),
           r \in exclusive'[t] <=> Holds(p, t, "EXCLUSIVE"),
           \A m \in LockMode :
               Waits(p, t, m) <=> call'[t] \in Blocked /\ m = ModeOf(call'[t].op),
           UpgradeFlagOwned'
    PROVE  Invariant'
<1>1. /\ queue \in [RID -> Seq(LockRequest)]
      /\ queue'[r] = p
      /\ \A s \in RID : s # r => queue'[s] = queue[s]
      BY DEF Invariant, TypeOK
<1>2. TypeOK'
      BY DEF Invariant, TypeOK, Calls
<1>3. ASSUME NEW s \in RID
      PROVE  WellFormedQueue(queue'[s])
      BY <1>1 DEF Invariant
<1>4. ASSUME NEW u \in Txn, NEW s \in RID
      PROVE  /\ s \in shared'[u] <=> Holds(queue'[s], u, "SHARED")
             /\ s \in exclusive'[u] <=> Holds(queue'[s], u, "EXCLUSIVE")
  <2>1. "SHARED" \in LockMode /\ "EXCLUSIVE" \in LockMode
        BY DEF LockMode
  <2>2. /\ s \in shared[u] <=> Holds(queue[s], u, "SHARED")
        /\ s \in exclusive[u] <=> Holds(queue[s], u, "EXCLUSIVE")
        BY DEF Invariant, LockSetsMatchQueue
  <2>3. CASE s = r /\ u = t
        BY <2>3, <1>1
  <2>4. CASE s = r /\ u # t
        BY <2>1, <2>2, <2>4, <1>1
  <2>5. CASE s # r
        BY <2>2, <2>5, <1>1
  <2> QED  BY <2>3, <2>4, <2>5
<1>5. ASSUME NEW u \in Txn, NEW s \in RID, NEW m \in LockMode
      PROVE  Waits(queue'[s], u, m)
                 <=> call'[u] \in Blocked /\ call'[u].rid = s /\ m = ModeOf(call'[u].op)
  <2>1. Waits(queue[s], u, m)
            <=> call[u] \in Blocked /\ call[u].rid = s /\ m = ModeOf(call[u].op)
        BY DEF Invariant, WaitersMatchQueue, Waiting
  <2>2. CASE s = r /\ u = t
        BY <2>2, <1>1
  <2>3. CASE s # r /\ u = t
        BY <2>1, <2>3, <1>1
  <2>4. CASE u # t
    <3>1. Waits(queue'[s], u, m) <=> Waits(queue[s], u, m)
          BY <2>4, <1>1
    <3> QED  BY <2>1, <2>4, <3>1 DEF SameCall
  <2> QED  BY <2>2, <2>3, <2>4
<1>6. LockSetsMatchQueue'
      BY <1>4 DEF LockSetsMatchQueue
<1>7. WaitersMatchQueue'
      BY <1>5 DEF WaitersMatchQueue, Waiting
<1> QED  BY <1>2, <1>3, <1>6, <1>7 DEF Invariant

-----------------------------------------------------------------------------
(* The invariant is inductive. *)

\* Facts about the request of t in the queue of r that the actions use.
LEMMA RequestFacts ==
    ASSUME Invariant, NEW t \in Txn, NEW r \in RID
    PROVE  /\ queue[r] \in Seq(LockRequest)
           /\ WellFormedQueue(queue[r])
           /\ r \in shared[t] <=> Holds(queue[r], t, "SHARED")
           /\ r \in exclusive[t] <=> Holds(queue[r], t, "EXCLUSIVE")
           /\ r \in shared[t] \cup exclusive[t] => HasRequest(queue[r], t)
           /\ \A m \in LockMode :
                 Waits(queue[r], t, m)
                     <=> call[t] \in Blocked /\ call[t].rid = r
                         /\ m = ModeOf(call[t].op)
           /\ call[t] \in Blocked /\ call[t].rid = r => HasRequest(queue[r], t)
           /\ HasRequest(queue[r], t) =>
                 \/ r \in shared[t] \cup exclusive[t]
                 \/ call[t] \in Blocked /\ call[t].rid = r
<1>1. queue[r] \in Seq(LockRequest) /\ WellFormedQueue(queue[r])
      BY DEF Invariant, TypeOK
<1>2. /\ r \in shared[t] <=> Holds(queue[r], t, "SHARED")
      /\ r \in exclusive[t] <=> Holds(queue[r], t, "EXCLUSIVE")
      BY DEF Invariant, LockSetsMatchQueue
<1>3. \A m \in LockMode :
          Waits(queue[r], t, m)
              <=> call[t] \in Blocked /\ call[t].rid = r /\ m = ModeOf(call[t].op)
      BY DEF Invariant, WaitersMatchQueue, Waiting
<1>4. r \in shared[t] \cup exclusive[t] => HasRequest(queue[r], t)
      BY <1>2 DEF Holds, HasRequest
<1>5. call[t] \in Blocked /\ call[t].rid = r => HasRequest(queue[r], t)
  <2>1. ModeOf(call[t].op) \in LockMode
        BY DEF ModeOf, LockMode
  <2> QED  BY <2>1, <1>3 DEF Waits, HasRequest
<1>6. HasRequest(queue[r], t) =>
          \/ r \in shared[t] \cup exclusive[t]
          \/ call[t] \in Blocked /\ call[t].rid = r
  <2> SUFFICES ASSUME HasRequest(queue[r], t)
               PROVE  \/ r \in shared[t] \cup exclusive[t]
                      \/ call[t] \in Blocked /\ call[t].rid = r
      OBVIOUS
  <2>1. PICK i \in 1 .. Len(queue[r]) : queue[r][i].txn = t
        BY DEF HasRequest
  <2>2. queue[r][i].mode \in LockMode /\ queue[r][i].granted \in BOOLEAN
    <3>1. queue[r][i] \in LockRequest
          BY <1>1
    <3> QED  BY <3>1 DEF LockRequest
  <2>3. CASE queue[r][i].granted
        BY <2>1, <2>2, <2>3, <1>2 DEF Holds, LockMode
  <2>4. CASE ~queue[r][i].granted
    <3>1. Waits(queue[r], t, queue[r][i].mode)
          BY <2>1, <2>4 DEF Waits
    <3> QED  BY <3>1, <2>2, <1>3
  <2> QED  BY <2>3, <2>4
<1> QED  BY <1>1, <1>2, <1>3, <1>4, <1>5, <1>6

\* A granted request of t at the end of the wait of lockUpgrade or, awake
\* again, of any lock function: q already holds the pending request.
LEMMA GrantedStep ==
    ASSUME Invariant, NEW t \in Txn, NEW r \in RID, NEW q \in Seq(LockRequest),
           NEW op \in {"lockShared", "lockExclusive", "lockUpgrade"},
           WellFormedQueue(q),
           \A m \in LockMode : Waits(q, t, m) <=> m = ModeOf(op),
           \A u \in Txn, m \in LockMode : u # t =>
               /\ Holds(q, u, m) <=> Holds(queue[r], u, m)
               /\ Waits(q, u, m) <=> Waits(queue[r], u, m),
           op = "lockShared" => r \notin exclusive[t],
           call[t] \in Blocked => call[t].rid = r,
           CanGrant(op, q, upgrading[r], t),
           Granted(t, op, r, q),
           state' = state,
           upgrading' \in [RID -> Txn \cup {NoTxn}],
           \A s \in RID : upgrading'[s] = upgrading[s] \/ upgrading'[s] = NoTxn,
           \A s \in RID : upgrading'[s] # t
    PROVE  Invariant'
<1> DEFINE p == GrantLock(q, t)
<1>1. TypeOK /\ UpgradeFlagOwned
      BY DEF Invariant
<1>2. "SHARED" \in LockMode /\ "EXCLUSIVE" \in LockMode /\ ModeOf(op) \in LockMode
      BY DEF LockMode, ModeOf
<1>3. Waits(q, t, ModeOf(op))
      BY <1>2
<1>4. /\ p \in Seq(LockRequest)
      /\ WellFormedQueue(p)
      /\ \A u \in Txn, n \in LockMode :
            /\ Holds(p, u, n) <=> IF u = t THEN n = ModeOf(op) ELSE Holds(q, u, n)
            /\ Waits(p, u, n) <=> u # t /\ Waits(q, u, n)
      BY <1>3, GrantRequest
<1>5. /\ queue' = [queue EXCEPT ![r] = p]
      /\ shared' = [shared EXCEPT ![t] = IF op = "lockShared" THEN @ \cup {r} ELSE @ \ {r}]
      /\ exclusive' = [exclusive EXCEPT ![t] = IF op = "lockShared" THEN @ ELSE @ \cup {r}]
      /\ call' = [call EXCEPT ![t] = Idle]
      BY DEF Granted
<1> HIDE DEF p
<1>6. /\ call' \in [Txn -> Calls] /\ call'[t] = Idle
      /\ \A u \in Txn : u # t => SameCall(call'[u], call[u])
      BY <1>5, <1>1 DEF TypeOK, Calls, SameCall
<1>7. /\ shared' \in [Txn -> SUBSET RID] /\ exclusive' \in [Txn -> SUBSET RID]
      /\ \A u \in Txn, s \in RID : u # t \/ s # r =>
             /\ s \in shared'[u] <=> s \in shared[u]
             /\ s \in exclusive'[u] <=> s \in exclusive[u]
      /\ r \in shared'[t] <=> op = "lockShared"
      /\ r \in exclusive'[t] <=> op # "lockShared"
      BY <1>5, <1>1 DEF TypeOK
<1>8. /\ Holds(p, t, "SHARED") <=> op = "lockShared"
      /\ Holds(p, t, "EXCLUSIVE") <=> op # "lockShared"
      BY <1>4, <1>2 DEF ModeOf
<1>9. \A u \in Txn, m \in LockMode : u # t =>
          /\ Holds(p, u, m) <=> Holds(queue[r], u, m)
          /\ Waits(p, u, m) <=> Waits(queue[r], u, m)
      BY <1>4
<1>10. UpgradeFlagOwned'
  <2> SUFFICES ASSUME NEW s \in RID, upgrading'[s] # NoTxn
               PROVE  /\ call'[upgrading'[s]] \in Blocked
                      /\ call'[upgrading'[s]].op = "lockUpgrade"
                      /\ call'[upgrading'[s]].rid = s
      BY DEF UpgradeFlagOwned
  <2>1. upgrading'[s] = upgrading[s] /\ upgrading[s] \in Txn /\ upgrading[s] # t
        BY <1>1 DEF TypeOK
  <2>2. call'[upgrading[s]] = call[upgrading[s]]
        BY <2>1, <1>5, <1>1 DEF TypeOK
  <2> QED  BY <2>1, <2>2, <1>1 DEF UpgradeFlagOwned
<1> QED  BY <1>4, <1>5, <1>6, <1>7, <1>8, <1>9, <1>10, NotBlocked, QueueStep

\* lockShared and lockExclusive, from the enqueue to the return or the wait.
LEMMA EnqueueStep ==
    ASSUME Invariant, NEW t \in Txn, NEW r \in RID,
           NEW op \in {"lockShared", "lockExclusive"},
           call[t] = Idle, r \notin shared[t] \cup exclusive[t],
           Enqueue(t, r, op)
    PROVE  Invariant'
<1> DEFINE q == EmplaceBack(queue[r], t, ModeOf(op))
<1>1. TypeOK /\ UpgradeFlagOwned
      BY DEF Invariant
<1>2. ModeOf(op) \in LockMode
      BY DEF ModeOf, LockMode
<1>3. ~HasRequest(queue[r], t)
      BY RequestFacts, NotBlocked
<1>4. /\ q \in Seq(LockRequest)
      /\ WellFormedQueue(q)
      /\ \A u \in Txn, n \in LockMode :
            /\ Holds(q, u, n) <=> Holds(queue[r], u, n)
            /\ Waits(q, u, n) <=> Waits(queue[r], u, n) \/ (u = t /\ n = ModeOf(op))
  <2>1. queue[r] \in Seq(LockRequest) /\ WellFormedQueue(queue[r])
        BY RequestFacts
  <2> QED  BY <1>2, <1>3, <2>1, AppendRequest
<1>5. "SHARED" \in LockMode /\ "EXCLUSIVE" \in LockMode
      BY DEF LockMode
<1> HIDE DEF q
<1>6. CASE CanGrant(op, q, upgrading[r], t) /\ Granted(t, op, r, q)
           /\ UNCHANGED <<upgrading, state>>
  <2>1. \A m \in LockMode : Waits(q, t, m) <=> m = ModeOf(op)
        BY <1>4, RequestFacts, NotBlocked
  <2>2. \A s \in RID : upgrading[s] # t
        BY <1>1, NotBlocked, ConstantsAssumption DEF UpgradeFlagOwned
  <2>3. /\ upgrading' = upgrading /\ upgrading' \in [RID -> Txn \cup {NoTxn}]
        /\ state' = state
        BY <1>1, <1>6 DEF TypeOK
  <2>4. call[t] \notin Blocked
        BY NotBlocked
  <2>5. \A u \in Txn, m \in LockMode : u # t =>
            /\ Holds(q, u, m) <=> Holds(queue[r], u, m)
            /\ Waits(q, u, m) <=> Waits(queue[r], u, m)
        BY <1>4
  <2>6. /\ op \in {"lockShared", "lockExclusive", "lockUpgrade"}
        /\ r \notin exclusive[t]
        OBVIOUS
  <2>7. CanGrant(op, q, upgrading[r], t) /\ Granted(t, op, r, q)
        BY <1>6
  <2> QED  BY <1>4, <2>1, <2>2, <2>3, <2>4, <2>5, <2>6, <2>7, GrantedStep
<1>7. CASE /\ ~CanGrant(op, q, upgrading[r], t)
           /\ queue' = [queue EXCEPT ![r] = q]
           /\ call' = [call EXCEPT ![t] = Asleep(op, r)]
           /\ UNCHANGED <<upgrading, shared, exclusive, state>>
  <2>1. Asleep(op, r) \in Blocked /\ Asleep(op, r).op = op /\ Asleep(op, r).rid = r
        BY BlockedCalls
  <2>2. /\ call' \in [Txn -> Calls] /\ call'[t] = Asleep(op, r)
        /\ \A u \in Txn : u # t => SameCall(call'[u], call[u])
        BY <1>7, <2>1, <1>1 DEF TypeOK, Calls, SameCall
  <2>3. \A m \in LockMode : Waits(q, t, m) <=> m = ModeOf(op)
        BY <1>4, RequestFacts, NotBlocked
  <2>4. /\ r \in shared[t] <=> Holds(q, t, "SHARED")
        /\ r \in exclusive[t] <=> Holds(q, t, "EXCLUSIVE")
        BY <1>4, <1>5, RequestFacts
  <2>5. UpgradeFlagOwned'
        BY <1>7, <2>2, <1>1, NotBlocked DEF UpgradeFlagOwned, TypeOK, SameCall
  <2> QED  BY ZenonT(60), <1>7, <1>4, <2>1, <2>2, <2>3, <2>4, <2>5, <1>1, NotBlocked, QueueStep
           DEF TypeOK
<1> QED  BY <1>6, <1>7 DEF Enqueue, q

\* lockUpgrade from the protocol checks to the return or the wait.
LEMMA BeginUpgradeStep ==
    ASSUME Invariant, NEW t \in Txn, NEW r \in RID,
           call[t] = Idle, r \in shared[t], upgrading[r] = NoTxn,
           BeginUpgrade(t, r)
    PROVE  Invariant'
<1> DEFINE q == Reopen(queue[r], t)
<1>1. TypeOK /\ UpgradeFlagOwned
      BY DEF Invariant
<1>2. /\ queue[r] \in Seq(LockRequest) /\ WellFormedQueue(queue[r])
      /\ HasRequest(queue[r], t)
      BY RequestFacts
<1>3. /\ q \in Seq(LockRequest)
      /\ WellFormedQueue(q)
      /\ \A u \in Txn, n \in LockMode :
            /\ Holds(q, u, n) <=> u # t /\ Holds(queue[r], u, n)
            /\ Waits(q, u, n) <=> IF u = t THEN n = "EXCLUSIVE" ELSE Waits(queue[r], u, n)
      BY <1>2, ReopenRequest
<1>4. "SHARED" \in LockMode /\ "EXCLUSIVE" \in LockMode
      /\ ModeOf("lockUpgrade") = "EXCLUSIVE"
      BY DEF LockMode, ModeOf
<1>5. \A s \in RID : upgrading[s] # t
      BY <1>1, NotBlocked, ConstantsAssumption DEF UpgradeFlagOwned
<1>6. r \notin exclusive[t]
  <2>1. Holds(queue[r], t, "SHARED")
        BY RequestFacts
  <2>2. ~Holds(queue[r], t, "EXCLUSIVE")
        BY <2>1, <1>2 DEF Holds, WellFormedQueue
  <2> QED  BY <2>2, RequestFacts
<1> HIDE DEF q
<1>7. CASE CanGrantExclusive(q, t) /\ Granted(t, "lockUpgrade", r, q)
           /\ UNCHANGED <<upgrading, state>>
  <2>1. CanGrant("lockUpgrade", q, upgrading[r], t)
        BY <1>7 DEF CanGrant
  <2> QED  BY <1>1, <1>3, <1>4, <1>5, <1>7, <2>1, NotBlocked, GrantedStep DEF TypeOK
<1>8. CASE /\ ~CanGrantExclusive(q, t)
           /\ queue' = [queue EXCEPT ![r] = q]
           /\ shared' = [shared EXCEPT ![t] = @ \ {r}]
           /\ upgrading' = [upgrading EXCEPT ![r] = t]
           /\ call' = [call EXCEPT ![t] = Asleep("lockUpgrade", r)]
           /\ UNCHANGED <<exclusive, state>>
  <2> DEFINE c == Asleep("lockUpgrade", r)
  <2>1. c \in Blocked /\ c.op = "lockUpgrade" /\ c.rid = r
        BY BlockedCalls
  <2> HIDE DEF c
  <2>2. /\ call' \in [Txn -> Calls] /\ call'[t] = c
        /\ \A u \in Txn : u # t => call'[u] = call[u]
        BY <1>8, <2>1, <1>1 DEF TypeOK, Calls, c
  <2>3. \A u \in Txn : u # t => SameCall(call'[u], call[u])
        BY <2>2 DEF SameCall
  <2>4. /\ shared' \in [Txn -> SUBSET RID] /\ exclusive' \in [Txn -> SUBSET RID]
        /\ \A u \in Txn, s \in RID : u # t \/ s # r =>
               /\ s \in shared'[u] <=> s \in shared[u]
               /\ s \in exclusive'[u] <=> s \in exclusive[u]
        /\ r \notin shared'[t] /\ r \notin exclusive'[t]
        BY <1>8, <1>6, <1>1 DEF TypeOK
  <2>5. upgrading' \in [RID -> Txn \cup {NoTxn}]
        BY <1>8, <1>1 DEF TypeOK
  <2>6. UpgradeFlagOwned'
    <3> SUFFICES ASSUME NEW s \in RID, upgrading'[s] # NoTxn
                 PROVE  /\ call'[upgrading'[s]] \in Blocked
                        /\ call'[upgrading'[s]].op = "lockUpgrade"
                        /\ call'[upgrading'[s]].rid = s
        BY DEF UpgradeFlagOwned
    <3>1. CASE s = r
      <4>1. upgrading'[s] = t
            BY <3>1, <1>8, <1>1 DEF TypeOK
      <4> QED  BY <3>1, <4>1, <2>1, <2>2
    <3>2. CASE s # r
      <4>1. upgrading'[s] = upgrading[s] /\ upgrading[s] \in Txn /\ upgrading[s] # t
            BY <3>2, <1>5, <1>8, <1>1 DEF TypeOK
      <4> QED  BY <4>1, <2>2, <1>1 DEF UpgradeFlagOwned
    <3> QED  BY <3>1, <3>2
  <2>7. /\ call[t] \notin Blocked
        /\ call'[t] \in Blocked /\ call'[t].rid = r
        /\ \A m \in LockMode :
              Waits(q, t, m) <=> call'[t] \in Blocked /\ m = ModeOf(call'[t].op)
        BY <1>3, <1>4, <2>1, <2>2, NotBlocked
  <2>8. ~Holds(q, t, "SHARED") /\ ~Holds(q, t, "EXCLUSIVE")
        BY <1>3, <1>4
  <2>9. \A u \in Txn, m \in LockMode : u # t =>
            /\ Holds(q, u, m) <=> Holds(queue[r], u, m)
            /\ Waits(q, u, m) <=> Waits(queue[r], u, m)
        BY <1>3
  <2>10. queue' = [queue EXCEPT ![r] = q] /\ state' = state
        BY <1>8
  <2> QED  BY <1>3, <2>2, <2>3, <2>4, <2>5, <2>6, <2>7, <2>8, <2>9, <2>10, QueueStep
<1> QED  BY <1>7, <1>8 DEF BeginUpgrade, q

\* An awake waiter: withdraw, be granted, or go back to sleep.
LEMMA ResumeStep ==
    ASSUME Invariant, NEW t \in Txn, Resume(t)
    PROVE  Invariant'
<1> DEFINE op == call[t].op
           r  == call[t].rid
<1>1. TypeOK /\ UpgradeFlagOwned /\ call[t] \in Blocked
      BY DEF Invariant, Resume, Waiting
<1>2. op \in {"lockShared", "lockExclusive", "lockUpgrade"} /\ r \in RID
      BY <1>1 DEF Blocked
<1>3. "SHARED" \in LockMode /\ "EXCLUSIVE" \in LockMode /\ ModeOf(op) \in LockMode
      BY DEF LockMode, ModeOf
<1> HIDE DEF op, r
<1>4. /\ queue[r] \in Seq(LockRequest) /\ WellFormedQueue(queue[r])
      /\ HasRequest(queue[r], t)
      /\ \A m \in LockMode : Waits(queue[r], t, m) <=> m = ModeOf(op)
      BY <1>1, <1>2, RequestFacts DEF op, r
<1>5. r \notin shared[t] /\ r \notin exclusive[t]
  <2>1. Waits(queue[r], t, ModeOf(op))
        BY <1>3, <1>4
  <2>2. ~Holds(queue[r], t, "SHARED") /\ ~Holds(queue[r], t, "EXCLUSIVE")
        BY <2>1, <1>4 DEF Waits, Holds, WellFormedQueue
  <2> QED  BY <2>2, <1>2, RequestFacts
<1>6. \A s \in RID : upgrading[s] = t => s = r /\ op = "lockUpgrade"
      BY <1>1, ConstantsAssumption DEF UpgradeFlagOwned, op, r
<1>7. /\ ClearUpgrade(op, r) \in [RID -> Txn \cup {NoTxn}]
      /\ \A s \in RID : \/ ClearUpgrade(op, r)[s] = upgrading[s]
                         \/ ClearUpgrade(op, r)[s] = NoTxn
      /\ \A s \in RID : ClearUpgrade(op, r)[s] # t
      BY <1>1, <1>2, <1>6, ConstantsAssumption DEF ClearUpgrade, TypeOK
<1>8. CASE Withdraw(t, op, r)
  <2> DEFINE p == RemoveRequest(queue[r], t)
             c == [call EXCEPT ![t] = Idle]
  <2>1. /\ p \in Seq(LockRequest)
        /\ WellFormedQueue(p)
        /\ \A u \in Txn, n \in LockMode :
              /\ Holds(p, u, n) <=> u # t /\ Holds(queue[r], u, n)
              /\ Waits(p, u, n) <=> u # t /\ Waits(queue[r], u, n)
        BY <1>4, RemoveOwnRequest
  <2>2. /\ queue' = [queue EXCEPT ![r] = p]
        /\ call' = NotifyAll(c, r)
        /\ upgrading' = ClearUpgrade(op, r)
        /\ shared' = shared /\ exclusive' = exclusive /\ state' = state
        BY <1>8, <1>1, <1>2 DEF Withdraw, TypeOK
  <2>3. c \in [Txn -> Calls] /\ c[t] = Idle /\ \A u \in Txn : u # t => c[u] = call[u]
        BY <1>1 DEF TypeOK, Calls
  <2> HIDE DEF p, c
  <2>4. call' \in [Txn -> Calls] /\ \A u \in Txn : SameCall(call'[u], c[u])
        BY <2>2, <2>3, <1>2, NotifyAllCalls
  <2>5. /\ call'[t] \notin Blocked
        /\ \A u \in Txn : u # t => SameCall(call'[u], call[u])
        BY <2>3, <2>4, NotBlocked DEF SameCall
  <2>6. UpgradeFlagOwned'
    <3> SUFFICES ASSUME NEW s \in RID, upgrading'[s] # NoTxn
                 PROVE  /\ call'[upgrading'[s]] \in Blocked
                        /\ call'[upgrading'[s]].op = "lockUpgrade"
                        /\ call'[upgrading'[s]].rid = s
        BY DEF UpgradeFlagOwned
    <3>1. upgrading'[s] = upgrading[s] /\ upgrading[s] \in Txn /\ upgrading[s] # t
          BY <2>2, <1>1, <1>7 DEF TypeOK
    <3> QED  BY <3>1, <2>5, <1>1 DEF UpgradeFlagOwned, SameCall
  <2>7. /\ shared' \in [Txn -> SUBSET RID] /\ exclusive' \in [Txn -> SUBSET RID]
        /\ upgrading' \in [RID -> Txn \cup {NoTxn}]
        /\ r \notin shared'[t] /\ r \notin exclusive'[t]
        BY <2>2, <1>1, <1>5, <1>7 DEF TypeOK
  <2>8. /\ ~Holds(p, t, "SHARED") /\ ~Holds(p, t, "EXCLUSIVE")
        /\ \A m \in LockMode : ~Waits(p, t, m)
        BY <2>1, <1>3
  <2>9. \A u \in Txn, m \in LockMode : u # t =>
            /\ Holds(p, u, m) <=> Holds(queue[r], u, m)
            /\ Waits(p, u, m) <=> Waits(queue[r], u, m)
        BY <2>1
  <2>10. call[t].rid = r
        BY DEF r
  <2> QED  BY <1>2, <2>1, <2>2, <2>4, <2>5, <2>6, <2>7, <2>8, <2>9, <2>10, QueueStep
<1>9. CASE /\ CanGrant(op, queue[r], upgrading[r], t)
           /\ Granted(t, op, r, queue[r])
           /\ upgrading' = ClearUpgrade(op, r)
           /\ UNCHANGED state
  <2>1. call[t].rid = r
        BY DEF r
  <2>2. \A s \in RID : upgrading'[s] = upgrading[s] \/ upgrading'[s] = NoTxn
        BY <1>7, <1>9
  <2>3. upgrading' \in [RID -> Txn \cup {NoTxn}] /\ \A s \in RID : upgrading'[s] # t
        BY <1>7, <1>9
  <2>4. state' = state
        BY <1>9
  <2> QED  BY <1>2, <1>4, <1>5, <1>9, <2>1, <2>2, <2>3, <2>4, GrantedStep
<1>10. CASE /\ call' = [call EXCEPT ![t].awake = FALSE]
            /\ UNCHANGED <<queue, upgrading, shared, exclusive, state>>
  <2>1. /\ [call[t] EXCEPT !.awake = FALSE] \in Blocked
        /\ SameCall([call[t] EXCEPT !.awake = FALSE], call[t])
        BY <1>1, BlockedCalls, Zenon
  <2>2. call' \in [Txn -> Calls] /\ \A u \in Txn : SameCall(call'[u], call[u])
        BY <1>1, <1>10, <2>1 DEF TypeOK, Calls, SameCall
  <2> QED  BY <1>1, <1>10, <2>2, CallStep DEF TypeOK
<1> QED  BY <1>8, <1>9, <1>10 DEF Resume, op, r

\* The body of unlock.
LEMMA ReleaseStep ==
    ASSUME Invariant, NEW t \in Txn, NEW r \in RID,
           call[t] \in {Idle, Releasing}, r \in shared[t] \cup exclusive[t],
           Release(t, r)
    PROVE  Invariant'
<1> DEFINE p == RemoveRequest(queue[r], t)
<1>1. TypeOK /\ UpgradeFlagOwned /\ call[t] \notin Blocked
      BY NotBlocked DEF Invariant
<1>2. /\ queue[r] \in Seq(LockRequest) /\ WellFormedQueue(queue[r])
      /\ HasRequest(queue[r], t)
      BY RequestFacts
<1>3. /\ p \in Seq(LockRequest)
      /\ WellFormedQueue(p)
      /\ \A u \in Txn, n \in LockMode :
            /\ Holds(p, u, n) <=> u # t /\ Holds(queue[r], u, n)
            /\ Waits(p, u, n) <=> u # t /\ Waits(queue[r], u, n)
      BY <1>2, RemoveOwnRequest
<1>4. /\ queue' = [queue EXCEPT ![r] = p]
      /\ shared' = [shared EXCEPT ![t] = @ \ {r}]
      /\ exclusive' = [exclusive EXCEPT ![t] = @ \ {r}]
      /\ call' = NotifyAll(call, r)
      /\ upgrading' = upgrading /\ state' = state
      BY <1>1 DEF Release, TypeOK
<1> HIDE DEF p
<1>5. call' \in [Txn -> Calls] /\ \A u \in Txn : SameCall(call'[u], call[u])
      BY <1>1, <1>4, NotifyAllCalls DEF TypeOK, Calls
<1>6. call'[t] \notin Blocked
      BY <1>1, <1>5 DEF SameCall
<1>7. /\ shared' \in [Txn -> SUBSET RID] /\ exclusive' \in [Txn -> SUBSET RID]
      /\ upgrading' \in [RID -> Txn \cup {NoTxn}]
      /\ \A u \in Txn, s \in RID : u # t \/ s # r =>
             /\ s \in shared'[u] <=> s \in shared[u]
             /\ s \in exclusive'[u] <=> s \in exclusive[u]
      /\ r \notin shared'[t] /\ r \notin exclusive'[t]
      BY <1>1, <1>4 DEF TypeOK
<1>8. UpgradeFlagOwned'
  <2> SUFFICES ASSUME NEW s \in RID, upgrading[s] # NoTxn
               PROVE  /\ call'[upgrading[s]] \in Blocked
                      /\ call'[upgrading[s]].op = "lockUpgrade"
                      /\ call'[upgrading[s]].rid = s
      BY <1>4 DEF UpgradeFlagOwned
  <2>1. upgrading[s] \in Txn
        BY <1>1 DEF TypeOK
  <2> QED  BY <2>1, <1>1, <1>5 DEF UpgradeFlagOwned, SameCall
<1>9. /\ ~Holds(p, t, "SHARED") /\ ~Holds(p, t, "EXCLUSIVE")
      /\ \A m \in LockMode : ~Waits(p, t, m)
      BY <1>3 DEF LockMode
<1>10. \A u \in Txn, m \in LockMode : u # t =>
          /\ Holds(p, u, m) <=> Holds(queue[r], u, m)
          /\ Waits(p, u, m) <=> Waits(queue[r], u, m)
      BY <1>3
<1> QED  BY <1>1, <1>3, <1>4, <1>5, <1>6, <1>7, <1>8, <1>9, <1>10, QueueStep

\* The initial lock table satisfies the invariant.
THEOREM InitInvariant == Init => Invariant
<1> SUFFICES ASSUME Init PROVE Invariant
    OBVIOUS
<1>1. \A r \in RID : queue[r] = <<>> /\ Len(queue[r]) = 0
      BY DEF Init
<1>2. TypeOK
      BY DEF Init, TypeOK
<1>3. \A r \in RID : WellFormedQueue(queue[r])
      BY <1>1 DEF WellFormedQueue
<1>4. LockSetsMatchQueue
      BY <1>1 DEF Init, LockSetsMatchQueue, Holds
<1>5. WaitersMatchQueue
      BY <1>1, NotBlocked DEF Init, WaitersMatchQueue, Waits, Waiting
<1>6. UpgradeFlagOwned
      BY DEF Init, UpgradeFlagOwned
<1> QED  BY <1>2, <1>3, <1>4, <1>5, <1>6 DEF Invariant

\* Every latched section of lock_manager.cpp, and every step around one,
\* preserves the invariant.
THEOREM NextInvariant == Invariant /\ [Next]_vars => Invariant'
<1> SUFFICES ASSUME Invariant, [Next]_vars PROVE Invariant'
    OBVIOUS
<1>1. TypeOK
      BY DEF Invariant
<1>2. \A c : SameCall(c, c)
      BY DEF SameCall
<1>3. ASSUME NEW t \in Txn, SelfAbort(t)
      PROVE  Invariant'
  <2>1. /\ UNCHANGED <<queue, upgrading, shared, exclusive>> /\ call' = call
        /\ state' \in [Txn -> {"ACTIVE", "ABORTED"}]
        BY <1>1, <1>3 DEF SelfAbort, TypeOK
  <2> QED  BY <1>1, <1>2, <2>1, CallStep DEF TypeOK, Calls
<1>4. ASSUME NEW t \in Txn, NEW r \in RID, LockShared(t, r)
      PROVE  Invariant'
      BY <1>4, EnqueueStep DEF LockShared
<1>5. ASSUME NEW t \in Txn, NEW r \in RID, LockExclusive(t, r)
      PROVE  Invariant'
      BY <1>3, <1>5, EnqueueStep DEF LockExclusive
<1>6. ASSUME NEW t \in Txn, NEW r \in RID, LockUpgrade(t, r)
      PROVE  Invariant'
      BY <1>3, <1>6, BeginUpgradeStep DEF LockUpgrade
<1>7. ASSUME NEW t \in Txn, NEW r \in RID, Unlock(t, r)
      PROVE  Invariant'
      BY <1>7, ReleaseStep DEF Unlock
<1>8. ASSUME NEW t \in Txn, SpuriousWakeup(t)
      PROVE  Invariant'
  <2>1. /\ [call[t] EXCEPT !.awake = TRUE] \in Blocked
        /\ SameCall([call[t] EXCEPT !.awake = TRUE], call[t])
        BY <1>8, BlockedCalls, Zenon DEF SpuriousWakeup, Waiting
  <2>2. /\ call' = [call EXCEPT ![t].awake = TRUE]
        /\ UNCHANGED <<queue, upgrading, shared, exclusive, state>>
        BY <1>8 DEF SpuriousWakeup
  <2>3. call' \in [Txn -> Calls] /\ \A u \in Txn : SameCall(call'[u], call[u])
        BY <1>1, <1>2, <2>1, <2>2 DEF TypeOK, Calls
  <2> QED  BY <1>1, <2>2, <2>3, CallStep DEF TypeOK
<1>9. ASSUME NEW t \in Txn, Resume(t)
      PROVE  Invariant'
      BY <1>9, ResumeStep
<1>10. ASSUME NEW t \in Txn, BeginReleaseAll(t)
       PROVE  Invariant'
  <2>1. /\ call' = [call EXCEPT ![t] = Releasing] /\ call[t] = Idle
        /\ UNCHANGED <<queue, upgrading, shared, exclusive, state>>
        BY <1>10 DEF BeginReleaseAll
  <2>2. call' \in [Txn -> Calls] /\ \A u \in Txn : SameCall(call'[u], call[u])
        BY <1>1, <2>1, NotBlocked DEF TypeOK, Calls, SameCall
  <2> QED  BY <1>1, <2>1, <2>2, CallStep DEF TypeOK
<1>11. ASSUME NEW t \in Txn, ReleaseSome(t)
       PROVE  Invariant'
  <2>1. PICK r \in RID : ReleaseOne(t, r)
        BY <1>11 DEF ReleaseSome
  <2> QED  BY <2>1, ReleaseStep DEF ReleaseOne
<1>12. ASSUME NEW t \in Txn, EndReleaseAll(t)
       PROVE  Invariant'
  <2>1. /\ call' = [call EXCEPT ![t] = Idle] /\ call[t] = Releasing
        /\ state' \in [Txn -> {"ACTIVE", "ABORTED"}]
        /\ UNCHANGED <<queue, upgrading, shared, exclusive>>
        BY <1>1, <1>12 DEF EndReleaseAll, TypeOK
  <2>2. call' \in [Txn -> Calls] /\ \A u \in Txn : SameCall(call'[u], call[u])
        BY <1>1, <2>1, NotBlocked DEF TypeOK, Calls, SameCall
  <2> QED  BY <2>1, <2>2, CallStep
<1>13. ASSUME NEW t \in Txn, Wound(t)
       PROVE  Invariant'
       BY <1>3, <1>13 DEF Wound, SelfAbort
<1>14. CASE UNCHANGED vars
  <2>1. UNCHANGED <<queue, upgrading, shared, exclusive>> /\ call' = call /\ state' = state
        BY <1>14 DEF vars
  <2> QED  BY <1>1, <1>2, <2>1, CallStep DEF TypeOK, Calls
<1> QED  BY <1>4, <1>5, <1>6, <1>7, <1>8, <1>9, <1>10, <1>11, <1>12, <1>13, <1>14
         DEF Next

-----------------------------------------------------------------------------
(* The theorems. *)

\* The invariant holds in every reachable state of the lock table.
THEOREM LockTableInvariant == Spec => []Invariant
BY InitInvariant, NextInvariant, PTL DEF Spec

\* What the invariant says of the lock sets: the holder of an exclusive lock is
\* alone, and a transaction that is done has left no request behind.
LEMMA InvariantImplies == Invariant => MutualExclusion /\ FinishedLeavesNoRequest
<1> SUFFICES ASSUME Invariant PROVE MutualExclusion /\ FinishedLeavesNoRequest
    OBVIOUS
<1>1. ASSUME NEW t \in Txn, NEW u \in Txn, NEW r \in RID, t # u,
             r \in exclusive[t], r \in shared[u] \cup exclusive[u]
      PROVE  FALSE
  <2>1. PICK i \in 1 .. Len(queue[r]) :
            queue[r][i].txn = t /\ queue[r][i].mode = "EXCLUSIVE" /\ queue[r][i].granted
        BY <1>1, RequestFacts DEF Holds
  <2>2. PICK j \in 1 .. Len(queue[r]) : queue[r][j].txn = u /\ queue[r][j].granted
        BY <1>1, RequestFacts DEF Holds
  <2>3. i = 1 /\ j = 1
        BY <2>1, <2>2 DEF Invariant, WellFormedQueue
  <2> QED  BY <1>1, <2>1, <2>2, <2>3
<1>2. MutualExclusion
      BY <1>1 DEF MutualExclusion, Invariant, TypeOK
<1>3. FinishedLeavesNoRequest
      BY RequestFacts DEF FinishedLeavesNoRequest, Waiting
<1> QED  BY <1>2, <1>3

\* No two transactions hold a record when one of them holds it exclusively.
THEOREM MutualExclusionAlways == Spec => []MutualExclusion
BY LockTableInvariant, InvariantImplies, PTL

\* The lock sets that releaseAll walks agree with the queues, always.
THEOREM LockSetsAgree == Spec => []LockSetsMatchQueue
<1>1. Invariant => LockSetsMatchQueue
      BY DEF Invariant
<1> QED  BY <1>1, LockTableInvariant, PTL

\* No stale upgrading flag and no forgotten request is ever left in a queue.
THEOREM NothingLeftBehind == Spec => [](UpgradeFlagOwned /\ FinishedLeavesNoRequest)
<1>1. Invariant => UpgradeFlagOwned /\ FinishedLeavesNoRequest
      BY InvariantImplies DEF Invariant
<1> QED  BY <1>1, LockTableInvariant, PTL
=============================================================================
