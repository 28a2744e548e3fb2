-------------------------- MODULE StatementsProofs --------------------------
(***************************************************************************)
(* Proofs about Statements, for every number of sessions, rows, keys,      *)
(* statements and transaction ids.                                         *)
(*                                                                         *)
(* The two managers keep their own invariants, by the theorems of their    *)
(* modules.  What a session relies on is Guarantee, which every step of    *)
(* another session gives: it changes the versions of its own rows only.    *)
(* So each step is studied for the session that takes it and for the state *)
(* all sessions share, and once for the sessions that stand by.            *)
(***************************************************************************)
EXTENDS Statements, FiniteSetTheorems, SequenceTheorems,
        WellFoundedInduction, TLAPS

LP == INSTANCE LockManagerProofs WITH Txn <- TxnId, Upgraders <- {}, Wounded <- {}
MP == INSTANCE MvccManagerProofs
         WITH Value <- Key, NoValue <- NoKey, MaxVersions <- MaxStatements + 1

-----------------------------------------------------------------------------
(* Data. *)

\* Rank numbers a finite set of numbers 1, 2, ... in increasing order.
LEMMA FiniteRanks ==
    ASSUME NEW keep \in SUBSET Nat, IsFiniteSet(keep)
    PROVE  /\ IsFiniteSet(keep) /\ Cardinality(keep) \in Nat
           /\ \A i \in keep : Rank(keep, i) \in 1 .. Cardinality(keep)
           /\ \A i, j \in keep : i < j => Rank(keep, i) < Rank(keep, j)
           /\ \A k \in 1 .. Cardinality(keep) : \E i \in keep : Rank(keep, i) = k
<1> DEFINE upto(i) == {j \in keep : j <= i}
           N == Cardinality(keep)
<1>1. IsFiniteSet(keep) /\ N \in Nat
  BY FS_CardinalityType
<1>2. ASSUME NEW i \in keep
      PROVE  IsFiniteSet(upto(i)) /\ Cardinality(upto(i)) \in 1 .. N
  <2>1. IsFiniteSet(upto(i)) /\ Cardinality(upto(i)) <= N
    <3>1. upto(i) \in SUBSET keep
      OBVIOUS
    <3> QED
      BY <1>1, <3>1, FS_Subset
  <2>2. i \in upto(i)
    OBVIOUS
  <2>3. Cardinality(upto(i)) \in Nat /\ Cardinality(upto(i)) # 0
    BY <2>1, <2>2, FS_CardinalityType, FS_EmptySet
  <2> QED
    BY <1>1, <2>1, <2>3
<1>3. ASSUME NEW i \in keep, NEW j \in keep, i < j
      PROVE  Cardinality(upto(i)) < Cardinality(upto(j))
  <2>1. upto(i) \in SUBSET upto(j)
    <3>1. \A x \in keep : x \in Int
      OBVIOUS
    <3>2. \A x \in keep : x <= i => x <= j
      BY <1>3, <3>1
    <3> QED
      BY <3>2
  <2>2. j \in upto(j) /\ j \notin upto(i)
    BY <1>3
  <2>3. /\ Cardinality(upto(i)) <= Cardinality(upto(j))
        /\ Cardinality(upto(j)) # Cardinality(upto(i))
    BY <1>2, <2>1, <2>2, FS_Subset
  <2> QED
    BY <1>2, <2>3
<1>4. ASSUME NEW k \in 1 .. N
      PROVE  \E i \in keep : Cardinality(upto(i)) = k
  <2> DEFINE f == [i \in keep |-> Cardinality(upto(i))]
  <2> HIDE DEF upto, N
  <2>1. f \in [keep -> 1 .. N]
    BY <1>2
  <2>2. \A i, j \in keep : f[i] = f[j] => i = j
    <3>1. \A i, j \in keep : i # j => i < j \/ j < i
      OBVIOUS
    <3>2. \A i, j \in keep : i < j => f[i] < f[j]
      BY <1>3
    <3>3. \A i \in keep : f[i] \in Nat
      BY <2>1
    <3> QED
      BY <3>1, <3>2, <3>3
  <2>3. f \in Injection(keep, 1 .. N)
    BY <2>1, <2>2, Zenon DEF Injection, IsInjective
  <2>4. IsFiniteSet(1 .. N) /\ Cardinality(1 .. N) = N
    BY <1>1, FS_Interval
  <2>5. f \in Surjection(keep, 1 .. N)
    BY <1>1, <2>3, <2>4, FS_Injection DEF N
  <2> QED
    BY <2>5 DEF Surjection
<1> QED
  BY <1>1, <1>2, <1>3, <1>4 DEF Rank

\* Picking from a function on numbers: what it has at the numbers that are
\* picked, beginning with the least of them.
LEMMA PickFunction ==
    ASSUME NEW D, NEW S, NEW f \in [D -> S], NEW keep \in SUBSET D, keep \in SUBSET Nat, IsFiniteSet(keep)
    PROVE  /\ Pick(f, keep) \in Seq(S)
           /\ \A k \in 1 .. Len(Pick(f, keep)) : \E i \in keep : Pick(f, keep)[k] = f[i]
           /\ \A m \in keep : (\A i \in keep : m <= i) =>
                 Pick(f, keep) # <<>> /\ Head(Pick(f, keep)) = f[m]
<1> DEFINE N == Cardinality(keep)
           at(k) == CHOOSE i \in keep : Rank(keep, i) = k
           new == [k \in 1 .. N |-> f[at(k)]]
<1>1. Pick(f, keep) = new
  BY DEF Pick
<1>2. /\ N \in Nat
      /\ \A i \in keep : Rank(keep, i) \in 1 .. N
      /\ \A i, j \in keep : i < j => Rank(keep, i) < Rank(keep, j)
      /\ \A k \in 1 .. N : \E i \in keep : Rank(keep, i) = k
  BY FiniteRanks
<1>3. \A k \in 1 .. N : at(k) \in keep /\ Rank(keep, at(k)) = k
  BY <1>2
<1> HIDE DEF at, N
<1>4. new \in Seq(S) /\ Len(new) = N /\ \A k \in 1 .. N : new[k] = f[at(k)]
  <2>1. \A k \in 1 .. N : f[at(k)] \in S
    BY <1>3
  <2> QED
    BY <1>2, <2>1
<1> HIDE DEF new
<1>5. ASSUME NEW m \in keep, \A i \in keep : m <= i
      PROVE  new # <<>> /\ Head(new) = f[m]
  <2>1. Rank(keep, m) \in 1 .. N /\ 1 \in 1 .. N
    BY <1>2
  <2>2. at(1) \in keep /\ Rank(keep, at(1)) = 1
    BY <1>3, <2>1
  <2>3. m = at(1)
    <3>1. m \in Nat /\ at(1) \in Nat /\ m <= at(1)
      BY <1>5, <2>2
    <3>2. m < at(1) => Rank(keep, m) < 1
      BY <1>2, <2>2
    <3> QED
      BY <2>1, <3>1, <3>2
  <2>4. new[1] = f[m] /\ Len(new) >= 1
    BY <1>2, <1>4, <2>1, <2>3
  <2> QED
    BY <1>4, <2>4
<1> QED
  BY <1>1, <1>3, <1>4, <1>5

-----------------------------------------------------------------------------
(* The managers. *)

\* The assumptions of the two managers hold of the constants they are given.
LEMMA ManagerConstants ==
    /\ NoTxn \notin TxnId
    /\ MaxTxnId \in Nat /\ MaxStatements \in Nat /\ MaxStatements + 1 \in Nat
    /\ NoKey \notin Key
    /\ \A t \in TxnId : t \in Nat
    /\ MaxRows \in Nat /\ \A r \in RID : r \in Nat
BY StatementsAssumption DEF TxnId, RID

\* The module with the proofs speaks of the same invariant.
LEMMA SameLockInvariant ==
    (LP!Invariant <=> Locks!Invariant) /\ (LP!Invariant' <=> Locks!Invariant')
BY DEF LP!Invariant, Locks!Invariant, LP!TypeOK, Locks!TypeOK,
       LP!WellFormedQueue, Locks!WellFormedQueue, LP!LockSetsMatchQueue, Locks!LockSetsMatchQueue,
       LP!WaitersMatchQueue, Locks!WaitersMatchQueue, LP!UpgradeFlagOwned, Locks!UpgradeFlagOwned,
       LP!LockRequest, Locks!LockRequest, LP!Holds, Locks!Holds, LP!Waits, Locks!Waits,
       LP!Waiting, Locks!Waiting, LP!Blocked, Locks!Blocked, LP!LockMode, Locks!LockMode,
       LP!Idle, Locks!Idle, LP!Releasing, Locks!Releasing, LP!ModeOf, Locks!ModeOf

\* The calls of the executors keep it.
LEMMA LockCallsKeep ==
    ASSUME NEW t \in TxnId, NEW r \in RID, Locks!Invariant,
           Locks!LockExclusive(t, r) \/ Locks!SpuriousWakeup(t) \/ Locks!Resume(t)
    PROVE  Locks!Invariant'
<1>1. LP!LockExclusive(t, r) \/ LP!SpuriousWakeup(t) \/ LP!Resume(t)
  <2>1. LP!LockExclusive(t, r) <=> Locks!LockExclusive(t, r)
    BY DEF LP!LockExclusive, Locks!LockExclusive, LP!SelfAbort, Locks!SelfAbort, LP!Enqueue, Locks!Enqueue,
           LP!EmplaceBack, Locks!EmplaceBack, LP!ModeOf, Locks!ModeOf, LP!CanGrant, Locks!CanGrant,
           LP!CanGrantShared, Locks!CanGrantShared, LP!CanGrantExclusive, Locks!CanGrantExclusive,
           LP!HasRequest, Locks!HasRequest, LP!IndexOf, Locks!IndexOf, LP!Granted, Locks!Granted,
           LP!GrantLock, Locks!GrantLock, LP!Idle, Locks!Idle, LP!Asleep, Locks!Asleep
  <2>2. LP!SpuriousWakeup(t) <=> Locks!SpuriousWakeup(t)
    BY DEF LP!SpuriousWakeup, Locks!SpuriousWakeup, LP!Waiting, Locks!Waiting, LP!Blocked, Locks!Blocked
  <2>3. LP!Resume(t) <=> Locks!Resume(t)
    BY DEF LP!Resume, Locks!Resume, LP!Waiting, Locks!Waiting, LP!Blocked, Locks!Blocked,
           LP!CanGrant, Locks!CanGrant, LP!CanGrantShared, Locks!CanGrantShared,
           LP!CanGrantExclusive, Locks!CanGrantExclusive, LP!HasRequest, Locks!HasRequest,
           LP!IndexOf, Locks!IndexOf, LP!Granted, Locks!Granted, LP!GrantLock, Locks!GrantLock,
           LP!Idle, Locks!Idle, LP!ClearUpgrade, Locks!ClearUpgrade, LP!Withdraw, Locks!Withdraw,
           LP!RemoveRequest, Locks!RemoveRequest, LP!RemoveAtIndex, Locks!RemoveAtIndex,
           LP!NotifyAll, Locks!NotifyAll
  <2> QED
    BY <2>1, <2>2, <2>3
<1>2. LP!Next
  BY <1>1 DEF LP!Next
<1> QED
  BY <1>2, SameLockInvariant, ManagerConstants, LP!NextInvariant

\* A record that is locked exclusively is locked by one transaction.
LEMMA LockedByOne ==
    ASSUME Locks!Invariant, NEW t \in TxnId, NEW u \in TxnId, NEW r,
           r \in exclusive[t], r \in exclusive[u]
    PROVE  t = u
BY SameLockInvariant, ManagerConstants, LP!InvariantImplies DEF LP!MutualExclusion

\* The same for the version chains.
LEMMA SameChainInvariant ==
    (MP!ChainInvariant <=> Mvcc!ChainInvariant) /\ (MP!ChainInvariant' <=> Mvcc!ChainInvariant')
BY DEF MP!ChainInvariant, Mvcc!ChainInvariant, MP!TypeOK, Mvcc!TypeOK, MP!SingleWriter, Mvcc!SingleWriter,
       MP!ChainLinked, Mvcc!ChainLinked, MP!IdsFresh, Mvcc!IdsFresh,
       MP!CommittedByFinished, Mvcc!CommittedByFinished, MP!TupleVersion, Mvcc!TupleVersion,
       MP!TxnId, Mvcc!TxnId, MP!Infinity, Mvcc!Infinity, MP!Status, Mvcc!Status

\* The calls of the executors keep it.
LEMMA ChainCallsKeep ==
    ASSUME NEW t \in TxnId, NEW r \in RID, NEW k \in Key, Mvcc!ChainInvariant,
           Mvcc!Insert(t, r, k) \/ Mvcc!Update(t, r, k) \/ Mvcc!Remove(t, r)
    PROVE  Mvcc!ChainInvariant'
<1>1. t \in MP!TxnId
  BY DEF TxnId, MP!TxnId
<1>2. MP!Insert(t, r, k) \/ MP!Update(t, r, k) \/ MP!Remove(t, r)
  BY DEF MP!Insert, Mvcc!Insert, MP!NewVersion, Mvcc!NewVersion, MP!Infinity, Mvcc!Infinity,
         MP!Update, Mvcc!Update, MP!Remove, Mvcc!Remove, MP!Write, Mvcc!Write,
         MP!HasWriteConflict, Mvcc!HasWriteConflict, MP!PushVersion, Mvcc!PushVersion
<1>3. MP!Next
  BY <1>1, <1>2 DEF MP!Next, MP!MvccStep
<1> QED
  BY <1>3, SameChainInvariant, ManagerConstants, MP!ChainInvariantStep

\* The calls of the sessions keep it.
LEMMA ChainSessionsKeep ==
    ASSUME NEW t \in TxnId, Mvcc!ChainInvariant, Mvcc!Begin(t) \/ Mvcc!MvccCommit(t) \/ Mvcc!TxnCommit(t)
    PROVE  Mvcc!ChainInvariant'
<1>1. t \in MP!TxnId
  BY DEF TxnId, MP!TxnId
<1>2. MP!Begin(t) \/ MP!MvccCommit(t) \/ MP!TxnCommit(t)
  BY DEF MP!Begin, Mvcc!Begin, MP!MvccCommit, Mvcc!MvccCommit, MP!Committed, Mvcc!Committed,
         MP!TxnCommit, Mvcc!TxnCommit
<1>3. MP!Next
  BY <1>1, <1>2 DEF MP!Next, MP!MvccStep
<1> QED
  BY <1>3, SameChainInvariant, ManagerConstants, MP!ChainInvariantStep

-----------------------------------------------------------------------------
(* What the calls of MvccManager do. *)

\* A version with data d on top of the chain of record r, by transaction t.
Grown(t, r, d, deleted) ==
    /\ status' = status /\ next_txn_id' = next_txn_id
    /\ \A q \in RID : q # r => chains'[q] = chains[q]
    /\ Len(chains'[r]) = Len(chains[r]) + 1
    /\ chains'[r][1].begin_txn_id = t
    /\ chains'[r][1].data = d
    /\ chains'[r][1].is_deleted = deleted
    /\ \A i \in 1 .. Len(chains[r]) :
          /\ chains'[r][i + 1].begin_txn_id = chains[r][i].begin_txn_id
          /\ chains'[r][i + 1].data = chains[r][i].data
          /\ chains'[r][i + 1].is_committed = chains[r][i].is_committed

\* The types of the versions.
LEMMA ChainTypes ==
    ASSUME Mvcc!TypeOK
    PROVE  /\ chains \in [RID -> Seq(MP!TupleVersion)]
           /\ \A r \in RID : chains[r] \in Seq(MP!TupleVersion) /\ Len(chains[r]) \in Nat
           /\ \A r \in RID : chains[r] # <<>> => 1 \in 1 .. Len(chains[r])
           /\ \A r \in RID : \A i \in 1 .. Len(chains[r]) :
                 /\ chains[r][i] \in MP!TupleVersion
                 /\ chains[r][i].begin_txn_id \in TxnId
                 /\ chains[r][i].is_committed \in BOOLEAN
                 /\ chains[r][i].is_deleted \in BOOLEAN
                 /\ chains[r][i].data \in Key \cup {NoKey}
           /\ status \in [TxnId -> MP!Status]
<1>1. chains \in [RID -> Seq(MP!TupleVersion)] /\ status \in [TxnId -> MP!Status]
  BY DEF Mvcc!TypeOK, Mvcc!TupleVersion, MP!TupleVersion, Mvcc!TxnId, MP!TxnId, TxnId,
         Mvcc!Infinity, MP!Infinity, Mvcc!Status, MP!Status
<1>2. \A r \in RID : chains[r] \in Seq(MP!TupleVersion)
  BY <1>1
<1>3. \A r \in RID : Len(chains[r]) \in Nat /\ (chains[r] # <<>> => 1 \in 1 .. Len(chains[r]))
  BY <1>2
<1>4. ASSUME NEW r \in RID, NEW i \in 1 .. Len(chains[r])
      PROVE  /\ chains[r][i] \in MP!TupleVersion
             /\ chains[r][i].begin_txn_id \in TxnId
             /\ chains[r][i].is_committed \in BOOLEAN
             /\ chains[r][i].is_deleted \in BOOLEAN
             /\ chains[r][i].data \in Key \cup {NoKey}
  <2>1. chains[r][i] \in MP!TupleVersion
    BY <1>2
  <2> QED
    BY <2>1 DEF MP!TupleVersion, MP!TxnId, TxnId
<1> QED
  BY <1>1, <1>2, <1>3, <1>4

\* insert at a record without versions.
LEMMA InsertGrows ==
    ASSUME Mvcc!TypeOK, NEW t \in TxnId, NEW r \in RID, NEW k \in Key,
           chains[r] = <<>>, Mvcc!Insert(t, r, k)
    PROVE  Grown(t, r, k, FALSE)
<1> DEFINE ver == Mvcc!NewVersion(t, k, FALSE)
<1>1. /\ chains' = [chains EXCEPT ![r] = <<ver>>]
      /\ status' = status /\ next_txn_id' = next_txn_id
  BY DEF Mvcc!Insert
<1>2. ver.begin_txn_id = t /\ ver.data = k /\ ver.is_deleted = FALSE
  BY DEF Mvcc!NewVersion
<1> HIDE DEF ver
<1>3. chains'[r] = <<ver>> /\ \A q \in RID : q # r => chains'[q] = chains[q]
  BY <1>1, ChainTypes
<1>4. Len(chains'[r]) = Len(chains[r]) + 1 /\ chains'[r][1] = ver /\ Len(chains[r]) = 0
  BY <1>3
<1> QED
  BY <1>1, <1>2, <1>3, <1>4 DEF Grown

\* update and remove.
LEMMA WriteGrows ==
    ASSUME Mvcc!TypeOK, NEW t \in TxnId, NEW r \in RID, NEW d \in Key \cup {NoKey}, NEW b \in BOOLEAN,
           Mvcc!Write(t, r, Mvcc!NewVersion(t, d, b))
    PROVE  Grown(t, r, d, b)
<1> DEFINE ver == Mvcc!NewVersion(t, d, b)
           new == MP!Pushed(chains[r], t, ver)
<1>1. /\ chains' = [chains EXCEPT ![r] = new] /\ chains[r] # <<>>
      /\ status' = status /\ next_txn_id' = next_txn_id
  BY ChainTypes DEF Mvcc!Write, Mvcc!PushVersion, MP!Pushed
<1>2. ver.begin_txn_id = t /\ ver.data = d /\ ver.is_deleted = b /\ ver \in MP!TupleVersion
  BY DEF Mvcc!NewVersion, MP!TupleVersion, MP!TxnId, TxnId, Mvcc!Infinity, MP!Infinity
<1> HIDE DEF ver
<1>3. t \in MP!TxnId /\ chains[r] \in Seq(MP!TupleVersion)
  BY ChainTypes DEF TxnId, MP!TxnId
<1>4. /\ Len(new) = Len(chains[r]) + 1 /\ new[1] = ver
      /\ \A i \in 1 .. Len(chains[r]) :
            new[i + 1] = IF i = 1 THEN [chains[r][1] EXCEPT !.end_txn_id = t] ELSE chains[r][i]
  BY <1>1, <1>2, <1>3, ManagerConstants, MP!PushShifts, SMTT(40)
<1> HIDE DEF new
<1>5. chains'[r] = new /\ \A q \in RID : q # r => chains'[q] = chains[q]
  BY <1>1, ChainTypes
<1>6. ASSUME NEW x \in MP!TupleVersion
      PROVE  /\ [x EXCEPT !.end_txn_id = t].begin_txn_id = x.begin_txn_id
             /\ [x EXCEPT !.end_txn_id = t].data = x.data
             /\ [x EXCEPT !.end_txn_id = t].is_committed = x.is_committed
  BY DEF MP!TupleVersion
<1>7. ASSUME NEW i \in 1 .. Len(chains[r])
      PROVE  /\ chains'[r][i + 1].begin_txn_id = chains[r][i].begin_txn_id
             /\ chains'[r][i + 1].data = chains[r][i].data
             /\ chains'[r][i + 1].is_committed = chains[r][i].is_committed
  <2>1. chains[r][i] \in MP!TupleVersion
    BY ChainTypes
  <2>2. chains'[r][i + 1] = IF i = 1 THEN [chains[r][i] EXCEPT !.end_txn_id = t] ELSE chains[r][i]
    BY <1>4, <1>5
  <2> QED
    BY <1>6, <2>1, <2>2
<1> QED
  BY <1>1, <1>2, <1>4, <1>5, <1>7 DEF Grown

\* commit touches the versions of the transaction and no others.
LEMMA CommitMarks ==
    ASSUME Mvcc!TypeOK, NEW t \in TxnId, Mvcc!MvccCommit(t)
    PROVE  /\ next_txn_id' = next_txn_id
           /\ status' = [status EXCEPT ![t] = "committed"] /\ status[t] = "active"
           /\ \A r \in RID :
                 /\ Len(chains'[r]) = Len(chains[r])
                 /\ \A i \in 1 .. Len(chains[r]) :
                       /\ chains'[r][i].begin_txn_id = chains[r][i].begin_txn_id
                       /\ chains'[r][i].data = chains[r][i].data
                       /\ chains'[r][i].is_deleted = chains[r][i].is_deleted
                       /\ chains[r][i].is_committed => chains'[r][i].is_committed
                 /\ (\A i \in 1 .. Len(chains[r]) : chains[r][i].begin_txn_id # t) => chains'[r] = chains[r]
<1>1. /\ next_txn_id' = next_txn_id /\ status' = [status EXCEPT ![t] = "committed"] /\ status[t] = "active"
      /\ \A r \in RID : chains'[r] = MP!Committed(chains[r], t)
  BY DEF Mvcc!MvccCommit, Mvcc!Committed, MP!Committed
<1>2. ASSUME NEW r \in RID
      PROVE  /\ Len(chains'[r]) = Len(chains[r])
             /\ \A i \in 1 .. Len(chains[r]) :
                   /\ chains'[r][i].begin_txn_id = chains[r][i].begin_txn_id
                   /\ chains'[r][i].data = chains[r][i].data
                   /\ chains'[r][i].is_deleted = chains[r][i].is_deleted
                   /\ chains[r][i].is_committed => chains'[r][i].is_committed
  <2>1. t \in MP!TxnId /\ chains[r] \in Seq(MP!TupleVersion)
    BY ChainTypes DEF TxnId, MP!TxnId
  <2> DEFINE new == MP!Committed(chains[r], t)
  <2>2. /\ Len(new) = Len(chains[r])
        /\ \A i \in 1 .. Len(chains[r]) :
              /\ new[i].begin_txn_id = chains[r][i].begin_txn_id
              /\ new[i].data = chains[r][i].data
              /\ new[i].is_deleted = chains[r][i].is_deleted
              /\ new[i].is_committed = (chains[r][i].is_committed \/ chains[r][i].begin_txn_id = t)
    BY <2>1, ManagerConstants, MP!CommittedFields
  <2> HIDE DEF new
  <2>3. chains'[r] = new
    BY <1>1 DEF new
  <2> QED
    BY <2>2, <2>3, Zenon
<1>3. ASSUME NEW r \in RID, \A i \in 1 .. Len(chains[r]) : chains[r][i].begin_txn_id # t
      PROVE  chains'[r] = chains[r]
  <2>1. chains'[r] = [i \in 1 .. Len(chains[r]) |-> chains[r][i]]
    BY <1>1, <1>3 DEF MP!Committed
  <2>2. chains[r] \in Seq(MP!TupleVersion)
    BY ChainTypes
  <2> QED
    BY <2>1, <2>2
<1> QED
  BY <1>1, <1>2, <1>3

-----------------------------------------------------------------------------
(* What reads find. *)

\* A read that finds something finds a readable version.
LEMMA ReadFinds ==
    ASSUME Mvcc!TypeOK, NEW t \in TxnId, NEW r \in RID, Mvcc!Read(t, r) # NoKey
    PROVE  \E i \in 1 .. Len(chains[r]) :
              /\ chains[r][i].data = Mvcc!Read(t, r)
              /\ chains[r][i].is_committed \/ chains[r][i].begin_txn_id = t
<1> DEFINE chain == chains[r]
           first == {i \in 1 .. Len(chain) :
                       /\ Mvcc!Readable(t, chain[i])
                       /\ \A j \in 1 .. (i - 1) : ~Mvcc!Readable(t, chain[j])}
           at == CHOOSE i \in first : TRUE
<1>1. Mvcc!Read(t, r) = IF first = {} THEN NoKey
                        ELSE IF chain[at].is_deleted THEN NoKey ELSE chain[at].data
  BY DEF Mvcc!Read, Mvcc!ReadFrom
<1>2. first # {} /\ Mvcc!Read(t, r) = chain[at].data
  BY <1>1, Zenon
<1>3. at \in first
  BY <1>2, Zenon
<1>4. at \in 1 .. Len(chain) /\ Mvcc!Readable(t, chain[at])
  BY <1>3, Zenon
<1>5. chain[at].is_committed \/ chain[at].begin_txn_id = t
  BY <1>4, Zenon DEF Mvcc!Readable, Mvcc!IsVisibleTo
<1> QED
  BY <1>2, <1>4, <1>5, Zenon

\* A head that is readable is what a read finds.
LEMMA ReadHead ==
    ASSUME Mvcc!TypeOK, NEW t \in TxnId, NEW r \in RID, chains[r] # <<>>,
           Mvcc!Readable(t, chains[r][1])
    PROVE  Mvcc!Read(t, r) = IF chains[r][1].is_deleted THEN NoKey ELSE chains[r][1].data
<1> DEFINE chain == chains[r]
           good(i) == Mvcc!Readable(t, chain[i])
           first == {i \in 1 .. Len(chain) : good(i) /\ \A j \in 1 .. (i - 1) : ~good(j)}
           at == CHOOSE i \in first : TRUE
<1>1. Mvcc!Read(t, r) = IF first = {} THEN NoKey
                        ELSE IF chain[at].is_deleted THEN NoKey ELSE chain[at].data
  BY DEF Mvcc!Read, Mvcc!ReadFrom
<1>2. 1 \in 1 .. Len(chain) /\ Len(chain) \in Nat /\ good(1)
  BY ChainTypes
<1> HIDE DEF good
<1>3. first = {1}
  <2>1. 1 \in first
    BY <1>2
  <2>2. ASSUME NEW i \in first PROVE i = 1
    <3>1. i \in Nat /\ i >= 1 /\ (i # 1 => 1 \in 1 .. (i - 1))
      BY <1>2
    <3> QED
      BY <1>2, <3>1
  <2> QED
    BY <2>1, <2>2
<1>4. at = 1
  BY <1>3
<1> QED
  BY <1>1, <1>3, <1>4

\* What is committed is the data of a live committed version.
LEMMA LatestFinds ==
    ASSUME Mvcc!TypeOK, NEW r \in RID, Mvcc!Latest(r) # NoKey
    PROVE  \E i \in 1 .. Len(chains[r]) :
              chains[r][i].is_committed /\ chains[r][i].data = Mvcc!Latest(r)
<1> DEFINE chain == chains[r]
           committed == {i \in 1 .. Len(chain) : chain[i].is_committed}
           newest == CHOOSE i \in committed : \A j \in committed : i <= j
<1>1. Mvcc!Latest(r) = IF committed = {} \/ chain[newest].is_deleted THEN NoKey ELSE chain[newest].data
  BY DEF Mvcc!Latest, Mvcc!LatestOf
<1>2. committed # {} /\ Mvcc!Latest(r) = chain[newest].data
  BY <1>1, Zenon
<1>3. committed \in SUBSET Nat
  BY ChainTypes
<1>4. \E i \in committed : \A j \in committed : i <= j
  BY <1>2, <1>3, ManagerConstants, MP!LeastNumber
<1>5. newest \in committed
  BY <1>4
<1> QED
  BY <1>2, <1>5

\* When every version is committed, the head is what is committed.
LEMMA LatestHead ==
    ASSUME Mvcc!TypeOK, NEW r \in RID, chains[r] # <<>>,
           \A i \in 1 .. Len(chains[r]) : chains[r][i].is_committed
    PROVE  Mvcc!Latest(r) = IF chains[r][1].is_deleted THEN NoKey ELSE chains[r][1].data
<1> DEFINE chain == chains[r]
           committed == {i \in 1 .. Len(chain) : chain[i].is_committed}
           newest == CHOOSE i \in committed : \A j \in committed : i <= j
<1>1. Mvcc!Latest(r) = IF committed = {} \/ chain[newest].is_deleted THEN NoKey ELSE chain[newest].data
  BY DEF Mvcc!Latest, Mvcc!LatestOf
<1>2. committed = 1 .. Len(chain) /\ Len(chain) \in Nat /\ 1 \in 1 .. Len(chain)
  BY ChainTypes
<1>3. newest \in committed /\ \A j \in committed : newest <= j
  <2>1. \A j \in committed : 1 <= j
    BY <1>2
  <2> QED
    BY <1>2, <2>1
<1>4. newest = 1
  BY <1>2, <1>3
<1> QED
  BY <1>1, <1>2, <1>4

-----------------------------------------------------------------------------
(* What the invariant says of rows and sessions. *)

\* The rows of the heap.
LEMMA HeapFacts ==
    ASSUME TypeOK
    PROVE  /\ Len(heap) \in 0 .. MaxRows /\ DOMAIN heap = 1 .. Len(heap)
           /\ \A r \in DOMAIN heap :
                 r \in RID /\ r \in Nat /\ heap[r] \in HeapRow /\ heap[r].key \in Key /\ heap[r].by \in TxnId
<1>1. heap \in Seq(HeapRow) /\ Len(heap) \in Nat /\ Len(heap) <= MaxRows
  BY DEF TypeOK
<1>2. \A r \in 1 .. Len(heap) : heap[r] \in HeapRow
  BY <1>1
<1> QED
  BY <1>1, <1>2, ManagerConstants DEF HeapRow, RID

\* The fields of a session.
LEMMA SessionFields ==
    ASSUME TypeOK, NEW s \in Session
    PROVE  /\ session[s] \in SessionState
           /\ session[s].at \in Place
           /\ session[s].txn \in TxnId
           /\ session[s].stmt \in StatementForm \cup {NoStatement}
           /\ session[s].scan \in Scan
           /\ session[s].rid \in 0 .. MaxRows
           /\ session[s].key \in Key \cup {NoKey}
           /\ session[s].out \in SUBSET Output
           /\ session[s].base \in SUBSET (RID \X Key)
<1>1. session[s] \in SessionState
  BY DEF TypeOK
<1> QED
  BY <1>1 DEF SessionState

\* A row whose transaction has finished: all versions are committed, and every
\* later transaction reads the head.
LEMMA FinishedRow ==
    ASSUME TypeOK, Mvcc!ChainInvariant, RowsOwned, NEW r \in DOMAIN heap, chains[r] # <<>>,
           status[heap[r].by] \in {"committed", "done"}
    PROVE  /\ Mvcc!Latest(r) = IF chains[r][1].is_deleted THEN NoKey ELSE chains[r][1].data
           /\ \A t \in TxnId : heap[r].by < t => Mvcc!Read(t, r) = Mvcc!Latest(r)
<1>1. r \in RID /\ heap[r].by \in TxnId /\ Mvcc!TypeOK
  BY HeapFacts DEF TypeOK
<1>2. \A i \in 1 .. Len(chains[r]) : chains[r][i].begin_txn_id = heap[r].by
  BY <1>1 DEF RowsOwned
<1>3. \A i \in 1 .. Len(chains[r]) : chains[r][i].is_committed
  <2>1. \A i \in 1 .. Len(chains[r]) : ~chains[r][i].is_committed => status[heap[r].by] = "active"
    BY <1>1, <1>2, Zenon DEF Mvcc!ChainInvariant, Mvcc!SingleWriter
  <2> QED
    BY <2>1
<1>4. Mvcc!Latest(r) = IF chains[r][1].is_deleted THEN NoKey ELSE chains[r][1].data
  BY <1>1, <1>3, LatestHead
<1>5. ASSUME NEW t \in TxnId, heap[r].by < t
      PROVE  Mvcc!Readable(t, chains[r][1])
  <2>1. 1 \in 1 .. Len(chains[r])
    BY <1>1, ChainTypes
  <2>2. chains[r][1].end_txn_id = MaxTxnId + 2
    BY <1>1, <2>1 DEF Mvcc!ChainInvariant, Mvcc!ChainLinked, Mvcc!Infinity
  <2>3. heap[r].by <= t /\ t < MaxTxnId + 2
    BY <1>1, <1>5, ManagerConstants DEF TxnId
  <2>4. chains[r][1].is_committed /\ chains[r][1].begin_txn_id = heap[r].by
    BY <1>2, <1>3, <2>1
  <2> QED
    BY <2>2, <2>3, <2>4, Zenon DEF Mvcc!Readable, Mvcc!IsVisibleTo
<1> QED
  BY <1>1, <1>4, <1>5, ReadHead

\* A row of a transaction that is not finished: it reads the head.
LEMMA OwnRow ==
    ASSUME TypeOK, Mvcc!ChainInvariant, RowsOwned, NEW r \in DOMAIN heap, chains[r] # <<>>,
           status[heap[r].by] = "active"
    PROVE  Mvcc!Read(heap[r].by, r) = IF chains[r][1].is_deleted THEN NoKey ELSE chains[r][1].data
<1>1. r \in RID /\ heap[r].by \in TxnId /\ Mvcc!TypeOK
  BY HeapFacts DEF TypeOK
<1>2. 1 \in 1 .. Len(chains[r])
  BY <1>1, ChainTypes
<1>3. chains[r][1].begin_txn_id = heap[r].by
  BY <1>1, <1>2 DEF RowsOwned
<1>4. chains[r][1].is_committed => status[heap[r].by] \in {"committed", "done"}
  BY <1>1, <1>2, <1>3, Zenon DEF Mvcc!ChainInvariant, Mvcc!CommittedByFinished
<1>5. ~chains[r][1].is_committed
  BY <1>4
<1>6. Mvcc!Readable(heap[r].by, chains[r][1])
  BY <1>3, <1>5 DEF Mvcc!Readable
<1> QED
  BY <1>1, <1>6, ReadHead

\* A row that was committed when a transaction began has had its key.
LEMMA BaseCarries ==
    ASSUME TypeOK, NEW s \in Session, BaseSound(s), NEW row \in session[s].base
    PROVE  row[1] \in RID /\ row[2] \in Key /\ row[1] \in Carriers(row[2])
<1>1. row[1] \in RID /\ row[2] \in Key /\ Mvcc!TypeOK
  BY SessionFields DEF TypeOK
<1>2. row[1] \in DOMAIN heap /\ Mvcc!Latest(row[1]) = row[2] /\ row[2] # NoKey
  BY <1>1, ManagerConstants DEF BaseSound
<1>3. \E i \in 1 .. Len(chains[row[1]]) : chains[row[1]][i].data = row[2]
  BY <1>1, <1>2, LatestFinds
<1> QED
  BY <1>1, <1>2, <1>3 DEF Carriers

-----------------------------------------------------------------------------
(* The sessions that stand by. *)

ReadSound(s) ==
    \A o \in session[s].out :
        /\ ~o.raw => \E i \in 1 .. Len(chains[o.rid]) :
              /\ chains[o.rid][i].data = o.key
              /\ chains[o.rid][i].is_committed \/ chains[o.rid][i].begin_txn_id = session[s].txn
        /\ o.raw => o.dirty

SessionSound(s) ==
    /\ PlaceSound(s) /\ ScanSound(s) /\ RowSound(s) /\ LockSound(s)
    /\ BaseSound(s) /\ SelectSound(s) /\ ReadSound(s)

\* What the other sessions can rely on when session s takes a step.
HeapKept ==
    /\ Len(heap') \in Nat /\ Len(heap) <= Len(heap')
    /\ \A r \in DOMAIN heap : r \in DOMAIN heap' /\ heap'[r] = heap[r]

OwnRowsOnly(s) ==
    \A r \in RID :
        \/ chains'[r] = chains[r]
        \/ /\ session[s].at # "idle" /\ status[session[s].txn] = "active"
           /\ r \in DOMAIN heap /\ heap[r].by = session[s].txn

VersionsKept ==
    \A r \in RID : \A i \in 1 .. Len(chains[r]) : \E j \in 1 .. Len(chains'[r]) :
        /\ chains'[r][j].data = chains[r][i].data
        /\ chains'[r][j].begin_txn_id = chains[r][i].begin_txn_id
        /\ chains[r][i].is_committed => chains'[r][j].is_committed

OthersKept(s) ==
    \A u \in Session : u # s =>
        /\ session'[u] = session[u]
        /\ session[u].at # "idle" =>
              /\ status'[session[u].txn] = status[session[u].txn]
              /\ call'[session[u].txn] = call[session[u].txn]

FinishedKept ==
    \A t \in TxnId :
        /\ status[t] \in {"committed", "done"} => status'[t] \in {"committed", "done"}
        /\ exclusive[t] \subseteq exclusive'[t]

IndexKept(s) ==
    \A k \in Key, r \in DOMAIN heap :
        /\ Indexed(k, r) /\ Carriers(k) = {r}
        /\ session[s].at = "idle" \/ heap[r].by # session[s].txn
        => Indexed(k, r)'

Guarantee(s) ==
    HeapKept /\ OwnRowsOnly(s) /\ VersionsKept /\ OthersKept(s) /\ FinishedKept /\ IndexKept(s)

\* A record that has had a key has had it for ever.
LEMMA CarriersGrow ==
    ASSUME TypeOK, HeapKept, VersionsKept, NEW k
    PROVE  Carriers(k) \subseteq Carriers(k)'
<1> SUFFICES ASSUME NEW r \in Carriers(k) PROVE r \in Carriers(k)'
  OBVIOUS
<1>1. r \in DOMAIN heap /\ r \in RID /\ r \in DOMAIN heap' /\ heap'[r] = heap[r]
  BY HeapFacts DEF HeapKept, Carriers
<1>2. heap[r].key = k \/ \E i \in 1 .. Len(chains[r]) : chains[r][i].data = k
  BY DEF Carriers
<1>3. heap'[r].key = k \/ \E i \in 1 .. Len(chains'[r]) : chains'[r][i].data = k
  <2>1. CASE heap[r].key = k
    BY <1>1, <2>1
  <2>2. ASSUME NEW i \in 1 .. Len(chains[r]), chains[r][i].data = k
        PROVE  \E j \in 1 .. Len(chains'[r]) : chains'[r][j].data = k
    <3>1. \E j \in 1 .. Len(chains'[r]) : chains'[r][j].data = chains[r][i].data
      BY <1>1, <2>2, Zenon DEF VersionsKept
    <3> QED
      BY <2>2, <3>1, Zenon
  <2> QED
    BY <1>2, <2>1, <2>2, Zenon
<1> QED
  BY <1>1, <1>3 DEF Carriers

\* The rows of a session that stands by are left alone.
LEMMA RowsLeftAlone ==
    ASSUME StatementsInvariant, NEW s \in Session, Guarantee(s), NEW u \in Session, u # s,
           session[u].at # "idle", NEW r \in DOMAIN heap
    PROVE  /\ heap[r].by = session[u].txn => chains'[r] = chains[r]
           /\ status[heap[r].by] \in {"committed", "done"} => chains'[r] = chains[r]
           /\ r \in RID /\ r \in DOMAIN heap' /\ heap'[r] = heap[r]
           /\ heap[r].by = session[u].txn => session[s].at = "idle" \/ heap[r].by # session[s].txn
<1>1. TypeOK /\ SessionsApart
  BY DEF StatementsInvariant
<1>2. r \in RID /\ r \in DOMAIN heap' /\ heap'[r] = heap[r]
  BY <1>1, HeapFacts DEF Guarantee, HeapKept
<1>3. \/ chains'[r] = chains[r]
      \/ session[s].at # "idle" /\ status[session[s].txn] = "active" /\ heap[r].by = session[s].txn
  BY <1>2 DEF Guarantee, OwnRowsOnly
<1>4. session[s].at # "idle" => session[s].txn # session[u].txn
  BY <1>1 DEF SessionsApart
<1> QED
  BY <1>2, <1>3, <1>4

\* What a session that stands by knows of its row stays true.
LEMMA RowStandsBy ==
    ASSUME StatementsInvariant, NEW s \in Session, Guarantee(s), NEW u \in Session, u # s
    PROVE  RowSound(u)'
<1> PICK me : me = session[u]
  OBVIOUS
<1> DEFINE r == me.rid
           busy == Inserting(u) \/ Changing(u) \/ Indexing(u)
<1>1. TypeOK /\ RowSound(u)
  BY DEF StatementsInvariant
<1>2. session'[u] = me
  BY DEF Guarantee, OthersKept
<1>3. /\ Inserting(u)' <=> Inserting(u)
      /\ Changing(u)' <=> Changing(u)
      /\ Indexing(u)' <=> Indexing(u)
      /\ (me.at = "index" \/ me.at = "reindex") => Indexing(u)
  BY <1>2 DEF Inserting, Changing, Indexing
<1>4. busy => session[u].at # "idle"
  BY DEF Inserting, Changing, Indexing
<1>5. busy => /\ me.stmt.op \in {"insert", "update", "delete"} /\ me.key \in Key
              /\ r \in Carriers(me.key) /\ r \in DOMAIN heap
  BY <1>1 DEF RowSound, Carriers
<1>6. Carriers(me.key) \subseteq Carriers(me.key)'
  BY <1>1, CarriersGrow DEF Guarantee
<1>7. busy => /\ heap'[r] = heap[r] /\ (heap[r].by = me.txn => chains'[r] = chains[r])
              /\ (heap[r].by = me.txn => session[s].at = "idle" \/ heap[r].by # session[s].txn)
  BY <1>4, <1>5, RowsLeftAlone
<1>8. ASSUME busy, heap[r].by = me.txn, NEW k PROVE LiveHead(r, k)' <=> LiveHead(r, k)
  BY <1>2, <1>7, <1>8 DEF LiveHead
<1>9. busy => me.stmt.op \in {"insert", "update", "delete"} /\ me.key \in Key /\ r \in Carriers(me.key)'
  BY <1>5, <1>6
<1>10. Inserting(u) => chains'[r] = <<>> /\ heap'[r].by = me.txn
  BY <1>1, <1>7 DEF RowSound
<1>11. Changing(u) /\ heap'[r].by = me.txn => LiveHead(r, me.key)'
  BY <1>1, <1>7, <1>8 DEF RowSound
<1>12. Indexing(u) =>
          /\ heap'[r].by = me.txn /\ chains'[r] # <<>>
          /\ me.stmt.op = "insert" => LiveHead(r, me.key)'
          /\ me.stmt.op = "update" => LiveHead(r, me.stmt.set)' /\ me.stmt.set \in Key
          /\ me.stmt.op = "delete" => chains'[r][1].is_deleted
  <2> SUFFICES ASSUME Indexing(u) PROVE
          /\ heap'[r].by = me.txn /\ chains'[r] # <<>>
          /\ me.stmt.op = "insert" => LiveHead(r, me.key)'
          /\ me.stmt.op = "update" => LiveHead(r, me.stmt.set)' /\ me.stmt.set \in Key
          /\ me.stmt.op = "delete" => chains'[r][1].is_deleted
    OBVIOUS
  <2>1. /\ heap[r].by = me.txn /\ chains[r] # <<>>
        /\ me.stmt.op = "insert" => LiveHead(r, me.key)
        /\ me.stmt.op = "update" => LiveHead(r, me.stmt.set) /\ me.stmt.set \in Key
        /\ me.stmt.op = "delete" => chains[r][1].is_deleted
    BY <1>1 DEF RowSound
  <2>2. chains'[r] = chains[r] /\ heap'[r] = heap[r]
    BY <1>7, <2>1
  <2>3. \A k : LiveHead(r, k) => LiveHead(r, k)'
    BY <1>8, <2>1
  <2> QED
    BY <2>1, <2>2, <2>3
<1>13. me.at = "reindex" => me.stmt.op = "update"
  BY <1>1 DEF RowSound
<1>14. ASSUME me.at = "index", me.stmt.op = "update", me.stmt.set = me.key, Carriers(me.key)' = {r}
       PROVE  Indexed(me.key, r)'
  <2>1. Indexing(u) /\ me.key \in Key /\ r \in DOMAIN heap
    BY <1>3, <1>5, <1>14
  <2>2. Carriers(me.key) = {r}
    BY <1>5, <1>6, <1>14, <2>1
  <2>3. Indexed(me.key, r) /\ heap[r].by = me.txn
    BY <1>1, <1>14, <2>1, <2>2 DEF RowSound
  <2>4. session[s].at = "idle" \/ heap[r].by # session[s].txn
    BY <1>7, <2>1, <2>3
  <2> QED
    BY <2>1, <2>2, <2>3, <2>4, Zenon DEF Guarantee, IndexKept
<1>15. /\ session'[u].rid = r /\ session'[u].key = me.key /\ session'[u].stmt = me.stmt
       /\ session'[u].at = me.at /\ session'[u].txn = me.txn
  BY <1>2
<1> HIDE DEF r
<1> QED
  BY <1>3, <1>9, <1>10, <1>11, <1>12, <1>13, <1>14, <1>15 DEF RowSound, LiveHead, Indexed, Carriers

\* What a session that stands by has been given stays true.
LEMMA BaseStandsBy ==
    ASSUME StatementsInvariant, NEW s \in Session, Guarantee(s), NEW u \in Session, u # s
    PROVE  BaseSound(u)'
<1> PICK me : me = session[u]
  OBVIOUS
<1>1. TypeOK /\ BaseSound(u) /\ PlaceSound(u)
  BY DEF StatementsInvariant
<1>2. session'[u] = me
  BY DEF Guarantee, OthersKept
<1> SUFFICES ASSUME NEW row \in me.base
             PROVE  /\ row[1] \in DOMAIN heap' /\ chains'[row[1]] # <<>>
                    /\ heap'[row[1]].by < me.txn
                    /\ status'[heap'[row[1]].by] \in {"committed", "done"}
                    /\ Mvcc!LatestOf(chains'[row[1]]) = row[2]
  BY <1>2 DEF BaseSound, Mvcc!Latest, Mvcc!LatestOf
<1>3. /\ row[1] \in DOMAIN heap /\ chains[row[1]] # <<>> /\ heap[row[1]].by < me.txn
      /\ status[heap[row[1]].by] \in {"committed", "done"} /\ Mvcc!LatestOf(chains[row[1]]) = row[2]
  BY <1>1 DEF BaseSound, Mvcc!Latest
<1>4. session[u].at # "idle"
  BY <1>1 DEF PlaceSound
<1>5. chains'[row[1]] = chains[row[1]] /\ row[1] \in DOMAIN heap' /\ heap'[row[1]] = heap[row[1]]
  BY <1>3, <1>4, RowsLeftAlone
<1>6. heap[row[1]].by \in TxnId
  BY <1>1, <1>3, HeapFacts
<1>7. status'[heap[row[1]].by] \in {"committed", "done"}
  BY <1>3, <1>6 DEF Guarantee, FinishedKept
<1> QED
  BY <1>3, <1>5, <1>7

\* What it has not returned yet stays ahead of it.
LEMMA SelectStandsBy ==
    ASSUME StatementsInvariant, NEW s \in Session, Guarantee(s), NEW u \in Session, u # s
    PROVE  SelectSound(u)'
<1> PICK me : me = session[u]
  OBVIOUS
<1>1. TypeOK /\ BaseSound(u) /\ SelectSound(u)
  BY DEF StatementsInvariant
<1>2. session'[u] = me
  BY DEF Guarantee, OthersKept
<1> SUFFICES ASSUME me.at \in {"row", "ready"}, me.stmt.op = "select", NEW row \in me.base
             PROVE  /\ me.stmt.where = NoKey =>
                          \/ \E o \in me.out : o.rid = row[1] /\ o.key = row[2]
                          \/ me.at = "row" /\ me.scan.pos # 0 /\ row[1] \in me.scan.pos .. me.scan.cached
                    /\ me.stmt.where = row[2] /\ Carriers(row[2])' = {row[1]} =>
                          \/ \E o \in me.out : o.rid = row[1]
                          \/ /\ me.at = "row" /\ me.scan.entries # <<>>
                             /\ Head(me.scan.entries) = row[1]
  BY <1>2 DEF SelectSound, Carriers
<1>3. row[1] \in Carriers(row[2])
  BY <1>1, BaseCarries
<1>4. Carriers(row[2]) \subseteq Carriers(row[2])'
  BY <1>1, CarriersGrow DEF Guarantee
<1>5. Carriers(row[2])' = {row[1]} => Carriers(row[2]) = {row[1]}
  BY <1>3, <1>4
<1> QED
  BY <1>1, <1>5 DEF SelectSound

\* What it has read stays committed or its own.
LEMMA ReadStandsBy ==
    ASSUME TypeOK, VersionsKept, NEW u \in Session, ReadSound(u), session'[u] = session[u]
    PROVE  ReadSound(u)'
<1> PICK me : me = session[u]
  OBVIOUS
<1> SUFFICES ASSUME NEW o \in me.out
             PROVE  /\ ~o.raw => \E i \in 1 .. Len(chains'[o.rid]) :
                          /\ chains'[o.rid][i].data = o.key
                          /\ chains'[o.rid][i].is_committed \/ chains'[o.rid][i].begin_txn_id = me.txn
                    /\ o.raw => o.dirty
  BY Zenon DEF ReadSound
<1>1. o.raw => o.dirty
  BY Zenon DEF ReadSound
<1>2. ASSUME ~o.raw
      PROVE  \E i \in 1 .. Len(chains'[o.rid]) :
                /\ chains'[o.rid][i].data = o.key
                /\ chains'[o.rid][i].is_committed \/ chains'[o.rid][i].begin_txn_id = me.txn
  <2>1. PICK i \in 1 .. Len(chains[o.rid]) :
            /\ chains[o.rid][i].data = o.key
            /\ chains[o.rid][i].is_committed \/ chains[o.rid][i].begin_txn_id = me.txn
    BY <1>2, Zenon DEF ReadSound
  <2>2. o.rid \in RID
    <3>1. o \in Output
      BY SessionFields
    <3> QED
      BY <3>1 DEF Output
  <2>3. PICK j \in 1 .. Len(chains'[o.rid]) :
            /\ chains'[o.rid][j].data = chains[o.rid][i].data
            /\ chains'[o.rid][j].begin_txn_id = chains[o.rid][i].begin_txn_id
            /\ chains[o.rid][i].is_committed => chains'[o.rid][j].is_committed
    BY <2>2, Zenon DEF VersionsKept
  <2> QED
    BY <2>1, <2>3, Zenon
<1> QED
  BY <1>1, <1>2, Zenon

\* All of it.
LEMMA StandsBy ==
    ASSUME StatementsInvariant, NEW s \in Session, Guarantee(s), NEW u \in Session, u # s
    PROVE  SessionSound(u)'
<1> PICK me : me = session[u]
  OBVIOUS
<1>1. /\ TypeOK /\ PlaceSound(u) /\ ScanSound(u) /\ LockSound(u) /\ ReadSound(u)
  <2>1. TypeOK /\ PlaceSound(u) /\ ScanSound(u) /\ LockSound(u) /\ ReadsCommitted
    BY DEF StatementsInvariant
  <2> QED
    BY <2>1, Zenon DEF ReadsCommitted, ReadSound
<1>2. session'[u] = me
  BY DEF Guarantee, OthersKept
<1>3. me.at # "idle" => status'[me.txn] = status[me.txn] /\ call'[me.txn] = call[me.txn]
  BY DEF Guarantee, OthersKept
<1>4. PlaceSound(u)'
  BY <1>1, <1>2, <1>3 DEF PlaceSound, Active, Running
<1>5. ScanSound(u)'
  <2>1. me.scan \in Scan /\ Len(heap) \in Nat
    BY <1>1, SessionFields, HeapFacts
  <2>2. me.scan.cached \in Nat
    BY <2>1, ManagerConstants DEF Scan
  <2>3. me.scan.cached <= Len(heap')
    <3>1. me.scan.cached <= Len(heap) /\ Len(heap) <= Len(heap') /\ Len(heap') \in Nat
      BY <1>1 DEF ScanSound, Guarantee, HeapKept
    <3> QED
      BY <2>1, <2>2, <3>1
  <2>4. \A i \in 1 .. Len(me.scan.entries) : me.scan.entries[i] \in DOMAIN heap'
    BY <1>1 DEF ScanSound, Guarantee, HeapKept
  <2> QED
    BY <1>1, <1>2, <2>3, <2>4 DEF ScanSound
<1>6. LockSound(u)'
  <2>1. exclusive[me.txn] \subseteq exclusive'[me.txn]
    BY <1>1, SessionFields DEF Guarantee, FinishedKept
  <2> QED
    BY <1>1, <1>2, <1>3, <2>1 DEF LockSound
<1>7. ReadSound(u)'
  BY <1>1, <1>2, ReadStandsBy DEF Guarantee
<1> QED
  BY <1>4, <1>5, <1>6, <1>7, RowStandsBy, BaseStandsBy, SelectStandsBy DEF SessionSound

-----------------------------------------------------------------------------
(* Steps in general. *)

\* The invariant holds after a step if it holds of the state that is shared and
\* of the session that has taken the step.
LEMMA Assemble ==
    ASSUME StatementsInvariant, NEW s \in Session, Guarantee(s), SessionSound(s)',
           TypeOK', Mvcc!ChainInvariant', LocksSound', SessionsApart', RowsOwned', IndexSound', VersionsLogged'
    PROVE  StatementsInvariant'
<1>1. \A u \in Session : SessionSound(u)'
  BY StandsBy
<1>2. \A u \in Session : /\ PlaceSound(u)' /\ ScanSound(u)' /\ RowSound(u)'
                         /\ LockSound(u)' /\ BaseSound(u)' /\ SelectSound(u)'
  BY <1>1 DEF SessionSound
<1>3. \A u \in Session : ReadSound(u)'
  BY <1>1 DEF SessionSound
<1>4. ReadsCommitted'
  BY <1>3, Zenon DEF ReadsCommitted, ReadSound
<1> QED
  BY <1>2, <1>4 DEF StatementsInvariant

\* A step that begins no transaction leaves the sessions apart.
LEMMA StayApart ==
    ASSUME SessionsApart, NEW s \in Session, OthersKept(s),
           session'[s].at # "idle" => session[s].at # "idle" /\ session'[s].txn = session[s].txn
    PROVE  SessionsApart'
BY DEF SessionsApart, OthersKept

\* What changes when one session changes its state.
LEMMA SessionMoves ==
    ASSUME TypeOK, NEW s \in Session, NEW new \in SessionState, session' = [session EXCEPT ![s] = new]
    PROVE  /\ session' \in [Session -> SessionState]
           /\ session'[s] = new
           /\ \A u \in Session : u # s => session'[u] = session[u]
BY DEF TypeOK

\* Versions that do not change are kept.
LEMMA SameVersions ==
    ASSUME chains' = chains
    PROVE  VersionsKept /\ \A s \in Session : OwnRowsOnly(s)
<1>1. VersionsKept
  <2> SUFFICES ASSUME NEW r \in RID, NEW i \in 1 .. Len(chains[r])
               PROVE  \E j \in 1 .. Len(chains[r]) :
                         /\ chains[r][j].data = chains[r][i].data
                         /\ chains[r][j].begin_txn_id = chains[r][i].begin_txn_id
                         /\ chains[r][i].is_committed => chains[r][j].is_committed
    BY Zenon DEF VersionsKept
  <2> QED
    BY Zenon
<1>2. \A s \in Session : OwnRowsOnly(s)
  BY DEF OwnRowsOnly
<1> QED
  BY <1>1, <1>2

\* A heap and an index that do not change are kept.
LEMMA SameStore ==
    ASSUME TypeOK
    PROVE  /\ heap' = heap => HeapKept
           /\ index' = index => \A s \in Session : IndexKept(s)
<1>1. heap' = heap => HeapKept
  BY HeapFacts DEF HeapKept
<1>2. index' = index => \A s \in Session : IndexKept(s)
  BY DEF IndexKept, Indexed
<1> QED
  BY <1>1, <1>2

\* Locks that do not change stay sound when no session leaves a call.
LEMMA SameLocks ==
    ASSUME LocksSound, NEW s \in Session, UNCHANGED lockVars, OthersKept(s),
           session[s].at = "version" => \/ call[session[s].txn] = Locks!Idle
                                        \/ session'[s].at = "version" /\ session'[s].txn = session[s].txn
    PROVE  LocksSound'
<1>1. Locks!Invariant'
  BY DEF LocksSound, lockVars, Locks!Invariant, Locks!TypeOK, Locks!LockSetsMatchQueue,
         Locks!WaitersMatchQueue, Locks!UpgradeFlagOwned, Locks!Waiting
<1>2. ASSUME NEW t \in TxnId, call'[t] # Locks!Idle
      PROVE  \E u \in Session : session'[u].at = "version" /\ session'[u].txn = t
  <2>1. PICK u \in Session : session[u].at = "version" /\ session[u].txn = t
    BY <1>2 DEF LocksSound, lockVars
  <2>2. CASE u # s
    BY <2>1, <2>2 DEF OthersKept
  <2>3. CASE u = s
    BY <1>2, <2>1, <2>3 DEF lockVars
  <2> QED
    BY <2>2, <2>3
<1>3. \A t \in TxnId : shared'[t] = {} /\ state'[t] = "ACTIVE"
  BY DEF LocksSound, lockVars
<1>4. Locks!Idle' = Locks!Idle
  BY DEF Locks!Idle
<1> QED
  BY <1>1, <1>2, <1>3, <1>4 DEF LocksSound

\* Version chains that do not change stay sound.
LEMMA SameChains ==
    ASSUME Mvcc!ChainInvariant, UNCHANGED mvccVars
    PROVE  Mvcc!ChainInvariant'
BY DEF mvccVars, Mvcc!ChainInvariant, Mvcc!TypeOK, Mvcc!SingleWriter, Mvcc!ChainLinked, Mvcc!IdsFresh,
       Mvcc!CommittedByFinished

\* A step that changes nothing but what the session keeps itself, while it
\* has no row in hand that others wait for.
LEMMA QuietStep ==
    ASSUME StatementsInvariant, NEW s \in Session, NEW new \in SessionState,
           session' = [session EXCEPT ![s] = new], UNCHANGED <<mvccVars, lockVars, storeVars>>,
           session[s].at # "idle", ~Inserting(s), ~Indexing(s),
           session[s].at = "version" => call[session[s].txn] = Locks!Idle,
           new.at \in {"idle", "ready", "row", "lock"},
           new.at = "idle" \/ new.txn = session[s].txn,
           SessionSound(s)'
    PROVE  StatementsInvariant'
<1>1. /\ TypeOK /\ Mvcc!ChainInvariant /\ LocksSound /\ SessionsApart /\ RowsOwned /\ IndexSound
      /\ VersionsLogged
  BY DEF StatementsInvariant
<1>2. /\ session' \in [Session -> SessionState] /\ session'[s] = new
      /\ \A u \in Session : u # s => session'[u] = session[u]
  BY <1>1, SessionMoves
<1>3. /\ chains' = chains /\ next_txn_id' = next_txn_id /\ status' = status
      /\ queue' = queue /\ upgrading' = upgrading /\ shared' = shared /\ exclusive' = exclusive
      /\ state' = state /\ call' = call
      /\ heap' = heap /\ index' = index /\ log_records' = log_records
  BY DEF mvccVars, lockVars, storeVars
<1>4. OthersKept(s) /\ FinishedKept
  BY <1>2, <1>3 DEF OthersKept, FinishedKept
<1>5. Guarantee(s)
  BY <1>1, <1>3, <1>4, SameVersions, SameStore DEF Guarantee
<1>6. TypeOK'
  BY <1>1, <1>2, <1>3 DEF TypeOK, Mvcc!TypeOK, Locks!TypeOK
<1>7. Mvcc!ChainInvariant'
  BY <1>1, SameChains
<1>8. LocksSound'
  BY <1>1, <1>4, SameLocks
<1>9. SessionsApart'
  BY <1>1, <1>2, <1>4, StayApart
<1>10. \A u \in Session : Indexing(u)' <=> Indexing(u)
  BY <1>2 DEF Indexing
<1>11. ASSUME NEW u \in Session, Inserting(u)
       PROVE  Inserting(u)' /\ session'[u] = session[u]
  BY <1>2, <1>11 DEF Inserting
<1>12. RowsOwned'
  <2> SUFFICES ASSUME NEW r \in RID
               PROVE  /\ Len(chains[r]) <= MaxStatements + 1
                      /\ r \notin DOMAIN heap => chains[r] = <<>>
                      /\ r \in DOMAIN heap /\ chains[r] # <<>> =>
                            /\ r \in exclusive[heap[r].by]
                            /\ \A i \in 1 .. Len(chains[r]) : chains[r][i].begin_txn_id = heap[r].by
                      /\ r \in DOMAIN heap /\ chains[r] = <<>> =>
                            \E u \in Session : Inserting(u)' /\ session'[u].rid = r
    BY <1>3 DEF RowsOwned
  <2> QED
    BY <1>1, <1>11 DEF RowsOwned
<1>13. IndexSound'
  <2>1. \A k : Carriers(k)' = Carriers(k)
    BY <1>3 DEF Carriers
  <2>2. \A r, k : (LiveHead(r, k)' <=> LiveHead(r, k)) /\ (Indexed(k, r)' <=> Indexed(k, r))
    BY <1>3 DEF LiveHead, Indexed
  <2>3. \A u \in Session : Indexing(u) => session'[u] = session[u]
    BY <1>2
  <2> QED
    BY <1>1, <1>3, <1>10, <2>1, <2>2, <2>3 DEF IndexSound
<1>14. VersionsLogged'
  <2>1. \A t : VersionsOf(t)' = VersionsOf(t)
    BY <1>3 DEF VersionsOf
  <2>2. \A u \in Session : Indexing(u) => session'[u] = session[u]
    BY <1>2
  <2>3. ASSUME NEW t \in TxnId
        PROVE  (\E u \in Session : Indexing(u)' /\ session'[u].txn = t)
                  <=> (\E u \in Session : Indexing(u) /\ session[u].txn = t)
    BY <1>10, <2>2
  <2> QED
    BY <1>1, <1>3, <2>1, <2>3 DEF VersionsLogged
<1> QED
  BY <1>5, <1>6, <1>7, <1>8, <1>9, <1>12, <1>13, <1>14, Assemble

-----------------------------------------------------------------------------
(* Steps that change nothing but the session. *)

\* The parts of a statement.
LEMMA StatementFields ==
    ASSUME NEW x \in StatementForm
    PROVE  /\ x.op \in {"insert", "select", "update", "delete"} /\ x # NoStatement
           /\ x.op = "insert" => x.rows \in Seq(Key \cup {Throws})
           /\ x.op # "insert" => x.where \in Key \cup {NoKey}
           /\ x.op = "update" => x.set \in Key \cup {Throws}
<1>1. CASE x \in [op : {"insert"}, rows : Seq(Key \cup {Throws})]
  BY <1>1 DEF NoStatement
<1>2. CASE x \in [op : {"select", "delete"}, where : Key \cup {NoKey}]
  BY <1>2 DEF NoStatement
<1>3. CASE x \in [op : {"update"}, where : Key \cup {NoKey}, set : Key \cup {Throws}]
  BY <1>3 DEF NoStatement
<1> QED
  BY <1>1, <1>2, <1>3 DEF StatementForm

\* A scan that has not started.
LEMMA NoScanFields ==
    /\ NoScan \in Scan /\ NoScan.pos = 0 /\ NoScan.cached = 0 /\ NoScan.entries = <<>>
    /\ Len(NoScan.entries) = 0
BY ManagerConstants DEF NoScan, Scan

\* A session without a transaction.
LEMMA IdleFields ==
    /\ Idle \in SessionState /\ Idle.at = "idle" /\ Idle.txn = 0 /\ Idle.stmt = NoStatement
    /\ Idle.scan = NoScan /\ Idle.out = {} /\ Idle.base = {}
BY NoScanFields, ManagerConstants DEF Idle, SessionState, Place, TxnId


\* The parts of SessionSound of a session that would be at x.
ScanOK(scan) ==
    /\ scan.pos <= scan.cached /\ scan.cached <= Len(heap)
    /\ \A i \in 1 .. Len(scan.entries) : scan.entries[i] \in DOMAIN heap

ReadOK(o, t) ==
    /\ ~o.raw => \E i \in 1 .. Len(chains[o.rid]) :
          /\ chains[o.rid][i].data = o.key
          /\ chains[o.rid][i].is_committed \/ chains[o.rid][i].begin_txn_id = t
    /\ o.raw => o.dirty

SelectOK(x) ==
    \A row \in x.base :
        /\ x.stmt.where = NoKey =>
              \/ \E o \in x.out : o.rid = row[1] /\ o.key = row[2]
              \/ x.at = "row" /\ x.scan.pos # 0 /\ row[1] \in x.scan.pos .. x.scan.cached
        /\ x.stmt.where = row[2] /\ Carriers(row[2]) = {row[1]} =>
              \/ \E o \in x.out : o.rid = row[1]
              \/ x.at = "row" /\ x.scan.entries # <<>> /\ Head(x.scan.entries) = row[1]

\* What the invariant says of the session that takes the step.
LEMMA MySession ==
    ASSUME StatementsInvariant, NEW s \in Session, NEW me, me = session[s]
    PROVE  /\ TypeOK /\ me \in SessionState /\ me.txn \in TxnId /\ SessionSound(s)
           /\ ScanOK(me.scan)
           /\ \A o \in me.out : ReadOK(o, me.txn)
           /\ me.at \in {"row", "ready"} /\ me.stmt.op = "select" => SelectOK(me)
           /\ Running(s) => me.stmt \in StatementForm
<1>1. /\ TypeOK /\ PlaceSound(s) /\ ScanSound(s) /\ RowSound(s)
      /\ LockSound(s) /\ BaseSound(s) /\ SelectSound(s) /\ ReadsCommitted
  BY DEF StatementsInvariant
<1>2. ReadSound(s) /\ \A o \in me.out : ReadOK(o, me.txn)
  BY <1>1, Zenon DEF ReadsCommitted, ReadSound, ReadOK
<1>3. me \in SessionState /\ me.stmt \in StatementForm \cup {NoStatement} /\ me.txn \in TxnId
  BY <1>1, SessionFields
<1>4. ScanOK(me.scan)
  BY <1>1 DEF ScanSound, ScanOK
<1>5. me.at \in {"row", "ready"} /\ me.stmt.op = "select" => SelectOK(me)
  BY <1>1 DEF SelectSound, SelectOK
<1>6. Running(s) => me.stmt \in StatementForm
  BY <1>1, <1>3 DEF PlaceSound
<1> QED
  BY <1>1, <1>2, <1>3, <1>4, <1>5, <1>6 DEF SessionSound

\* A session between two rows or two statements.
LEMMA CalmSound ==
    ASSUME StatementsInvariant, NEW s \in Session, NEW new \in SessionState, session'[s] = new,
           UNCHANGED <<mvccVars, lockVars, storeVars>>,
           Active(s), new.at \in {"row", "ready"},
           new.txn = session[s].txn, new.base = session[s].base, new.stmt # NoStatement,
           ScanOK(new.scan), \A o \in new.out : ReadOK(o, new.txn),
           new.stmt.op = "select" => SelectOK(new)
    PROVE  SessionSound(s)'
<1>1. PlaceSound(s) /\ BaseSound(s) /\ TypeOK
  BY MySession DEF SessionSound
<1>2. chains' = chains /\ status' = status /\ heap' = heap
  BY DEF mvccVars, storeVars
<1>3. PlaceSound(s)'
  BY <1>1, <1>2 DEF PlaceSound, Active, Running
<1>4. ScanSound(s)'
  BY <1>2 DEF ScanSound, ScanOK
<1>5. RowSound(s)'
  BY DEF RowSound, Inserting, Changing, Indexing
<1>6. LockSound(s)'
  BY DEF LockSound
<1>7. BaseSound(s)'
  BY <1>1, <1>2 DEF BaseSound, Mvcc!Latest, Mvcc!LatestOf
<1>8. SelectSound(s)'
  <2>1. \A k : Carriers(k)' = Carriers(k)
    BY <1>2 DEF Carriers
  <2>2. new.stmt.op = "select" => SelectOK(new)'
    BY <2>1 DEF SelectOK
  <2> QED
    BY <2>2 DEF SelectSound, SelectOK
<1>9. ReadSound(s)'
  <2>1. \A o \in new.out : ReadOK(o, new.txn)'
    BY <1>2, Zenon DEF ReadOK
  <2> QED
    BY <2>1, Zenon DEF ReadSound, ReadOK
<1> QED
  BY <1>3, <1>4, <1>5, <1>6, <1>7, <1>8, <1>9 DEF SessionSound

\* A session that has thrown, or whose transaction is over.
LEMMA IdleSound ==
    ASSUME NEW s \in Session, session'[s] = Idle, Len(heap') \in Nat
    PROVE  SessionSound(s)'
<1>1. PlaceSound(s)' /\ RowSound(s)' /\ LockSound(s)' /\ BaseSound(s)' /\ SelectSound(s)' /\ ReadSound(s)'
  BY IdleFields DEF PlaceSound, Active, Running, RowSound, Inserting, Changing, Indexing, LockSound,
                    BaseSound, SelectSound, ReadSound
<1>2. ScanSound(s)'
  BY IdleFields, NoScanFields DEF ScanSound
<1> QED
  BY <1>1, <1>2 DEF SessionSound

\* next() of the root returns false.
LEMMA FinishStatementKeeps ==
    ASSUME StatementsInvariant, NEW s \in Session, FinishStatement(s)
    PROVE  StatementsInvariant'
<1> PICK me : me = session[s]
  OBVIOUS
<1> DEFINE new == [me EXCEPT !.at = "ready", !.scan = NoScan]
<1>1. TypeOK /\ me \in SessionState
  BY SessionFields DEF StatementsInvariant
<1>2. session' = [session EXCEPT ![s] = new]
  BY DEF FinishStatement
<1>3. /\ new \in SessionState /\ new.at = "ready" /\ new.txn = me.txn /\ new.stmt = me.stmt
      /\ new.scan = NoScan /\ new.out = me.out /\ new.base = me.base
  BY <1>1, NoScanFields DEF SessionState, Place
<1> HIDE DEF new
<1>4. session[s].at = "row" /\ Running(s) /\ AtEnd(s) /\ UNCHANGED <<mvccVars, lockVars, storeVars>>
  BY DEF FinishStatement, Running
<1>5. session'[s] = new
  BY <1>1, <1>2, <1>3, SessionMoves
<1>6. me.stmt \in StatementForm
  BY <1>4, MySession
<1>7. new.stmt.op = "select" => SelectOK(new)
  <2> SUFFICES ASSUME me.stmt.op = "select" PROVE SelectOK(new)
    BY <1>3
  <2>1. SelectOK(me)
    BY <1>4, MySession
  <2>2. IF me.stmt.where = NoKey THEN me.scan.pos = 0 ELSE me.scan.entries = <<>>
    BY <1>4 DEF AtEnd
  <2>3. \A row \in me.base : row[2] # NoKey
    BY <1>1, SessionFields, ManagerConstants
  <2> QED
    BY <1>3, <1>4, <2>1, <2>2, <2>3 DEF SelectOK
<1>8. ScanOK(new.scan)
  BY <1>1, <1>3, NoScanFields, HeapFacts DEF ScanOK
<1>9. SessionSound(s)'
  <2>1. \A o \in new.out : ReadOK(o, new.txn)
    BY <1>3, MySession
  <2>2. new.stmt # NoStatement
    BY <1>3, <1>6, StatementFields
  <2> QED
    BY <1>3, <1>4, <1>5, <1>7, <1>8, <2>1, <2>2, CalmSound DEF Active
<1> QED
  BY <1>2, <1>3, <1>4, <1>9, QuietStep DEF Inserting, Indexing

\* The iterators that a scan begins with.
LEMMA ScanBegins ==
    ASSUME TypeOK, IndexSound
    PROVE  /\ HeapBegin \in Scan /\ ScanOK(HeapBegin) /\ HeapBegin.cached = Len(heap)
           /\ HeapBegin.pos = IF heap = <<>> THEN 0 ELSE 1
           /\ \A k \in Key :
                 /\ IndexBegin(k) \in Scan /\ ScanOK(IndexBegin(k))
                 /\ k \in DOMAIN index => /\ IndexBegin(k).entries # <<>>
                                          /\ Head(IndexBegin(k).entries) = index[k]
<1>1. Len(heap) \in 0 .. MaxRows /\ MaxRows \in Nat /\ DOMAIN heap = 1 .. Len(heap)
  BY HeapFacts, ManagerConstants
<1>2. /\ HeapBegin.cached = Len(heap) /\ HeapBegin.pos = (IF heap = <<>> THEN 0 ELSE 1)
      /\ HeapBegin.entries = <<>> /\ HeapBegin \in Scan
  <2>1. heap = <<>> \/ 1 <= Len(heap)
    BY <1>1, EmptySeq DEF TypeOK
  <2> PICK p : p = IF heap = <<>> THEN 0 ELSE 1
    OBVIOUS
  <2> PICK n : n = Len(heap)
    OBVIOUS
  <2>2. p \in 0 .. MaxRows /\ n \in 0 .. MaxRows
    BY <1>1, <2>1
  <2>3. HeapBegin = [NoScan EXCEPT !.pos = p, !.cached = n]
    BY DEF HeapBegin
  <2>4. /\ HeapBegin.cached = n /\ HeapBegin.pos = p /\ HeapBegin.entries = <<>> /\ HeapBegin \in Scan
    BY <2>2, <2>3, NoScanFields DEF NoScan, Scan
  <2> QED
    BY <2>4
<1>3. heap = <<>> \/ 1 <= Len(heap)
  BY <1>1, EmptySeq DEF TypeOK
<1>4. ScanOK(HeapBegin)
  BY <1>1, <1>2, <1>3 DEF ScanOK
<1>5. ASSUME NEW k \in Key
      PROVE  /\ IndexBegin(k) \in Scan /\ ScanOK(IndexBegin(k))
             /\ k \in DOMAIN index => /\ IndexBegin(k).entries # <<>>
                                      /\ Head(IndexBegin(k).entries) = index[k]
  <2> DEFINE later == {j \in DOMAIN index : j >= k}
             picked == Pick(index, later)
  <2>1. /\ index \in [DOMAIN index -> RID] /\ DOMAIN index \subseteq Nat /\ IsFiniteSet(DOMAIN index) /\ k \in Nat
        /\ \A j \in DOMAIN index : index[j] \in DOMAIN heap
    BY StatementsAssumption DEF TypeOK, IndexSound, Carriers
  <2>2. later \in SUBSET DOMAIN index /\ later \in SUBSET Nat
    BY <2>1
  <2>3. IsFiniteSet(later)
    BY <2>1, <2>2, FS_Subset
  <2>4. \A i \in later : k <= i
    BY <2>1
  <2>5. k \in DOMAIN index => k \in later
    BY <2>1
  <2> HIDE DEF later
  <2>6. /\ picked \in Seq(RID)
        /\ \A n \in 1 .. Len(picked) : \E i \in later : picked[n] = index[i]
        /\ \A m \in later : (\A i \in later : m <= i) => picked # <<>> /\ Head(picked) = index[m]
    <3> PICK D : D = DOMAIN index
      OBVIOUS
    <3>1. index \in [D -> RID] /\ later \in SUBSET D
      BY <2>1, <2>2
    <3> QED
      BY <2>2, <2>3, <3>1, PickFunction
  <2>7. \A n \in 1 .. Len(picked) : picked[n] \in DOMAIN heap
    BY <2>1, <2>2, <2>6
  <2>8. k \in DOMAIN index => picked # <<>> /\ Head(picked) = index[k]
    BY <2>4, <2>5, <2>6
  <2>9. IndexBegin(k) = [NoScan EXCEPT !.entries = picked]
    BY DEF IndexBegin, later
  <2> HIDE DEF picked
  <2>10. /\ IndexBegin(k) \in Scan /\ IndexBegin(k).pos = 0 /\ IndexBegin(k).cached = 0
         /\ IndexBegin(k).entries = picked
    BY <1>1, <2>6, <2>9 DEF Scan, NoScan
  <2>11. ScanOK(IndexBegin(k))
    BY <1>1, <2>7, <2>10 DEF ScanOK
  <2> QED
    BY <2>8, <2>10, <2>11
<1> QED
  BY <1>2, <1>4, <1>5

\* A row that was committed when the transaction began, and that no other row
\* shares its key with, is found through the index.
LEMMA BaseIndexed ==
    ASSUME StatementsInvariant, NEW s \in Session, NEW row \in session[s].base,
           Carriers(row[2]) = {row[1]}
    PROVE  Indexed(row[2], row[1])
<1>1. /\ TypeOK /\ Mvcc!ChainInvariant /\ RowsOwned /\ IndexSound /\ BaseSound(s)
      /\ \A u \in Session : PlaceSound(u) /\ RowSound(u)
  BY DEF StatementsInvariant
<1>2. row[1] \in RID /\ row[2] \in Key
  BY <1>1, BaseCarries
<1>3. /\ row[1] \in DOMAIN heap /\ chains[row[1]] # <<>>
      /\ status[heap[row[1]].by] \in {"committed", "done"} /\ Mvcc!Latest(row[1]) = row[2]
  BY <1>1 DEF BaseSound
<1>4. LiveHead(row[1], row[2])
  <2>1. row[2] = IF chains[row[1]][1].is_deleted THEN NoKey ELSE chains[row[1]][1].data
    BY <1>1, <1>3, FinishedRow
  <2>2. row[2] # NoKey
    BY <1>2, ManagerConstants
  <2> QED
    BY <1>3, <2>1, <2>2, Zenon DEF LiveHead
<1>5. ASSUME NEW u \in Session, Indexing(u), session[u].rid = row[1] PROVE FALSE
  <2>1. heap[row[1]].by = session[u].txn
    BY <1>1, <1>5 DEF RowSound
  <2>2. status[session[u].txn] = "active"
    BY <1>1, <1>5 DEF PlaceSound, Active, Indexing
  <2> QED
    BY <1>3, <2>1, <2>2
<1> QED
  BY <1>1, <1>2, <1>3, <1>4, <1>5 DEF IndexSound

\* A statement starts.
LEMMA StartStatementKeeps ==
    ASSUME StatementsInvariant, NEW s \in Session, NEW stmt \in Statement, StartStatement(s, stmt)
    PROVE  StatementsInvariant'
<1> PICK me : me = session[s]
  OBVIOUS
<1> PICK scan : scan = ScanInit(stmt)
  OBVIOUS
<1> DEFINE new == [me EXCEPT !.at = "row", !.stmt = stmt, !.scan = scan, !.out = {}]
<1>1. TypeOK /\ IndexSound /\ me \in SessionState
  BY SessionFields DEF StatementsInvariant
<1>2. stmt \in StatementForm
  BY StatementsAssumption
<1>3. session' = [session EXCEPT ![s] = new]
  BY DEF StartStatement
<1>4. scan \in Scan /\ ScanOK(scan)
  <2>1. stmt.op # "insert" => stmt.where \in Key \cup {NoKey}
    BY <1>2, StatementFields
  <2>2. ScanOK(NoScan)
    BY <1>1, NoScanFields, HeapFacts DEF ScanOK
  <2> QED
    BY <1>1, <2>1, <2>2, ScanBegins, NoScanFields DEF ScanInit
<1>5. /\ new \in SessionState /\ new.at = "row" /\ new.txn = me.txn /\ new.stmt = stmt
      /\ new.scan = scan /\ new.out = {} /\ new.base = me.base
  BY <1>1, <1>2, <1>4 DEF SessionState, Place, Output
<1> HIDE DEF new
<1>6. session[s].at = "ready" /\ UNCHANGED <<mvccVars, lockVars, storeVars>>
  BY DEF StartStatement
<1>7. session'[s] = new
  BY <1>1, <1>3, <1>5, SessionMoves
<1>8. new.stmt.op = "select" => SelectOK(new)
  <2> SUFFICES ASSUME stmt.op = "select" PROVE SelectOK(new)
    BY <1>5
  <2>1. scan = IF stmt.where = NoKey THEN HeapBegin ELSE IndexBegin(stmt.where)
    BY DEF ScanInit
  <2>2. \A row \in me.base : row[2] \in Key /\ row[2] # NoKey /\ row[1] \in DOMAIN heap
    <3>1. BaseSound(s)
      BY DEF StatementsInvariant
    <3> QED
      BY <1>1, <3>1, BaseCarries, ManagerConstants DEF Carriers
  <2>3. ASSUME NEW row \in me.base, stmt.where = NoKey
        PROVE  scan.pos # 0 /\ row[1] \in scan.pos .. scan.cached
    <3>1. row[1] \in 1 .. Len(heap) /\ Len(heap) \in Nat
      BY <1>1, <2>2, HeapFacts
    <3>2. heap # <<>>
      BY <3>1
    <3> QED
      BY <1>1, <2>1, <2>3, <3>1, <3>2, ScanBegins
  <2>4. ASSUME NEW row \in me.base, stmt.where = row[2], Carriers(row[2]) = {row[1]}
        PROVE  scan.entries # <<>> /\ Head(scan.entries) = row[1]
    <3>1. Indexed(row[2], row[1])
      BY <2>4, BaseIndexed
    <3> QED
      BY <1>1, <2>1, <2>2, <2>4, <3>1, ScanBegins DEF Indexed
  <2> QED
    BY <1>5, <2>3, <2>4 DEF SelectOK
<1>9. SessionSound(s)'
  BY <1>2, <1>4, <1>5, <1>6, <1>7, <1>8, StatementFields, CalmSound DEF Active
<1> QED
  BY <1>3, <1>5, <1>6, <1>9, QuietStep DEF Inserting, Indexing

\* An exception.
LEMMA ThrowKeeps ==
    ASSUME StatementsInvariant, NEW s \in Session, Throw(s), session[s].at \in {"row", "version"},
           ~Inserting(s), session[s].at = "version" => call[session[s].txn] = Locks!Idle
    PROVE  StatementsInvariant'
<1>1. TypeOK /\ session' = [session EXCEPT ![s] = Idle] /\ UNCHANGED <<mvccVars, lockVars, storeVars>>
  BY DEF StatementsInvariant, Throw
<1>2. session'[s] = Idle /\ Len(heap') \in Nat
  <2>1. session'[s] = Idle
    BY <1>1, IdleFields, SessionMoves
  <2>2. heap' = heap /\ Len(heap) \in 0 .. MaxRows
    BY <1>1, HeapFacts DEF storeVars
  <2> QED
    BY <2>1, <2>2
<1>3. SessionSound(s)'
  BY <1>2, IdleSound
<1> QED
  BY <1>1, <1>3, IdleFields, QuietStep DEF Indexing

\* The expressions that throw.
LEMMA ThrowsKeep ==
    ASSUME StatementsInvariant, NEW s \in Session, ValuesThrow(s) \/ SetThrows(s)
    PROVE  StatementsInvariant'
<1>1. CASE ValuesThrow(s)
  BY <1>1, ThrowKeeps DEF ValuesThrow, Inserting
<1>2. CASE SetThrows(s)
  BY <1>2, ThrowKeeps DEF SetThrows, Unblocked, Inserting
<1> QED
  BY <1>1, <1>2

\* The manager refuses; an insert it never refuses.
LEMMA WriteRefusedKeeps ==
    ASSUME StatementsInvariant, NEW s \in Session, WriteRefused(s)
    PROVE  StatementsInvariant'
<1> PICK me : me = session[s]
  OBVIOUS
<1> DEFINE new == [me EXCEPT !.at = "row"]
<1>1. /\ TypeOK /\ me \in SessionState /\ RowSound(s) /\ ScanOK(me.scan)
      /\ \A o \in me.out : ReadOK(o, me.txn)
  BY MySession DEF SessionSound
<1>2. session' = [session EXCEPT ![s] = new]
  BY DEF WriteRefused
<1>3. /\ new \in SessionState /\ new.at = "row" /\ new.txn = me.txn /\ new.stmt = me.stmt
      /\ new.scan = me.scan /\ new.out = me.out /\ new.base = me.base
  BY <1>1 DEF SessionState, Place
<1> HIDE DEF new
<1>4. /\ me.at = "version" /\ call[me.txn] = Locks!Idle /\ Running(s)
      /\ UNCHANGED <<mvccVars, lockVars, storeVars>>
  BY DEF WriteRefused, Unblocked, Running
<1>5. me.stmt \in StatementForm
  BY <1>4, MySession
<1>6. me.stmt.op # "insert"
  <2> SUFFICES ASSUME me.stmt.op = "insert" PROVE FALSE
    OBVIOUS
  <2>1. Inserting(s)
    BY <1>4 DEF Inserting
  <2>2. chains[me.rid] = <<>>
    BY <1>1, <2>1 DEF RowSound
  <2> QED
    BY <2>2 DEF WriteRefused, Insertable
<1>7. me.stmt.op \in {"update", "delete"} /\ ~Inserting(s) /\ ~Indexing(s)
  BY <1>1, <1>4, <1>6 DEF RowSound, Changing, Inserting, Indexing
<1>8. session'[s] = new
  BY <1>1, <1>2, <1>3, SessionMoves
<1>9. SessionSound(s)'
  <2>1. new.stmt # NoStatement /\ new.stmt.op # "select" /\ Active(s)
    BY <1>3, <1>4, <1>5, <1>7, StatementFields DEF Active
  <2> QED
    BY <1>1, <1>3, <1>4, <1>8, <2>1, CalmSound
<1> QED
  BY <1>2, <1>3, <1>4, <1>7, <1>9, QuietStep

\* What is left of an insert.
LEMMA RestFields ==
    ASSUME NEW me \in SessionState, me.stmt \in StatementForm, me.stmt.op = "insert", me.stmt.rows # <<>>,
           NEW rest, rest = [me EXCEPT !.stmt.rows = Tail(@)]
    PROVE  /\ rest \in SessionState /\ rest.at = me.at /\ rest.txn = me.txn /\ rest.scan = me.scan
           /\ rest.rid = me.rid /\ rest.key = me.key /\ rest.out = me.out /\ rest.base = me.base
           /\ rest.stmt \in StatementForm /\ rest.stmt.op = "insert"
           /\ Head(me.stmt.rows) \in Key \cup {Throws}
<1> PICK stmt : stmt = [me.stmt EXCEPT !.rows = Tail(me.stmt.rows)]
  OBVIOUS
<1>1. me.stmt \in [op : {"insert"}, rows : Seq(Key \cup {Throws})]
  BY DEF StatementForm
<1>2. Tail(me.stmt.rows) \in Seq(Key \cup {Throws}) /\ Head(me.stmt.rows) \in Key \cup {Throws}
  BY <1>1
<1>3. stmt \in [op : {"insert"}, rows : Seq(Key \cup {Throws})]
  BY <1>1, <1>2
<1>4. stmt \in StatementForm /\ stmt.op = "insert"
  BY <1>3 DEF StatementForm
<1>5. rest = [me EXCEPT !.stmt = stmt]
  OBVIOUS
<1> QED
  BY <1>2, <1>4, <1>5 DEF SessionState

\* A session that only moves to another place of its statement.
LEMMA MovedFields ==
    ASSUME NEW me \in SessionState, NEW p \in Place, NEW new, new = [me EXCEPT !.at = p]
    PROVE  /\ new \in SessionState /\ new.at = p /\ new.txn = me.txn /\ new.stmt = me.stmt
           /\ new.rid = me.rid /\ new.key = me.key /\ new.scan = me.scan /\ new.out = me.out
           /\ new.base = me.base
BY DEF SessionState

-----------------------------------------------------------------------------
(* The scan looks at a row. *)

\* Where a scan is, and where it goes next: what was ahead of it is the row it
\* is at or still ahead.
LEMMA ScanAdvances ==
    ASSUME StatementsInvariant, NEW s \in Session, session[s].at = "row",
           session[s].stmt.op # "insert", ~AtEnd(s),
           NEW r, r = CurrentRID(s), NEW next, next = AdvancedScan(s), NEW scan, scan = session[s].scan
    PROVE  /\ r \in DOMAIN heap /\ next \in Scan /\ ScanOK(next)
           /\ session[s].stmt.where = NoKey =>
                 \A q \in scan.pos .. scan.cached : q = r \/ (next.pos # 0 /\ q \in next.pos .. next.cached)
           /\ session[s].stmt.where # NoKey => r = Head(scan.entries)
<1>1. TypeOK /\ ScanOK(scan) /\ scan \in Scan
  BY MySession, SessionFields
<1>2. /\ scan.pos \in Nat /\ scan.cached \in Nat /\ scan.pos <= scan.cached /\ scan.cached <= Len(heap)
      /\ scan.entries \in Seq(RID) /\ \A i \in 1 .. Len(scan.entries) : scan.entries[i] \in DOMAIN heap
      /\ scan.pos \in 0 .. MaxRows /\ scan.cached \in 0 .. MaxRows
  BY <1>1, ManagerConstants DEF Scan, ScanOK
<1>3. Len(heap) \in 0 .. MaxRows /\ MaxRows \in Nat /\ DOMAIN heap = 1 .. Len(heap)
  BY <1>1, HeapFacts, ManagerConstants
<1>4. CASE session[s].stmt.where = NoKey
  <2>1. scan.pos # 0 /\ r = scan.pos
    BY <1>4 DEF AtEnd, CurrentRID
  <2>2. next = HeapAdvance(scan)
    BY <1>4 DEF AdvancedScan
  <2>3. CASE scan.pos + 1 > scan.cached
    <3>1. next = [scan EXCEPT !.pos = 0]
      BY <2>2, <2>3 DEF HeapAdvance
    <3>2. next \in Scan /\ next.pos = 0 /\ next.cached = scan.cached /\ next.entries = scan.entries
      BY <1>1, <1>3, <3>1 DEF Scan
    <3>3. r \in DOMAIN heap /\ \A q \in scan.pos .. scan.cached : q = r
      BY <1>2, <1>3, <2>1, <2>3
    <3>4. ScanOK(next)
      BY <1>2, <3>2 DEF ScanOK
    <3> QED
      BY <1>4, <3>2, <3>3, <3>4
  <2>4. CASE ~(scan.pos + 1 > scan.cached)
    <3> PICK c : c = IF scan.pos % RowsPerPage = 0 THEN Len(heap) ELSE scan.cached
      OBVIOUS
    <3>1. next = [scan EXCEPT !.pos = scan.pos + 1, !.cached = c]
      BY <2>2, <2>4 DEF HeapAdvance
    <3>2. c \in 0 .. MaxRows /\ scan.cached <= c /\ c <= Len(heap) /\ scan.pos + 1 \in 0 .. MaxRows
      BY <1>2, <1>3, <2>4
    <3>3. next \in Scan /\ next.pos = scan.pos + 1 /\ next.cached = c /\ next.entries = scan.entries
      BY <1>1, <3>1, <3>2 DEF Scan
    <3> PICK p, d, l : p = scan.pos /\ d = scan.cached /\ l = Len(heap)
      OBVIOUS
    <3>4. /\ p \in Nat /\ d \in Nat /\ l \in Nat /\ c \in Nat
          /\ p # 0 /\ p + 1 <= d /\ d <= c /\ c <= l
      BY <1>2, <1>3, <2>1, <2>4, <3>2
    <3>5. r \in DOMAIN heap
      BY <1>3, <2>1, <3>4
    <3>6. next.pos <= next.cached /\ next.cached <= Len(heap) /\ next.pos # 0
      BY <3>3, <3>4
    <3>7. ScanOK(next)
      BY <1>2, <3>3, <3>6 DEF ScanOK
    <3>8. ASSUME NEW q \in p .. d PROVE q = p \/ q \in (p + 1) .. c
      BY <3>4
    <3>9. \A q \in scan.pos .. scan.cached : q = r \/ q \in next.pos .. next.cached
      BY <2>1, <3>3, <3>8
    <3> QED
      BY <1>4, <3>3, <3>5, <3>6, <3>7, <3>9
  <2> QED
    BY <2>3, <2>4
<1>5. CASE session[s].stmt.where # NoKey
  <2>1. scan.entries # <<>> /\ r = Head(scan.entries)
    BY <1>5 DEF AtEnd, CurrentRID
  <2>2. next = [scan EXCEPT !.entries = Tail(scan.entries)]
    BY <1>5 DEF AdvancedScan
  <2>3. /\ 1 \in 1 .. Len(scan.entries) /\ r = scan.entries[1]
        /\ Tail(scan.entries) \in Seq(RID) /\ Len(Tail(scan.entries)) = Len(scan.entries) - 1
        /\ \A i \in 1 .. Len(Tail(scan.entries)) :
              i + 1 \in 1 .. Len(scan.entries) /\ Tail(scan.entries)[i] = scan.entries[i + 1]
    BY <1>2, <2>1
  <2>4. next \in Scan /\ next.pos = scan.pos /\ next.cached = scan.cached /\ next.entries = Tail(scan.entries)
    BY <1>1, <2>2, <2>3 DEF Scan
  <2>5. \A i \in 1 .. Len(next.entries) : next.entries[i] \in DOMAIN heap
    BY <1>2, <2>3, <2>4
  <2>6. ScanOK(next)
    BY <1>2, <2>4, <2>5 DEF ScanOK
  <2>7. r \in DOMAIN heap
    BY <1>2, <2>3
  <2> QED
    BY <1>5, <2>1, <2>4, <2>6, <2>7
<1> QED
  BY <1>4, <1>5

\* A row without a version is in the hands of another session.
LEMMA RawIsDirty ==
    ASSUME StatementsInvariant, NEW s \in Session, session[s].at = "row", NEW r \in DOMAIN heap, chains[r] = <<>>
    PROVE  heap[r].by # session[s].txn /\ status[heap[r].by] = "active"
<1>1. TypeOK /\ RowsOwned /\ SessionsApart /\ \A u \in Session : RowSound(u) /\ PlaceSound(u)
  BY DEF StatementsInvariant
<1>2. r \in RID
  BY <1>1, HeapFacts
<1>3. PICK u \in Session : Inserting(u) /\ session[u].rid = r
  BY <1>1, <1>2 DEF RowsOwned
<1>4. heap[r].by = session[u].txn
  BY <1>1, <1>3 DEF RowSound
<1>5. Active(u) /\ u # s /\ session[u].at # "idle"
  BY <1>3 DEF Inserting, Active
<1>6. status[session[u].txn] = "active" /\ session[u].txn # session[s].txn
  BY <1>1, <1>5 DEF PlaceSound, SessionsApart
<1> QED
  BY <1>4, <1>6

\* What a scan makes of a row that it sees.
LEMMA RowSeen ==
    ASSUME StatementsInvariant, NEW s \in Session, session[s].at = "row", NEW r \in DOMAIN heap,
           NEW t, t = session[s].txn, NEW k, k = VisibleRow(t, r), k # NoKey,
           NEW o, o = RowOutput(t, r)
    PROVE  /\ k \in Key /\ r \in Carriers(k)
           /\ o \in Output /\ o.rid = r /\ o.key = k /\ ReadOK(o, t)
           /\ heap[r].by = t => LiveHead(r, k)
<1>1. TypeOK /\ Mvcc!TypeOK /\ Mvcc!ChainInvariant /\ RowsOwned /\ PlaceSound(s) /\ t \in TxnId
  BY MySession DEF StatementsInvariant, TypeOK
<1>2. r \in RID /\ heap[r].key \in Key /\ heap[r].by \in TxnId
  BY <1>1, HeapFacts
<1>3. /\ o.rid = r /\ o.key = k /\ o.raw = (chains[r] = <<>>)
      /\ o.dirty = (heap[r].by # t /\ status[heap[r].by] = "active")
  BY DEF RowOutput
<1>4. CASE chains[r] = <<>>
  <2>1. k = heap[r].key
    BY <1>4 DEF VisibleRow
  <2>2. heap[r].by # t /\ status[heap[r].by] = "active"
    BY <1>4, RawIsDirty
  <2>3. k \in Key /\ r \in Carriers(k)
    BY <1>2, <2>1 DEF Carriers
  <2>4. o \in Output
    BY <1>2, <2>3 DEF Output, RowOutput
  <2>5. o.raw /\ o.dirty
    BY <1>3, <1>4, <2>2, Zenon
  <2> QED
    BY <1>3, <2>2, <2>3, <2>4, <2>5, Zenon DEF ReadOK
<1>5. CASE chains[r] # <<>>
  <2>1. k = Mvcc!Read(t, r)
    BY <1>5 DEF VisibleRow
  <2>2. PICK i \in 1 .. Len(chains[r]) :
            chains[r][i].data = k /\ (chains[r][i].is_committed \/ chains[r][i].begin_txn_id = t)
    BY <1>1, <1>2, <2>1, ReadFinds
  <2>3. k \in Key /\ r \in Carriers(k)
    BY <1>1, <1>2, <2>2, ChainTypes DEF Carriers
  <2>4. o \in Output
    BY <1>2, <2>3 DEF Output, RowOutput
  <2>5. ReadOK(o, t)
    <3>1. ~o.raw
      BY <1>3, <1>5, Zenon
    <3> QED
      BY <1>3, <2>2, <3>1, Zenon DEF ReadOK
  <2>6. ASSUME heap[r].by = t PROVE LiveHead(r, k)
    <3>1. status[heap[r].by] = "active"
      BY <1>1, <2>6 DEF PlaceSound, Active
    <3>2. k = IF chains[r][1].is_deleted THEN NoKey ELSE chains[r][1].data
      BY <1>1, <1>5, <2>1, <2>6, <3>1, OwnRow
    <3> QED
      BY <1>5, <3>2, Zenon DEF LiveHead
  <2> QED
    BY <1>3, <2>3, <2>4, <2>5, <2>6
<1> QED
  BY <1>4, <1>5

\* A session that goes to change a row.
LEMMA RowInHand ==
    ASSUME StatementsInvariant, NEW s \in Session, NEW new \in SessionState, session'[s] = new,
           UNCHANGED <<mvccVars, lockVars, storeVars>>, Active(s), new.at = "lock",
           new.txn = session[s].txn, new.base = session[s].base, new.out = session[s].out,
           new.stmt # NoStatement, new.stmt.op \in {"update", "delete"}, ScanOK(new.scan),
           new.key \in Key, new.rid \in Carriers(new.key),
           heap[new.rid].by = new.txn => LiveHead(new.rid, new.key)
    PROVE  SessionSound(s)'
<1>1. PlaceSound(s) /\ BaseSound(s) /\ TypeOK /\ \A o \in new.out : ReadOK(o, new.txn)
  BY MySession DEF SessionSound
<1>2. chains' = chains /\ status' = status /\ heap' = heap
  BY DEF mvccVars, storeVars
<1>3. PlaceSound(s)'
  BY <1>1, <1>2 DEF PlaceSound, Active, Running
<1>4. ScanSound(s)'
  BY <1>2 DEF ScanSound, ScanOK
<1>5. RowSound(s)'
  <2>1. new.rid \in Carriers(new.key)'
    BY <1>2 DEF Carriers
  <2>2. heap'[new.rid].by = new.txn => LiveHead(new.rid, new.key)'
    BY <1>2 DEF LiveHead
  <2>3. ~Inserting(s)' /\ ~Indexing(s)' /\ Changing(s)'
    BY DEF Inserting, Indexing, Changing
  <2> QED
    BY <2>1, <2>2, <2>3 DEF RowSound, Carriers, LiveHead
<1>6. LockSound(s)' /\ SelectSound(s)'
  BY DEF LockSound, SelectSound
<1>7. BaseSound(s)'
  <2>1. \A r : Mvcc!Latest(r)' = Mvcc!Latest(r)
    BY <1>2 DEF Mvcc!Latest, Mvcc!LatestOf
  <2> QED
    BY <1>1, <1>2, <2>1 DEF BaseSound
<1>8. ReadSound(s)'
  <2>1. \A o \in new.out : ReadOK(o, new.txn)'
    BY <1>1, <1>2, Zenon DEF ReadOK
  <2> QED
    BY <2>1, Zenon DEF ReadSound, ReadOK
<1> QED
  BY <1>3, <1>4, <1>5, <1>6, <1>7, <1>8 DEF SessionSound

\* One row of a scan.
LEMMA ScanRowKeeps ==
    ASSUME StatementsInvariant, NEW s \in Session, ScanRow(s)
    PROVE  StatementsInvariant'
<1> PICK me : me = session[s]
  OBVIOUS
<1> PICK r, next, scan : r = CurrentRID(s) /\ next = AdvancedScan(s) /\ scan = me.scan
  OBVIOUS
<1> PICK k, o : k = VisibleRow(me.txn, r) /\ o = RowOutput(me.txn, r)
  OBVIOUS
<1>1. /\ TypeOK /\ me \in SessionState /\ ScanOK(scan) /\ scan \in Scan /\ me.txn \in TxnId
      /\ \A x \in me.out : ReadOK(x, me.txn)
      /\ SessionSound(s) /\ BaseSound(s) /\ PlaceSound(s)
      /\ Mvcc!ChainInvariant /\ RowsOwned
  BY MySession, SessionFields DEF SessionSound, StatementsInvariant
<1>2. /\ me.at = "row" /\ me.stmt.op # "insert" /\ ~AtEnd(s) /\ Active(s) /\ Running(s)
      /\ UNCHANGED <<mvccVars, lockVars, storeVars>>
  BY DEF ScanRow, Active, Running
<1>3. me.stmt \in StatementForm /\ me.stmt # NoStatement /\ me.stmt.op \in {"select", "update", "delete"}
      /\ me.stmt.where \in Key \cup {NoKey}
  BY <1>2, MySession, StatementFields
<1>4. /\ r \in DOMAIN heap /\ next \in Scan /\ ScanOK(next)
      /\ me.stmt.where = NoKey =>
            \A q \in scan.pos .. scan.cached : q = r \/ (next.pos # 0 /\ q \in next.pos .. next.cached)
      /\ me.stmt.where # NoKey => r = Head(scan.entries)
  BY <1>2, ScanAdvances
<1>5. /\ \A row \in me.base : row[1] \in RID /\ row[2] \in Key /\ row[2] # NoKey
      /\ \A row \in me.base : row[1] = r => k = row[2]
  <2>1. ASSUME NEW row \in me.base PROVE row[1] \in RID /\ row[2] \in Key /\ row[2] # NoKey
    BY <1>1, BaseCarries, ManagerConstants
  <2>2. ASSUME NEW row \in me.base, row[1] = r PROVE k = row[2]
    <3>1. /\ chains[r] # <<>> /\ heap[r].by < me.txn /\ Mvcc!Latest(r) = row[2]
          /\ status[heap[r].by] \in {"committed", "done"}
      BY <1>1, <2>2 DEF BaseSound
    <3>2. Mvcc!Read(me.txn, r) = row[2]
      BY <1>1, <1>4, <3>1, FinishedRow
    <3> QED
      BY <3>1, <3>2 DEF VisibleRow
  <2> QED
    BY <2>1, <2>2
<1>6. me.stmt.op = "select" => SelectOK(me)
  BY <1>2, MySession
<1>7. ~Inserting(s) /\ ~Indexing(s)
  BY <1>2 DEF Inserting, Indexing
<1>8. session' = [session EXCEPT ![s] =
              CASE k = NoKey -> [me EXCEPT !.scan = next]
                [] k # NoKey /\ me.stmt.where \notin {NoKey, k} -> [me EXCEPT !.scan.entries = <<>>]
                [] OTHER -> [me EXCEPT !.scan = next,
                                       !.at = IF me.stmt.op = "select" THEN "row" ELSE "lock",
                                       !.rid = r, !.key = k,
                                       !.out = IF me.stmt.op = "select" THEN me.out \cup {o} ELSE me.out]]
  BY DEF ScanRow
<1>9. CASE k = NoKey
  <2> DEFINE new == [me EXCEPT !.scan = next]
  <2>1. session' = [session EXCEPT ![s] = new]
    BY <1>8, <1>9
  <2>2. /\ new \in SessionState /\ new.at = "row" /\ new.txn = me.txn /\ new.stmt = me.stmt
        /\ new.scan = next /\ new.out = me.out /\ new.base = me.base
    BY <1>1, <1>2, <1>4 DEF SessionState
  <2> HIDE DEF new
  <2>3. me.stmt.op = "select" => SelectOK(new)
    <3>1. \A row \in me.base : row[1] # r
      BY <1>5, <1>9
    <3>2. ASSUME NEW row \in me.base, me.stmt.op = "select", me.stmt.where = NoKey
          PROVE  \/ \E x \in new.out : x.rid = row[1] /\ x.key = row[2]
                 \/ new.at = "row" /\ new.scan.pos # 0 /\ row[1] \in new.scan.pos .. new.scan.cached
      BY <1>4, <1>6, <2>2, <3>1, <3>2 DEF SelectOK
    <3>3. ASSUME NEW row \in me.base, me.stmt.op = "select", me.stmt.where = row[2], Carriers(row[2]) = {row[1]}
          PROVE  \E x \in new.out : x.rid = row[1]
      BY <1>4, <1>5, <1>6, <2>2, <3>1, <3>3 DEF SelectOK
    <3> QED
      BY <2>2, <3>2, <3>3 DEF SelectOK
  <2>4. session'[s] = new
    BY <1>1, <2>1, <2>2, SessionMoves
  <2>5. SessionSound(s)'
    BY <1>1, <1>2, <1>3, <1>4, <2>2, <2>3, <2>4, CalmSound
  <2> QED
    BY <1>2, <1>7, <2>1, <2>2, <2>5, QuietStep
<1>10. CASE k # NoKey /\ me.stmt.where \notin {NoKey, k}
  <2> DEFINE new == [me EXCEPT !.scan.entries = <<>>]
  <2>1. session' = [session EXCEPT ![s] = new]
    BY <1>8, <1>10
  <2> PICK end : end = [scan EXCEPT !.entries = <<>>]
    OBVIOUS
  <2>2. end \in Scan /\ end.pos = scan.pos /\ end.cached = scan.cached /\ end.entries = <<>> /\ ScanOK(end)
    <3> PICK none : none = <<>>
      OBVIOUS
    <3>1. none \in Seq(RID) /\ Len(none) = 0
      OBVIOUS
    <3>2. end \in Scan /\ end.pos = scan.pos /\ end.cached = scan.cached /\ end.entries = none
      BY <1>1, <3>1 DEF Scan
    <3> QED
      BY <1>1, <3>1, <3>2 DEF ScanOK
  <2>3. new = [me EXCEPT !.scan = end]
    BY <1>1 DEF SessionState
  <2>4. /\ new \in SessionState /\ new.at = "row" /\ new.txn = me.txn /\ new.stmt = me.stmt
        /\ new.scan = end /\ new.out = me.out /\ new.base = me.base
    BY <1>1, <1>2, <2>2, <2>3 DEF SessionState
  <2> HIDE DEF new
  <2>5. me.stmt.op = "select" => SelectOK(new)
    <3>1. ASSUME NEW row \in me.base, me.stmt.op = "select", me.stmt.where = row[2], Carriers(row[2]) = {row[1]}
          PROVE  \E x \in new.out : x.rid = row[1]
      <4>1. row[1] # r
        BY <1>5, <1>10, <3>1
      <4> QED
        BY <1>4, <1>6, <1>10, <2>4, <3>1, <4>1 DEF SelectOK
    <3> QED
      BY <1>10, <2>4, <3>1 DEF SelectOK
  <2>6. session'[s] = new
    BY <1>1, <2>1, <2>4, SessionMoves
  <2>7. SessionSound(s)'
    BY <1>1, <1>2, <1>3, <2>2, <2>4, <2>5, <2>6, CalmSound
  <2> QED
    BY <1>2, <1>7, <2>1, <2>4, <2>7, QuietStep
<1>11. CASE k # NoKey /\ me.stmt.where \in {NoKey, k} /\ me.stmt.op = "select"
  <2> DEFINE new == [me EXCEPT !.scan = next, !.at = "row", !.rid = r, !.key = k, !.out = me.out \cup {o}]
  <2>1. /\ k \in Key /\ r \in Carriers(k)
        /\ o \in Output /\ o.rid = r /\ o.key = k /\ ReadOK(o, me.txn)
    BY <1>2, <1>4, <1>11, RowSeen
  <2>2. session' = [session EXCEPT ![s] = new]
    BY <1>8, <1>11
  <2>3. r \in 0 .. MaxRows
    BY <1>1, <1>4, HeapFacts, ManagerConstants DEF RID
  <2>4. /\ new \in SessionState /\ new.at = "row" /\ new.txn = me.txn /\ new.stmt = me.stmt
        /\ new.scan = next /\ new.out = me.out \cup {o} /\ new.base = me.base
    BY <1>1, <1>2, <1>4, <2>1, <2>3 DEF SessionState, Place
  <2> HIDE DEF new
  <2>5. SelectOK(new)
    <3>1. ASSUME NEW row \in me.base, me.stmt.where = NoKey
          PROVE  \/ \E x \in new.out : x.rid = row[1] /\ x.key = row[2]
                 \/ new.at = "row" /\ new.scan.pos # 0 /\ row[1] \in new.scan.pos .. new.scan.cached
      <4>1. row[1] = r => o.rid = row[1] /\ o.key = row[2]
        BY <1>5, <2>1
      <4> QED
        BY <1>4, <1>6, <1>11, <2>4, <3>1, <4>1 DEF SelectOK
    <3>2. ASSUME NEW row \in me.base, me.stmt.where = row[2], Carriers(row[2]) = {row[1]}
          PROVE  \E x \in new.out : x.rid = row[1]
      <4>1. k = row[2]
        BY <1>5, <1>11, <3>2
      <4>2. row[1] = r
        BY <2>1, <3>2, <4>1
      <4> QED
        BY <2>1, <2>4, <4>2
    <3> QED
      BY <2>4, <3>1, <3>2 DEF SelectOK
  <2>6. session'[s] = new
    BY <1>1, <2>2, <2>4, SessionMoves
  <2>7. \A x \in new.out : ReadOK(x, new.txn)
    BY <1>1, <2>1, <2>4
  <2>8. SessionSound(s)'
    BY <1>1, <1>2, <1>3, <1>4, <2>4, <2>5, <2>6, <2>7, CalmSound
  <2> QED
    BY <1>2, <1>7, <2>2, <2>4, <2>8, QuietStep
<1>12. CASE k # NoKey /\ me.stmt.where \in {NoKey, k} /\ me.stmt.op # "select"
  <2> DEFINE new == [me EXCEPT !.scan = next, !.at = "lock", !.rid = r, !.key = k]
  <2>1. k \in Key /\ r \in Carriers(k) /\ (heap[r].by = me.txn => LiveHead(r, k))
    BY <1>2, <1>4, <1>12, RowSeen
  <2>2. session' = [session EXCEPT ![s] = new]
    BY <1>8, <1>12
  <2>3. r \in 0 .. MaxRows
    BY <1>1, <1>4, HeapFacts, ManagerConstants DEF RID
  <2>4. /\ new \in SessionState /\ new.at = "lock" /\ new.txn = me.txn /\ new.stmt = me.stmt
        /\ new.rid = r /\ new.key = k /\ new.scan = next /\ new.out = me.out /\ new.base = me.base
    BY <1>1, <1>2, <1>4, <2>1, <2>3 DEF SessionState, Place
  <2> HIDE DEF new
  <2>5. session'[s] = new
    BY <1>1, <2>2, <2>4, SessionMoves
  <2>6. SessionSound(s)'
    BY <1>1, <1>2, <1>3, <1>4, <1>12, <2>1, <2>4, <2>5, RowInHand
  <2> QED
    BY <1>2, <1>7, <2>2, <2>4, <2>6, QuietStep
<1> QED
  BY <1>3, <1>9, <1>10, <1>11, <1>12

-----------------------------------------------------------------------------
(* Steps that change the table. *)

\* What the session that takes the step keeps, when it goes on with its row.
LEMMA SessionCarries ==
    ASSUME StatementsInvariant, NEW s \in Session, Guarantee(s),
           session'[s].txn = session[s].txn, session'[s].base = session[s].base,
           session'[s].out = session[s].out, session'[s].scan = session[s].scan
    PROVE  ScanSound(s)' /\ BaseSound(s)' /\ ReadSound(s)'
<1> PICK me : me = session[s]
  OBVIOUS
<1>1. TypeOK /\ ScanSound(s) /\ BaseSound(s) /\ me \in SessionState /\ \A o \in me.out : ReadOK(o, me.txn)
  BY MySession DEF SessionSound
<1>2. ScanSound(s)'
  <2>1. me.scan \in Scan /\ Len(heap) \in Nat
    BY <1>1, SessionFields, HeapFacts
  <2>2. me.scan.cached \in Nat
    BY <2>1, ManagerConstants DEF Scan
  <2>3. me.scan.cached <= Len(heap')
    <3>1. me.scan.cached <= Len(heap) /\ Len(heap) <= Len(heap') /\ Len(heap') \in Nat
      BY <1>1 DEF ScanSound, Guarantee, HeapKept
    <3> QED
      BY <2>1, <2>2, <3>1
  <2>4. \A i \in 1 .. Len(me.scan.entries) : me.scan.entries[i] \in DOMAIN heap'
    BY <1>1 DEF ScanSound, Guarantee, HeapKept
  <2> QED
    BY <1>1, <2>3, <2>4 DEF ScanSound
<1>3. BaseSound(s)'
  <2> SUFFICES ASSUME NEW row \in me.base
               PROVE  /\ row[1] \in DOMAIN heap' /\ chains'[row[1]] # <<>>
                      /\ heap'[row[1]].by < me.txn
                      /\ status'[heap'[row[1]].by] \in {"committed", "done"}
                      /\ Mvcc!LatestOf(chains'[row[1]]) = row[2]
    BY DEF BaseSound, Mvcc!Latest, Mvcc!LatestOf
  <2>1. /\ row[1] \in DOMAIN heap /\ chains[row[1]] # <<>> /\ heap[row[1]].by < me.txn
        /\ status[heap[row[1]].by] \in {"committed", "done"} /\ Mvcc!LatestOf(chains[row[1]]) = row[2]
    BY <1>1 DEF BaseSound, Mvcc!Latest
  <2>2. row[1] \in RID /\ heap[row[1]].by \in TxnId
    BY <1>1, <2>1, HeapFacts
  <2>3. row[1] \in DOMAIN heap' /\ heap'[row[1]] = heap[row[1]]
    BY <2>1 DEF Guarantee, HeapKept
  <2>4. chains'[row[1]] = chains[row[1]]
    BY <2>1, <2>2 DEF Guarantee, OwnRowsOnly
  <2>5. status'[heap[row[1]].by] \in {"committed", "done"}
    BY <2>1, <2>2 DEF Guarantee, FinishedKept
  <2> QED
    BY <2>1, <2>3, <2>4, <2>5
<1>4. ReadSound(s)'
  <2> SUFFICES ASSUME NEW o \in me.out
               PROVE  /\ ~o.raw => \E i \in 1 .. Len(chains'[o.rid]) :
                            /\ chains'[o.rid][i].data = o.key
                            /\ chains'[o.rid][i].is_committed \/ chains'[o.rid][i].begin_txn_id = me.txn
                      /\ o.raw => o.dirty
    BY Zenon DEF ReadSound
  <2>1. o.raw => o.dirty
    BY <1>1, Zenon DEF ReadOK
  <2>2. ASSUME ~o.raw
        PROVE  \E i \in 1 .. Len(chains'[o.rid]) :
                  /\ chains'[o.rid][i].data = o.key
                  /\ chains'[o.rid][i].is_committed \/ chains'[o.rid][i].begin_txn_id = me.txn
    <3>1. PICK i \in 1 .. Len(chains[o.rid]) :
              /\ chains[o.rid][i].data = o.key
              /\ chains[o.rid][i].is_committed \/ chains[o.rid][i].begin_txn_id = me.txn
      BY <1>1, <2>2, Zenon DEF ReadOK
    <3>2. o.rid \in RID
      <4>1. o \in Output
        BY <1>1, SessionFields
      <4> QED
        BY <4>1 DEF Output
    <3>3. PICK j \in 1 .. Len(chains'[o.rid]) :
              /\ chains'[o.rid][j].data = chains[o.rid][i].data
              /\ chains'[o.rid][j].begin_txn_id = chains[o.rid][i].begin_txn_id
              /\ chains[o.rid][i].is_committed => chains'[o.rid][j].is_committed
      BY <3>2, Zenon DEF Guarantee, VersionsKept
    <3> QED
      BY <3>1, <3>3, Zenon
  <2> QED
    BY <2>1, <2>2, Zenon
<1> QED
  BY <1>2, <1>3, <1>4

\* A live row has its key.
LEMMA LiveCarries ==
    ASSUME Mvcc!TypeOK, NEW r \in DOMAIN heap, r \in RID, NEW k, LiveHead(r, k)
    PROVE  r \in Carriers(k)
BY ChainTypes DEF LiveHead, Carriers

\* An index that does not change stays sound: every live row is one that was
\* live before, or one whose session is about to write the index.
LEMMA IndexStays ==
    ASSUME TypeOK, IndexSound, index' = index, HeapKept, VersionsKept,
           \A r \in DOMAIN heap', k \in Key :
               LiveHead(r, k)' => \/ r \in DOMAIN heap /\ LiveHead(r, k)
                                  \/ \E u \in Session : Indexing(u)' /\ session'[u].rid = r,
           \A u \in Session : Indexing(u) => Indexing(u)' /\ session'[u].rid = session[u].rid
    PROVE  IndexSound'
<1>1. \A k : Carriers(k) \subseteq Carriers(k)'
  BY CarriersGrow
<1>2. IsFiniteSet(DOMAIN index') /\ \A k \in DOMAIN index' : index'[k] \in Carriers(k)'
  BY <1>1 DEF IndexSound
<1>3. ASSUME NEW r \in DOMAIN heap', NEW k \in Key, LiveHead(r, k)', Carriers(k)' = {r},
             \A u \in Session : ~(Indexing(u)' /\ session'[u].rid = r)
      PROVE  Indexed(k, r)'
  <2>1. r \in DOMAIN heap /\ LiveHead(r, k) /\ r \in RID
    BY <1>3, HeapFacts
  <2>2. r \in Carriers(k)
    BY <2>1, LiveCarries DEF TypeOK
  <2>3. Carriers(k) = {r}
    BY <1>1, <1>3, <2>2
  <2>4. \A u \in Session : ~(Indexing(u) /\ session[u].rid = r)
    BY <1>3
  <2>5. Indexed(k, r)
    BY <2>1, <2>3, <2>4 DEF IndexSound
  <2> QED
    BY <2>5 DEF Indexed
<1> QED
  BY <1>2, <1>3 DEF IndexSound

\* A log that does not change accounts for the same versions.
LEMMA LogStays ==
    ASSUME VersionsLogged, log_records' = log_records, \A t \in TxnId : VersionsOf(t)' = VersionsOf(t),
           \A u \in Session : (Indexing(u)' <=> Indexing(u)) /\ (Indexing(u) => session'[u].txn = session[u].txn)
    PROVE  VersionsLogged'
<1>1. ASSUME NEW t \in TxnId
      PROVE  (\E u \in Session : Indexing(u)' /\ session'[u].txn = t)
                <=> (\E u \in Session : Indexing(u) /\ session[u].txn = t)
  OBVIOUS
<1> QED
  BY <1>1 DEF VersionsLogged

\* insertTuple stores the row, which nobody else has seen.
LEMMA InsertIntoHeapKeeps ==
    ASSUME StatementsInvariant, NEW s \in Session, InsertIntoHeap(s)
    PROVE  StatementsInvariant'
<1> PICK me : me = session[s]
  OBVIOUS
<1> PICK k, rest : k = Head(me.stmt.rows) /\ rest = [me EXCEPT !.stmt.rows = Tail(@)]
  OBVIOUS
<1>1. /\ TypeOK /\ Mvcc!ChainInvariant /\ LocksSound /\ SessionsApart /\ RowsOwned /\ IndexSound
      /\ VersionsLogged /\ me \in SessionState /\ PlaceSound(s) /\ ScanOK(me.scan)
      /\ \A o \in me.out : ReadOK(o, me.txn)
  BY MySession DEF StatementsInvariant
<1>2. /\ me.at = "row" /\ me.stmt.op = "insert" /\ ~AtEnd(s) /\ k # Throws /\ Running(s) /\ Active(s)
      /\ me.stmt.rows # <<>>
      /\ UNCHANGED <<mvccVars, lockVars, index, log_records>>
  BY DEF InsertIntoHeap, Running, Active, AtEnd
<1>3. /\ rest \in SessionState /\ rest.at = "row" /\ rest.txn = me.txn /\ rest.scan = me.scan
      /\ rest.rid = me.rid /\ rest.key = me.key /\ rest.out = me.out /\ rest.base = me.base
      /\ rest.stmt \in StatementForm /\ rest.stmt.op = "insert" /\ k \in Key
  <2>1. me.stmt \in StatementForm
    BY <1>2, MySession
  <2>2. me \in SessionState /\ me.stmt.op = "insert" /\ me.stmt.rows # <<>>
    BY <1>1, <1>2
  <2>3. /\ rest \in SessionState /\ rest.at = me.at /\ rest.txn = me.txn /\ rest.scan = me.scan
        /\ rest.rid = me.rid /\ rest.key = me.key /\ rest.out = me.out /\ rest.base = me.base
        /\ rest.stmt \in StatementForm /\ rest.stmt.op = "insert"
        /\ Head(me.stmt.rows) \in Key \cup {Throws}
    BY ONLY <2>1, <2>2, RestFields, rest = [me EXCEPT !.stmt.rows = Tail(@)]
  <2>4. k \in Key
    BY <1>2, <2>3
  <2> QED
    BY <1>2, <2>3, <2>4
<1>4. rest.stmt # NoStatement
  BY <1>3, StatementFields
<1>5. ~Inserting(s) /\ ~Indexing(s)
  BY <1>2 DEF Inserting, Indexing
<1>6. CASE session' = [session EXCEPT ![s] = rest] /\ heap' = heap
  <2>1. session'[s] = rest /\ UNCHANGED <<mvccVars, lockVars, storeVars>>
    BY <1>1, <1>2, <1>3, <1>6, SessionMoves DEF storeVars
  <2>2. SessionSound(s)'
    BY <1>1, <1>2, <1>3, <1>4, <2>1, CalmSound
  <2> QED
    BY <1>2, <1>3, <1>5, <1>6, <2>1, <2>2, QuietStep
<1>7. CASE /\ Len(heap) < MaxRows
           /\ heap' = Append(heap, [key |-> k, by |-> me.txn])
           /\ session' = [session EXCEPT ![s] = [rest EXCEPT !.at = "lock", !.rid = Len(heap'), !.key = k]]
  <2> PICK n, row : n = Len(heap) + 1 /\ row = [key |-> k, by |-> me.txn]
    OBVIOUS
  <2>1. /\ n \in RID /\ n \notin DOMAIN heap /\ Len(heap') = n /\ heap' \in Seq(HeapRow)
        /\ DOMAIN heap' = 1 .. n /\ heap'[n] = row /\ n \in DOMAIN heap'
        /\ Len(heap) \in Nat /\ DOMAIN heap = 1 .. Len(heap)
        /\ row.key = k /\ row.by = me.txn
        /\ \A r \in DOMAIN heap : r \in DOMAIN heap' /\ heap'[r] = heap[r]
        /\ \A r \in DOMAIN heap' : r = n \/ r \in DOMAIN heap
    <3>1. heap \in Seq(HeapRow) /\ Len(heap) \in Nat /\ DOMAIN heap = 1 .. Len(heap)
      BY <1>1, HeapFacts, ManagerConstants DEF TypeOK
    <3>2. row \in HeapRow
      BY <1>1, <1>3, SessionFields DEF HeapRow
    <3>3. n \in RID
      BY <1>7, <3>1, ManagerConstants DEF RID
    <3> QED
      BY <1>7, <3>1, <3>2, <3>3
  <2> DEFINE new == [rest EXCEPT !.at = "lock", !.rid = n, !.key = k]
  <2>2. session' = [session EXCEPT ![s] = new]
    BY <1>7, <2>1
  <2>3. /\ new \in SessionState /\ new.at = "lock" /\ new.txn = me.txn /\ new.stmt = rest.stmt
        /\ new.rid = n /\ new.key = k /\ new.scan = me.scan /\ new.out = me.out /\ new.base = me.base
    <3>1. n \in 0 .. MaxRows
      BY <2>1, ManagerConstants DEF RID
    <3>2. "lock" \in Place
      BY DEF Place
    <3>3. rest \in SessionState /\ k \in Key
      BY <1>3
    <3>4. /\ new \in SessionState /\ new.at = "lock" /\ new.txn = rest.txn /\ new.stmt = rest.stmt
          /\ new.rid = n /\ new.key = k /\ new.scan = rest.scan /\ new.out = rest.out
          /\ new.base = rest.base
      BY ONLY <3>1, <3>2, <3>3 DEF SessionState
    <3> QED
      BY <1>3, <3>4
  <2> HIDE DEF new
  <2>4. /\ session' \in [Session -> SessionState] /\ session'[s] = new
        /\ \A u \in Session : u # s => session'[u] = session[u]
    BY <1>1, <2>2, <2>3, SessionMoves
  <2>5. /\ chains' = chains /\ next_txn_id' = next_txn_id /\ status' = status
        /\ queue' = queue /\ upgrading' = upgrading /\ shared' = shared /\ exclusive' = exclusive
        /\ state' = state /\ call' = call
        /\ index' = index /\ log_records' = log_records
    BY <1>2 DEF mvccVars, lockVars
  <2>6. OthersKept(s) /\ FinishedKept
    BY <2>4, <2>5 DEF OthersKept, FinishedKept
  <2>7. HeapKept
    BY <2>1 DEF HeapKept
  <2>8. VersionsKept
    BY <2>5, SameVersions
  <2>9. Guarantee(s)
    BY <1>1, <2>5, <2>6, <2>7, SameVersions, SameStore DEF Guarantee
  <2>10. chains[n] = <<>>
    BY <1>1, <2>1 DEF RowsOwned
  <2>11. \A u \in Session : (Indexing(u)' <=> Indexing(u)) /\ (Indexing(u) => session'[u] = session[u])
    BY <1>5, <2>3, <2>4 DEF Indexing
  <2>12. Inserting(s)' /\ ~Changing(s)' /\ ~Indexing(s)'
    BY <1>3, <2>3, <2>4 DEF Inserting, Changing, Indexing
  <2>13. TypeOK'
    <3>1. Mvcc!TypeOK' /\ Locks!TypeOK'
      BY <1>1, <2>5 DEF TypeOK, Mvcc!TypeOK, Locks!TypeOK
    <3>2. heap' \in Seq(HeapRow) /\ Len(heap') <= MaxRows
      BY <1>7, <2>1, ManagerConstants
    <3> QED
      BY <1>1, <2>4, <2>5, <3>1, <3>2 DEF TypeOK
  <2>14. Mvcc!ChainInvariant'
    BY <1>1, <1>2, SameChains
  <2>15. LocksSound'
    BY <1>1, <1>2, <2>6, SameLocks
  <2>16. SessionsApart'
    BY <1>1, <1>2, <2>3, <2>4, <2>6, StayApart
  <2>17. RowsOwned'
    <3> SUFFICES ASSUME NEW r \in RID
                 PROVE  /\ Len(chains[r]) <= MaxStatements + 1
                        /\ r \notin DOMAIN heap' => chains[r] = <<>>
                        /\ r \in DOMAIN heap' /\ chains[r] # <<>> =>
                              /\ r \in exclusive[heap'[r].by]
                              /\ \A i \in 1 .. Len(chains[r]) : chains[r][i].begin_txn_id = heap'[r].by
                        /\ r \in DOMAIN heap' /\ chains[r] = <<>> =>
                              \E u \in Session : Inserting(u)' /\ session'[u].rid = r
      BY <2>5 DEF RowsOwned
    <3>1. \A u \in Session : Inserting(u) => Inserting(u)' /\ session'[u] = session[u]
      BY <1>5, <2>4 DEF Inserting
    <3>2. CASE r = n
      BY <1>1, <2>1, <2>3, <2>4, <2>10, <2>12, <3>2 DEF RowsOwned
    <3>3. CASE r # n
      BY <1>1, <2>1, <3>1, <3>3 DEF RowsOwned
    <3> QED
      BY <3>2, <3>3
  <2>18. IndexSound'
    <3>1. ASSUME NEW r \in DOMAIN heap', NEW j \in Key, LiveHead(r, j)'
          PROVE  r \in DOMAIN heap /\ LiveHead(r, j)
      BY <2>1, <2>5, <2>10, <3>1 DEF LiveHead
    <3> QED
      BY <1>1, <2>5, <2>7, <2>8, <2>11, <3>1, IndexStays
  <2>19. VersionsLogged'
    <3>1. \A t \in TxnId : VersionsOf(t)' = VersionsOf(t)
      BY <2>5 DEF VersionsOf
    <3> QED
      BY <1>1, <2>5, <2>11, <3>1, LogStays
  <2>20. SessionSound(s)'
    <3>1. ScanSound(s)' /\ BaseSound(s)' /\ ReadSound(s)'
      BY <2>3, <2>4, <2>9, SessionCarries
    <3>2. PlaceSound(s)'
      BY <1>1, <1>2, <1>4, <2>3, <2>4, <2>5 DEF PlaceSound, Active, Running
    <3>3. LockSound(s)' /\ SelectSound(s)'
      BY <2>3, <2>4 DEF LockSound, SelectSound
    <3>4. n \in Carriers(k)'
      BY <2>1 DEF Carriers
    <3>5. chains'[n] = <<>> /\ heap'[n].by = me.txn
      BY <2>1, <2>5, <2>10
    <3>6. RowSound(s)'
      BY <1>3, <2>3, <2>4, <2>12, <3>4, <3>5 DEF RowSound, Carriers
    <3> QED
      BY <3>1, <3>2, <3>3, <3>6 DEF SessionSound
  <2> QED
    BY <2>9, <2>13, <2>14, <2>15, <2>16, <2>17, <2>18, <2>19, <2>20, Assemble
<1> QED
  BY <1>6, <1>7 DEF InsertIntoHeap

-----------------------------------------------------------------------------
(* Locks. *)

\* Transaction t has called lockExclusive for r: nobody aborts, nobody releases
\* anything, and the call ends with the lock or goes on waiting.
LockCalled(t, r) ==
    /\ Locks!Invariant'
    /\ \A u \in TxnId : /\ shared'[u] = {} /\ state'[u] = "ACTIVE" /\ exclusive[u] \subseteq exclusive'[u]
                        /\ u # t => call'[u] = call[u]
    /\ \/ call'[t] = Locks!Idle /\ r \in exclusive'[t]
       \/ call'[t] \in Locks!Blocked /\ call'[t].op = "lockExclusive" /\ call'[t].rid = r

\* That is what lockExclusive does, before and after the wait.
LEMMA LockSteps ==
    ASSUME LocksSound, NEW t \in TxnId, NEW r \in RID,
           \/ Locks!LockExclusive(t, r)
           \/ /\ call[t] \in Locks!Blocked /\ call[t].op = "lockExclusive" /\ call[t].rid = r
              /\ Locks!SpuriousWakeup(t) \/ Locks!Resume(t)
    PROVE  LockCalled(t, r)
<1>1. /\ shared \in [TxnId -> SUBSET RID] /\ exclusive \in [TxnId -> SUBSET RID]
      /\ state \in [TxnId -> {"ACTIVE", "ABORTED"}]
      /\ call \in [TxnId -> Locks!Blocked \cup {Locks!Idle, Locks!Releasing}]
      /\ \A u \in TxnId : shared[u] = {} /\ state[u] = "ACTIVE"
      /\ Locks!Invariant
  BY DEF LocksSound, Locks!Invariant, Locks!TypeOK
<1>2. Locks!Invariant'
  BY <1>1, LockCallsKeep
<1>3. ASSUME NEW q, Locks!Granted(t, "lockExclusive", r, q), state' = state
      PROVE  /\ \A u \in TxnId : /\ shared'[u] = {} /\ state'[u] = "ACTIVE" /\ exclusive[u] \subseteq exclusive'[u]
                                 /\ u # t => call'[u] = call[u]
             /\ call'[t] = Locks!Idle /\ r \in exclusive'[t]
  <2>1. /\ shared' = [shared EXCEPT ![t] = shared[t] \ {r}]
        /\ exclusive' = [exclusive EXCEPT ![t] = exclusive[t] \cup {r}]
        /\ call' = [call EXCEPT ![t] = Locks!Idle]
    BY <1>3 DEF Locks!Granted
  <2> QED
    BY <1>1, <1>3, <2>1
<1>4. ASSUME NEW c \in Locks!Blocked, c.op = "lockExclusive", c.rid = r, call' = [call EXCEPT ![t] = c],
             shared' = shared, exclusive' = exclusive, state' = state
      PROVE  /\ \A u \in TxnId : /\ shared'[u] = {} /\ state'[u] = "ACTIVE" /\ exclusive[u] \subseteq exclusive'[u]
                                 /\ u # t => call'[u] = call[u]
             /\ call'[t] \in Locks!Blocked /\ call'[t].op = "lockExclusive" /\ call'[t].rid = r
  BY <1>1, <1>4
<1>5. CASE Locks!LockExclusive(t, r)
  <2>1. Locks!Enqueue(t, r, "lockExclusive")
    BY <1>1, <1>5 DEF Locks!LockExclusive
  <2>2. CASE \E q : Locks!Granted(t, "lockExclusive", r, q) /\ state' = state
    BY <1>2, <1>3, <2>2 DEF LockCalled
  <2>3. CASE /\ call' = [call EXCEPT ![t] = Locks!Asleep("lockExclusive", r)]
             /\ shared' = shared /\ exclusive' = exclusive /\ state' = state
    <3>1. /\ Locks!Asleep("lockExclusive", r) \in Locks!Blocked
          /\ Locks!Asleep("lockExclusive", r).op = "lockExclusive"
          /\ Locks!Asleep("lockExclusive", r).rid = r
      BY DEF Locks!Asleep, Locks!Blocked
    <3> QED
      BY <1>2, <1>4, <2>3, <3>1 DEF LockCalled
  <2> QED
    BY <2>1, <2>2, <2>3 DEF Locks!Enqueue
<1>6. ASSUME call[t] \in Locks!Blocked, call[t].op = "lockExclusive", call[t].rid = r, NEW b \in BOOLEAN
      PROVE  /\ [call[t] EXCEPT !.awake = b] \in Locks!Blocked
             /\ [call[t] EXCEPT !.awake = b].op = "lockExclusive"
             /\ [call[t] EXCEPT !.awake = b].rid = r
  BY <1>6 DEF Locks!Blocked
<1>7. CASE /\ call[t] \in Locks!Blocked /\ call[t].op = "lockExclusive" /\ call[t].rid = r
           /\ Locks!SpuriousWakeup(t)
  <2>1. /\ call' = [call EXCEPT ![t] = [call[t] EXCEPT !.awake = TRUE]]
        /\ shared' = shared /\ exclusive' = exclusive /\ state' = state
    BY <1>7 DEF Locks!SpuriousWakeup
  <2> QED
    BY <1>2, <1>4, <1>6, <1>7, <2>1 DEF LockCalled
<1>8. CASE /\ call[t] \in Locks!Blocked /\ call[t].op = "lockExclusive" /\ call[t].rid = r
           /\ Locks!Resume(t)
  <2>1. \/ Locks!Granted(t, "lockExclusive", r, queue[r]) /\ state' = state
        \/ /\ call' = [call EXCEPT ![t] = [call[t] EXCEPT !.awake = FALSE]]
           /\ shared' = shared /\ exclusive' = exclusive /\ state' = state
    BY <1>1, <1>8 DEF Locks!Resume
  <2> QED
    BY <1>2, <1>3, <1>4, <1>6, <1>8, <2>1 DEF LockCalled
<1> QED
  BY <1>5, <1>7, <1>8

\* A session calls lockExclusive for the row in hand, or wakes in the call.
LEMMA LockingKeeps ==
    ASSUME StatementsInvariant, NEW s \in Session, session[s].at \in {"lock", "version"},
           session' = [session EXCEPT ![s] = [session[s] EXCEPT !.at = "version"]],
           UNCHANGED <<mvccVars, storeVars>>, LockCalled(session[s].txn, session[s].rid)
    PROVE  StatementsInvariant'
<1> PICK me : me = session[s]
  OBVIOUS
<1> PICK new : new = [me EXCEPT !.at = "version"]
  OBVIOUS
<1>0. /\ session' = [session EXCEPT ![s] = new] /\ Locks!Invariant'
      /\ \A u \in TxnId : /\ shared'[u] = {} /\ state'[u] = "ACTIVE" /\ exclusive[u] \subseteq exclusive'[u]
                          /\ u # me.txn => call'[u] = call[u]
      /\ \/ call'[me.txn] = Locks!Idle /\ me.rid \in exclusive'[me.txn]
         \/ /\ call'[me.txn] \in Locks!Blocked /\ call'[me.txn].op = "lockExclusive"
            /\ call'[me.txn].rid = me.rid
  BY DEF LockCalled
<1>1. /\ TypeOK /\ Mvcc!ChainInvariant /\ LocksSound /\ SessionsApart /\ RowsOwned /\ IndexSound
      /\ VersionsLogged /\ me \in SessionState /\ PlaceSound(s) /\ RowSound(s) /\ me.txn \in TxnId
  BY MySession DEF StatementsInvariant
<1>2. /\ new \in SessionState /\ new.at = "version" /\ new.txn = me.txn /\ new.stmt = me.stmt
      /\ new.rid = me.rid /\ new.key = me.key /\ new.scan = me.scan /\ new.out = me.out /\ new.base = me.base
  <2>1. "version" \in Place
    BY DEF Place
  <2> QED
    BY <1>1, <2>1, MovedFields
<1>3. /\ session' \in [Session -> SessionState] /\ session'[s] = new
      /\ \A u \in Session : u # s => session'[u] = session[u]
  <2>1. TypeOK /\ s \in Session /\ new \in SessionState /\ session' = [session EXCEPT ![s] = new]
    BY <1>0, <1>1, <1>2
  <2> QED
    BY ONLY <2>1, SessionMoves
<1>4. /\ chains' = chains /\ next_txn_id' = next_txn_id /\ status' = status
      /\ heap' = heap /\ index' = index /\ log_records' = log_records
  BY DEF mvccVars, storeVars
<1>5. \A u \in Session : u # s /\ session[u].at # "idle" => session[u].txn # me.txn /\ session[u].txn \in TxnId
  BY <1>1, SessionFields DEF SessionsApart
<1>6. OthersKept(s) /\ FinishedKept
  BY <1>0, <1>3, <1>4, <1>5 DEF OthersKept, FinishedKept
<1>7. Guarantee(s) /\ HeapKept /\ VersionsKept
  BY <1>1, <1>4, <1>6, SameVersions, SameStore DEF Guarantee
<1>8. \A u \in Session : /\ Indexing(u)' <=> Indexing(u)
                         /\ Inserting(u)' <=> Inserting(u)
                         /\ Changing(u)' <=> Changing(u)
                         /\ session'[u].rid = session[u].rid /\ session'[u].txn = session[u].txn
  BY <1>2, <1>3 DEF Indexing, Inserting, Changing
<1>9. TypeOK'
  <2>1. Mvcc!TypeOK' /\ Locks!TypeOK'
    BY <1>0, <1>1, <1>4 DEF TypeOK, Mvcc!TypeOK, Locks!Invariant
  <2> QED
    BY <1>1, <1>3, <1>4, <2>1 DEF TypeOK
<1>10. Mvcc!ChainInvariant'
  BY <1>1, SameChains
<1>11. LocksSound'
  <2>1. ASSUME NEW t \in TxnId, call'[t] # Locks!Idle
        PROVE  \E u \in Session : session'[u].at = "version" /\ session'[u].txn = t
    <3>1. CASE t = me.txn
      BY <1>0, <1>2, <1>3, <3>1
    <3>2. CASE t # me.txn
      <4>1. PICK u \in Session : session[u].at = "version" /\ session[u].txn = t
        BY <1>0, <1>1, <2>1, <3>2 DEF LocksSound
      <4> QED
        BY <1>3, <3>2, <4>1
    <3> QED
      BY <3>1, <3>2
  <2>2. Locks!Idle' = Locks!Idle
    BY DEF Locks!Idle
  <2> QED
    BY <1>0, <2>1, <2>2 DEF LocksSound
<1>12. SessionsApart'
  BY <1>1, <1>2, <1>3, <1>6, StayApart
<1>13. RowsOwned'
  <2> SUFFICES ASSUME NEW r \in RID
               PROVE  /\ Len(chains[r]) <= MaxStatements + 1
                      /\ r \notin DOMAIN heap => chains[r] = <<>>
                      /\ r \in DOMAIN heap /\ chains[r] # <<>> =>
                            /\ r \in exclusive'[heap[r].by]
                            /\ \A i \in 1 .. Len(chains[r]) : chains[r][i].begin_txn_id = heap[r].by
                      /\ r \in DOMAIN heap /\ chains[r] = <<>> =>
                            \E u \in Session : Inserting(u)' /\ session'[u].rid = r
    BY <1>4 DEF RowsOwned
  <2>1. r \in DOMAIN heap => exclusive[heap[r].by] \subseteq exclusive'[heap[r].by]
    BY <1>0, <1>1, HeapFacts
  <2> QED
    BY <1>1, <1>8, <2>1 DEF RowsOwned
<1>14. IndexSound'
  <2>1. \A r \in DOMAIN heap', k \in Key : LiveHead(r, k)' => r \in DOMAIN heap /\ LiveHead(r, k)
    BY <1>4 DEF LiveHead
  <2> QED
    BY <1>1, <1>4, <1>7, <1>8, <2>1, IndexStays
<1>15. VersionsLogged'
  <2>1. \A t \in TxnId : VersionsOf(t)' = VersionsOf(t)
    BY <1>4 DEF VersionsOf
  <2> QED
    BY <1>1, <1>4, <1>8, <2>1, LogStays
<1>16. SessionSound(s)'
  <2>1. ScanSound(s)' /\ BaseSound(s)' /\ ReadSound(s)'
    BY <1>2, <1>3, <1>7, SessionCarries
  <2>2. PlaceSound(s)'
    BY <1>1, <1>2, <1>3, <1>4 DEF PlaceSound, Active, Running
  <2>3. SelectSound(s)'
    BY <1>2, <1>3 DEF SelectSound
  <2>4. LockSound(s)'
    BY <1>0, <1>2, <1>3 DEF LockSound, Locks!Idle, Locks!Blocked
  <2>5. RowSound(s)'
    <3>1. \A k : Carriers(k)' = Carriers(k)
      BY <1>4 DEF Carriers
    <3>2. \A r, k : LiveHead(r, k)' <=> LiveHead(r, k)
      BY <1>4 DEF LiveHead
    <3>3. ~Indexing(s) /\ ~Indexing(s)'
      BY <1>8 DEF Indexing
    <3> QED
      BY <1>1, <1>2, <1>3, <1>4, <1>8, <3>1, <3>2, <3>3 DEF RowSound
  <2> QED
    BY <2>1, <2>2, <2>3, <2>4, <2>5 DEF SessionSound
<1> QED
  BY <1>7, <1>9, <1>10, <1>11, <1>12, <1>13, <1>14, <1>15, <1>16, Assemble

\* The row in hand is a record.
LEMMA InHand ==
    ASSUME StatementsInvariant, NEW s \in Session,
           session[s].at \in {"lock", "version", "index", "reindex"}
    PROVE  /\ session[s].rid \in RID /\ session[s].rid \in DOMAIN heap /\ session[s].key \in Key
           /\ session[s].stmt \in StatementForm
           /\ session[s].stmt.op \in {"insert", "update", "delete"}
           /\ session[s].rid \in Carriers(session[s].key)
<1>1. TypeOK /\ RowSound(s)
  BY DEF StatementsInvariant
<1>2. Inserting(s) \/ Changing(s) \/ Indexing(s)
  BY DEF Inserting, Changing, Indexing
<1>3. session[s].stmt \in StatementForm
  BY MySession DEF Running
<1> QED
  BY <1>1, <1>2, <1>3, HeapFacts DEF RowSound, Carriers

\* The call.
LEMMA LockRecordKeeps ==
    ASSUME StatementsInvariant, NEW s \in Session, LockRecord(s)
    PROVE  StatementsInvariant'
<1> PICK me : me = session[s]
  OBVIOUS
<1>1. TypeOK /\ LocksSound /\ SessionsApart /\ me.txn \in TxnId /\ me.at = "lock" /\ me.rid \in RID
  BY MySession, InHand DEF StatementsInvariant, LockRecord
<1>2. session' = [session EXCEPT ![s] = [session[s] EXCEPT !.at = "version"]] /\ UNCHANGED <<mvccVars, storeVars>>
  BY DEF LockRecord
<1>3. CASE me.rid \in exclusive[me.txn] /\ UNCHANGED lockVars
  <2>1. call[me.txn] = Locks!Idle
    <3>1. \A u \in Session : session[u].at = "version" => session[u].txn # me.txn
      BY <1>1 DEF SessionsApart
    <3> QED
      BY <1>1, <3>1 DEF LocksSound
  <2>2. Locks!Invariant'
    BY <1>1, <1>3 DEF LocksSound, lockVars, Locks!Invariant, Locks!TypeOK, Locks!LockSetsMatchQueue,
                      Locks!WaitersMatchQueue, Locks!UpgradeFlagOwned, Locks!Waiting
  <2>3. /\ \A u \in TxnId : /\ shared'[u] = {} /\ state'[u] = "ACTIVE" /\ exclusive[u] \subseteq exclusive'[u]
                            /\ u # me.txn => call'[u] = call[u]
        /\ call'[me.txn] = Locks!Idle /\ me.rid \in exclusive'[me.txn]
    BY <1>1, <1>3, <2>1 DEF LocksSound, lockVars
  <2>4. LockCalled(session[s].txn, session[s].rid)
    BY <2>2, <2>3 DEF LockCalled
  <2> QED
    BY <1>1, <1>2, <2>4, LockingKeeps
<1>4. CASE Locks!LockExclusive(me.txn, me.rid)
  <2>1. LockCalled(session[s].txn, session[s].rid)
    BY <1>1, <1>4, LockSteps
  <2> QED
    BY <1>1, <1>2, <2>1, LockingKeeps
<1> QED
  BY <1>3, <1>4 DEF LockRecord

\* A blocked thread looks at the queue again.
LEMMA LockWakesKeeps ==
    ASSUME StatementsInvariant, NEW s \in Session, LockWakes(s)
    PROVE  StatementsInvariant'
<1> PICK me : me = session[s]
  OBVIOUS
<1>1. /\ TypeOK /\ LocksSound /\ me.txn \in TxnId /\ me.at = "version" /\ me.rid \in RID
      /\ LockSound(s) /\ me \in SessionState
  BY MySession, InHand DEF StatementsInvariant, LockWakes
<1>2. me = [me EXCEPT !.at = "version"]
  BY <1>1 DEF SessionState
<1>3. session' = [session EXCEPT ![s] = [session[s] EXCEPT !.at = "version"]] /\ UNCHANGED <<mvccVars, storeVars>>
  BY <1>1, <1>2 DEF LockWakes, TypeOK
<1>4. Locks!SpuriousWakeup(me.txn) \/ Locks!Resume(me.txn)
  BY DEF LockWakes
<1>5. call[me.txn] \in Locks!Blocked
  BY <1>4 DEF Locks!SpuriousWakeup, Locks!Resume, Locks!Waiting
<1>6. call[me.txn].op = "lockExclusive" /\ call[me.txn].rid = me.rid
  <2>1. Locks!Idle \notin Locks!Blocked
    BY DEF Locks!Idle, Locks!Blocked
  <2> QED
    BY <1>1, <1>5, <2>1 DEF LockSound
<1>7. LockCalled(session[s].txn, session[s].rid)
  BY <1>1, <1>4, <1>5, <1>6, LockSteps
<1> QED
  BY <1>1, <1>3, <1>7, LockingKeeps

-----------------------------------------------------------------------------
(* Versions. *)

\* A transaction writes finitely many versions.
LEMMA FiniteVersions ==
    ASSUME NEW t
    PROVE  IsFiniteSet(VersionsOf(t)) /\ Cardinality(VersionsOf(t)) \in Nat
           /\ IsFiniteSet(VersionsOf(t)') /\ Cardinality(VersionsOf(t)') \in Nat
<1> PICK all : all = RID \X (1 .. (MaxStatements + 1))
  OBVIOUS
<1>1. IsFiniteSet(RID) /\ IsFiniteSet(1 .. (MaxStatements + 1))
  BY ManagerConstants, FS_Interval DEF RID
<1>2. IsFiniteSet(all)
  BY <1>1, FS_Product
<1>3. VersionsOf(t) \subseteq all /\ VersionsOf(t)' \subseteq all
  BY DEF VersionsOf
<1>4. IsFiniteSet(VersionsOf(t)) /\ IsFiniteSet(VersionsOf(t)')
  BY <1>2, <1>3, FS_Subset
<1> QED
  BY <1>4, FS_CardinalityType

\* A new version of its row adds one to what a transaction has written.
LEMMA VersionAdded ==
    ASSUME TypeOK, RowsOwned, NEW t \in TxnId, NEW r \in DOMAIN heap, heap[r].by = t,
           NEW d, NEW b, Grown(t, r, d, b), Len(chains[r]) < MaxStatements + 1
    PROVE  /\ Cardinality(VersionsOf(t)') = Cardinality(VersionsOf(t)) + 1
           /\ \A u \in TxnId : u # t => VersionsOf(u)' = VersionsOf(u)
<1> PICK n : n = Len(chains[r])
  OBVIOUS
<1>1. /\ r \in RID /\ n \in Nat /\ n + 1 \in 1 .. (MaxStatements + 1) /\ Len(chains'[r]) = n + 1
      /\ \A q \in RID : Len(chains[q]) \in Nat
  <2>1. r \in RID /\ \A q \in RID : Len(chains[q]) \in Nat
    BY HeapFacts, ChainTypes DEF TypeOK
  <2> QED
    BY <2>1, ManagerConstants DEF Grown
<1>2. \A i \in 1 .. n : chains[r][i].begin_txn_id = t
  <2>1. n # 0 => chains[r] # <<>>
    OBVIOUS
  <2> QED
    BY <1>1, <2>1 DEF RowsOwned
<1>3. \A i \in 1 .. (n + 1) : chains'[r][i].begin_txn_id = t
  <2> SUFFICES ASSUME NEW i \in 1 .. (n + 1) PROVE chains'[r][i].begin_txn_id = t
    OBVIOUS
  <2>1. CASE i = 1
    BY <2>1 DEF Grown
  <2>2. CASE i # 1
    <3>1. i - 1 \in 1 .. n /\ i = (i - 1) + 1
      BY <1>1, <2>2
    <3>2. chains'[r][(i - 1) + 1].begin_txn_id = chains[r][i - 1].begin_txn_id
      BY <3>1 DEF Grown
    <3> QED
      BY <1>2, <3>1, <3>2
  <2> QED
    BY <2>1, <2>2
<1>4. \A q \in RID : q # r => chains'[q] = chains[q]
  BY DEF Grown
<1>5. \A u \in TxnId : u # t => VersionsOf(u)' = VersionsOf(u)
  <2> SUFFICES ASSUME NEW u \in TxnId, u # t, NEW q \in RID, NEW i \in 1 .. (MaxStatements + 1)
               PROVE  (i <= Len(chains'[q]) /\ chains'[q][i].begin_txn_id = u)
                         <=> (i <= Len(chains[q]) /\ chains[q][i].begin_txn_id = u)
    BY DEF VersionsOf
  <2>1. CASE q = r
    <3>1. i <= Len(chains'[r]) => chains'[r][i].begin_txn_id # u
      BY <1>1, <1>3, ManagerConstants
    <3>2. i <= Len(chains[r]) => chains[r][i].begin_txn_id # u
      BY <1>1, <1>2, ManagerConstants
    <3> QED
      BY <2>1, <3>1, <3>2
  <2>2. CASE q # r
    BY <1>4, <2>2
  <2> QED
    BY <2>1, <2>2
<1> PICK v : v = <<r, n + 1>>
  OBVIOUS
<1>6. VersionsOf(t)' = VersionsOf(t) \cup {v}
  <2>1. ASSUME NEW q \in RID, NEW i \in 1 .. (MaxStatements + 1)
        PROVE  (i <= Len(chains'[q]) /\ chains'[q][i].begin_txn_id = t)
                  <=> (i <= Len(chains[q]) /\ chains[q][i].begin_txn_id = t) \/ (q = r /\ i = n + 1)
    <3>1. CASE q = r
      <4>1. i <= Len(chains'[r]) => chains'[r][i].begin_txn_id = t
        BY <1>1, <1>3, ManagerConstants
      <4>2. i <= Len(chains[r]) => chains[r][i].begin_txn_id = t
        BY <1>1, <1>2, ManagerConstants
      <4>3. i <= n + 1 <=> i <= n \/ i = n + 1
        BY <1>1, ManagerConstants
      <4> QED
        BY <1>1, <3>1, <4>1, <4>2, <4>3
    <3>2. CASE q # r
      BY <1>4, <3>2
    <3> QED
      BY <3>1, <3>2
  <2>2. ASSUME NEW x PROVE x \in VersionsOf(t)' <=> x \in VersionsOf(t) \cup {v}
    <3>1. v \in RID \X (1 .. (MaxStatements + 1))
      BY <1>1
    <3>2. CASE x \notin RID \X (1 .. (MaxStatements + 1))
      BY <3>1, <3>2 DEF VersionsOf
    <3>3. CASE x \in RID \X (1 .. (MaxStatements + 1))
      <4>1. PICK q \in RID, i \in 1 .. (MaxStatements + 1) : x = <<q, i>>
        BY <3>3
      <4>2. x[1] = q /\ x[2] = i /\ (x = v <=> q = r /\ i = n + 1)
        BY <4>1
      <4>3. x \in VersionsOf(t)' <=> i <= Len(chains'[q]) /\ chains'[q][i].begin_txn_id = t
        BY <3>3, <4>2 DEF VersionsOf
      <4>4. x \in VersionsOf(t) <=> i <= Len(chains[q]) /\ chains[q][i].begin_txn_id = t
        BY <3>3, <4>2 DEF VersionsOf
      <4> QED
        BY <2>1, <4>2, <4>3, <4>4
    <3> QED
      BY <3>2, <3>3
  <2> QED
    BY <2>2
<1>7. v \notin VersionsOf(t)
  <2>1. v[1] = r /\ v[2] = n + 1 /\ ~(n + 1 <= n)
    BY <1>1
  <2> QED
    BY <2>1 DEF VersionsOf
<1>8. Cardinality(VersionsOf(t) \cup {v}) = Cardinality(VersionsOf(t)) + 1
  <2>1. IsFiniteSet(VersionsOf(t))
    BY FiniteVersions
  <2> QED
    BY <1>7, <2>1, FS_AddElement
<1> QED
  BY <1>5, <1>6, <1>8

\* The manager has written a version of the row in hand.
LEMMA VersionKeeps ==
    ASSUME StatementsInvariant, NEW s \in Session, NEW me, me = session[s], me.at = "version",
           call[me.txn] = Locks!Idle, NEW d, NEW b \in BOOLEAN, Grown(me.txn, me.rid, d, b), Mvcc!ChainInvariant',
           Len(chains[me.rid]) < MaxStatements + 1, me.stmt.op # "insert" => chains[me.rid] # <<>>,
           me.stmt.op = "insert" => d = me.key /\ ~b,
           me.stmt.op = "update" => d = me.stmt.set /\ ~b /\ me.stmt.set \in Key,
           me.stmt.op = "delete" => b,
           session' = [session EXCEPT ![s] = [session[s] EXCEPT !.at = "index"]],
           UNCHANGED <<lockVars, storeVars>>
    PROVE  StatementsInvariant'
<1> PICK new, r, t : new = [me EXCEPT !.at = "index"] /\ r = me.rid /\ t = me.txn
  OBVIOUS
<1>1. /\ TypeOK /\ LocksSound /\ SessionsApart /\ RowsOwned /\ IndexSound
      /\ VersionsLogged /\ me \in SessionState /\ PlaceSound(s) /\ RowSound(s) /\ LockSound(s) /\ t \in TxnId
      /\ \A u \in Session : RowSound(u)
  BY MySession DEF StatementsInvariant
<1>2. /\ r \in RID /\ r \in DOMAIN heap /\ me.key \in Key /\ me.stmt \in StatementForm
      /\ me.stmt.op \in {"insert", "update", "delete"} /\ r \in Carriers(me.key)
  BY InHand
<1>3. /\ new \in SessionState /\ new.at = "index" /\ new.txn = t /\ new.stmt = me.stmt
      /\ new.rid = r /\ new.key = me.key /\ new.scan = me.scan /\ new.out = me.out /\ new.base = me.base
  BY <1>1 DEF SessionState, Place
<1>4. /\ session' \in [Session -> SessionState] /\ session'[s] = new
      /\ \A u \in Session : u # s => session'[u] = session[u]
  BY <1>1, <1>3, SessionMoves
<1>5. /\ status' = status /\ next_txn_id' = next_txn_id
      /\ queue' = queue /\ upgrading' = upgrading /\ shared' = shared /\ exclusive' = exclusive
      /\ state' = state /\ call' = call
      /\ heap' = heap /\ index' = index /\ log_records' = log_records
  BY DEF Grown, lockVars, storeVars
<1>6. status[t] = "active"
  BY <1>1 DEF PlaceSound, Active
<1>7. heap[r].by = t /\ (Changing(s) => LiveHead(r, me.key))
  <2>1. CASE me.stmt.op = "insert"
    <3>1. Inserting(s) /\ ~Changing(s)
      BY <2>1 DEF Inserting, Changing
    <3> QED
      BY <1>1, <3>1 DEF RowSound
  <2>2. CASE me.stmt.op # "insert"
    <3>1. Locks!Idle \notin Locks!Blocked
      BY DEF Locks!Idle, Locks!Blocked
    <3>2. r \in exclusive[t]
      BY <1>1, <3>1 DEF LockSound
    <3>3. r \in exclusive[heap[r].by] /\ heap[r].by \in TxnId
      BY <1>1, <1>2, <2>2, HeapFacts DEF RowsOwned
    <3>4. heap[r].by = t
      BY <1>1, <3>2, <3>3, LockedByOne DEF LocksSound
    <3> QED
      BY <1>1, <3>4 DEF RowSound
  <2> QED
    BY <2>1, <2>2
<1>8. /\ \A q \in RID : q # r => chains'[q] = chains[q]
      /\ chains'[r] # <<>> /\ chains'[r][1].begin_txn_id = t
      /\ chains'[r][1].data = d /\ chains'[r][1].is_deleted = b
      /\ Len(chains'[r]) = Len(chains[r]) + 1 /\ Len(chains[r]) \in Nat
      /\ \A q \in RID : Len(chains[q]) \in Nat
  <2>1. Len(chains[r]) \in Nat /\ \A q \in RID : Len(chains[q]) \in Nat
    BY <1>1, <1>2, ChainTypes DEF TypeOK
  <2>2. Len(chains'[r]) # 0
    BY <2>1 DEF Grown
  <2> QED
    BY <2>1, <2>2 DEF Grown
<1>9. OthersKept(s) /\ FinishedKept
  BY <1>4, <1>5 DEF OthersKept, FinishedKept
<1>10. OwnRowsOnly(s)
  BY <1>2, <1>6, <1>7, <1>8 DEF OwnRowsOnly
<1>11. VersionsKept
  <2> SUFFICES ASSUME NEW q \in RID, NEW i \in 1 .. Len(chains[q])
               PROVE  \E j \in 1 .. Len(chains'[q]) :
                         /\ chains'[q][j].data = chains[q][i].data
                         /\ chains'[q][j].begin_txn_id = chains[q][i].begin_txn_id
                         /\ chains[q][i].is_committed => chains'[q][j].is_committed
    BY Zenon DEF VersionsKept
  <2>1. CASE q = r
    <3>1. i + 1 \in 1 .. Len(chains'[q])
      BY <1>8, <2>1
    <3>2. /\ chains'[q][i + 1].begin_txn_id = chains[q][i].begin_txn_id
          /\ chains'[q][i + 1].data = chains[q][i].data
          /\ chains'[q][i + 1].is_committed = chains[q][i].is_committed
      BY <2>1, Zenon DEF Grown
    <3> QED
      BY <3>1, <3>2, Zenon
  <2>2. CASE q # r
    <3>1. chains'[q] = chains[q]
      BY <1>8, <2>2
    <3> QED
      BY <3>1, Zenon
  <2> QED
    BY <2>1, <2>2
<1>12. HeapKept /\ IndexKept(s)
  BY <1>1, <1>5, SameStore
<1>13. Guarantee(s)
  BY <1>9, <1>10, <1>11, <1>12 DEF Guarantee
<1>14. ~Indexing(s) /\ Indexing(s)' /\ ~Inserting(s)' /\ ~Changing(s)'
  BY <1>3, <1>4 DEF Indexing, Inserting, Changing
<1>15. \A u \in Session : Indexing(u) => u # s /\ Indexing(u)' /\ session'[u] = session[u]
  BY <1>4, <1>14 DEF Indexing
<1>16. \A u \in Session : Indexing(u) => session[u].txn # t /\ session[u].rid # r
  <2> SUFFICES ASSUME NEW u \in Session, Indexing(u) PROVE session[u].txn # t /\ session[u].rid # r
    OBVIOUS
  <2>1. session[u].txn # t
    BY <1>1, <1>15 DEF SessionsApart, Indexing
  <2>2. heap[session[u].rid].by = session[u].txn
    BY <1>1 DEF RowSound
  <2> QED
    BY <1>7, <2>1, <2>2
<1>17. TypeOK'
  <2>1. Mvcc!TypeOK' /\ Locks!TypeOK'
    BY <1>1, <1>5 DEF TypeOK, Mvcc!ChainInvariant, Locks!TypeOK
  <2> QED
    BY <1>1, <1>4, <1>5, <2>1 DEF TypeOK
<1>18. LocksSound'
  BY <1>1, <1>9, SameLocks
<1>19. SessionsApart'
  BY <1>1, <1>3, <1>4, <1>9, StayApart
<1>20. RowsOwned'
  <2> SUFFICES ASSUME NEW q \in RID
               PROVE  /\ Len(chains'[q]) <= MaxStatements + 1
                      /\ q \notin DOMAIN heap => chains'[q] = <<>>
                      /\ q \in DOMAIN heap /\ chains'[q] # <<>> =>
                            /\ q \in exclusive[heap[q].by]
                            /\ \A i \in 1 .. Len(chains'[q]) : chains'[q][i].begin_txn_id = heap[q].by
                      /\ q \in DOMAIN heap /\ chains'[q] = <<>> =>
                            \E u \in Session : Inserting(u)' /\ session'[u].rid = q
    BY <1>5 DEF RowsOwned
  <2>1. CASE q # r
    <3>1. chains'[q] = chains[q]
      BY <1>8, <2>1
    <3>2. \A u \in Session : Inserting(u) /\ session[u].rid = q => Inserting(u)' /\ session'[u].rid = q
      BY <1>4, <2>1 DEF Inserting
    <3> QED
      BY <1>1, <3>1, <3>2 DEF RowsOwned
  <2>2. CASE q = r
    <3>1. Len(chains'[r]) <= MaxStatements + 1
      BY <1>8, ManagerConstants
    <3>2. r \in exclusive[t]
      <4>1. Locks!Idle \notin Locks!Blocked
        BY DEF Locks!Idle, Locks!Blocked
      <4> QED
        BY <1>1, <4>1 DEF LockSound
    <3>3. ASSUME NEW i \in 1 .. Len(chains'[r]) PROVE chains'[r][i].begin_txn_id = t
      <4>1. CASE i = 1
        BY <1>8, <4>1
      <4>2. CASE i # 1
        <5>1. i - 1 \in 1 .. Len(chains[r]) /\ i = (i - 1) + 1 /\ chains[r] # <<>>
          BY <1>8, <4>2
        <5>2. chains'[r][(i - 1) + 1].begin_txn_id = chains[r][i - 1].begin_txn_id
          BY <5>1 DEF Grown
        <5>3. chains[r][i - 1].begin_txn_id = t
          BY <1>1, <1>2, <1>7, <5>1 DEF RowsOwned
        <5> QED
          BY <5>1, <5>2, <5>3
      <4> QED
        BY <4>1, <4>2
    <3> QED
      BY <1>2, <1>7, <1>8, <2>2, <3>1, <3>2, <3>3
  <2> QED
    BY <2>1, <2>2
<1>21. IndexSound'
  <2>1. ASSUME NEW q \in DOMAIN heap', NEW k \in Key, LiveHead(q, k)'
        PROVE  \/ q \in DOMAIN heap /\ LiveHead(q, k)
               \/ \E u \in Session : Indexing(u)' /\ session'[u].rid = q
    <3>1. q \in RID
      BY <1>1, <1>5, HeapFacts
    <3>2. CASE q = r
      BY <1>3, <1>4, <1>14, <3>2
    <3>3. CASE q # r
      BY <1>5, <1>8, <2>1, <3>1, <3>3 DEF LiveHead
    <3> QED
      BY <3>2, <3>3
  <2> QED
    BY <1>1, <1>5, <1>11, <1>12, <1>15, <2>1, IndexStays
<1>22. VersionsLogged'
  <2>1. /\ Cardinality(VersionsOf(t)') = Cardinality(VersionsOf(t)) + 1
        /\ \A u \in TxnId : u # t => VersionsOf(u)' = VersionsOf(u)
    BY <1>1, <1>2, <1>7, VersionAdded
  <2>2. ASSUME NEW u \in TxnId, u # t
        PROVE  (\E x \in Session : Indexing(x)' /\ session'[x].txn = u)
                  <=> (\E x \in Session : Indexing(x) /\ session[x].txn = u)
    <3>1. \A x \in Session : Indexing(x)' /\ session'[x].txn = u => Indexing(x) /\ session[x].txn = u
      BY <1>3, <1>4, <2>2 DEF Indexing
    <3> QED
      BY <1>15, <3>1
  <2>3. ~(\E x \in Session : Indexing(x) /\ session[x].txn = t)
    BY <1>16
  <2>4. \E x \in Session : Indexing(x)' /\ session'[x].txn = t
    BY <1>3, <1>4, <1>14
  <2>5. Cardinality(VersionsOf(t)) = log_records[t] /\ log_records[t] \in Nat
    <3>1. Cardinality(VersionsOf(t)) = log_records[t] + 0 /\ log_records[t] \in Nat
      BY <1>1, <2>3 DEF VersionsLogged, TypeOK
    <3> QED
      BY <3>1
  <2> SUFFICES ASSUME NEW u \in TxnId
               PROVE  Cardinality(VersionsOf(u)') = log_records[u]
                         + (IF \E x \in Session : Indexing(x)' /\ session'[x].txn = u THEN 1 ELSE 0)
    BY <1>5 DEF VersionsLogged
  <2>6. CASE u = t
    BY <2>1, <2>4, <2>5, <2>6
  <2>7. CASE u # t
    BY <1>1, <2>1, <2>2, <2>7 DEF VersionsLogged
  <2> QED
    BY <2>6, <2>7
<1>23. SessionSound(s)'
  <2>1. ScanSound(s)' /\ BaseSound(s)' /\ ReadSound(s)'
    BY <1>3, <1>4, <1>13, SessionCarries
  <2>2. PlaceSound(s)'
    BY <1>1, <1>2, <1>3, <1>4, <1>5, StatementFields DEF PlaceSound, Active, Running
  <2>3. LockSound(s)' /\ SelectSound(s)'
    BY <1>3, <1>4 DEF LockSound, SelectSound
  <2>4. \A k : Carriers(k) \subseteq Carriers(k)'
    BY <1>1, <1>11, <1>12, CarriersGrow
  <2>5. r \in Carriers(me.key)'
    BY <1>2, <2>4
  <2>6. /\ me.stmt.op = "insert" => LiveHead(r, me.key)'
        /\ me.stmt.op = "update" => LiveHead(r, me.stmt.set)' /\ me.stmt.set \in Key
        /\ me.stmt.op = "delete" => chains'[r][1].is_deleted
    BY <1>8 DEF LiveHead
  <2>7. ASSUME me.stmt.op = "update", me.stmt.set = me.key, Carriers(me.key)' = {r}
        PROVE  Indexed(me.key, r)'
    <3>1. Carriers(me.key) = {r}
      BY <1>2, <2>4, <2>7
    <3>2. Changing(s)
      BY <2>7 DEF Changing
    <3>3. Indexed(me.key, r)
      BY <1>1, <1>2, <1>7, <1>16, <3>1, <3>2 DEF IndexSound
    <3> QED
      BY <1>5, <3>3 DEF Indexed
  <2>8. RowSound(s)'
    BY <1>2, <1>3, <1>4, <1>5, <1>7, <1>8, <1>14, <2>5, <2>6, <2>7 DEF RowSound, Carriers, LiveHead, Indexed
  <2> QED
    BY <2>1, <2>2, <2>3, <2>8 DEF SessionSound
<1> QED
  BY <1>13, <1>17, <1>18, <1>19, <1>20, <1>21, <1>22, <1>23, Assemble

\* insert, update and remove.
LEMMA WriteVersionKeeps ==
    ASSUME StatementsInvariant, NEW s \in Session, WriteVersion(s)
    PROVE  StatementsInvariant'
<1> PICK me : me = session[s]
  OBVIOUS
<1>1. /\ TypeOK /\ Mvcc!TypeOK /\ Mvcc!ChainInvariant /\ RowSound(s) /\ me.txn \in TxnId
  BY MySession DEF StatementsInvariant, TypeOK
<1>2. /\ me.at = "version" /\ call[me.txn] = Locks!Idle
      /\ session' = [session EXCEPT ![s] = [session[s] EXCEPT !.at = "index"]]
      /\ UNCHANGED <<lockVars, storeVars>>
  BY DEF WriteVersion, Unblocked
<1>3. /\ me.rid \in RID /\ me.key \in Key /\ me.stmt \in StatementForm
      /\ me.stmt.op \in {"insert", "update", "delete"}
  BY <1>2, InHand
<1>5. CASE me.stmt.op = "insert" /\ Mvcc!Insert(me.txn, me.rid, me.key)
  <2>1. Inserting(s)
    BY <1>2, <1>5 DEF Inserting
  <2>2. chains[me.rid] = <<>>
    BY <1>1, <2>1 DEF RowSound
  <2>3. Grown(me.txn, me.rid, me.key, FALSE)
    BY <1>1, <1>3, <1>5, <2>2, InsertGrows
  <2>4. Mvcc!ChainInvariant'
    BY <1>1, <1>3, <1>5, ChainCallsKeep
  <2>5. Len(chains[me.rid]) < MaxStatements + 1
    BY <2>2, ManagerConstants
  <2> QED
    BY <1>2, <1>5, <2>3, <2>4, <2>5, VersionKeeps
<1>6. CASE me.stmt.op = "update" /\ me.stmt.set # Throws /\ Mvcc!Update(me.txn, me.rid, me.stmt.set)
  <2>1. me.stmt.set \in Key
    BY <1>3, <1>6, StatementFields
  <2>2. Grown(me.txn, me.rid, me.stmt.set, FALSE)
    BY <1>1, <1>3, <1>6, <2>1, WriteGrows DEF Mvcc!Update
  <2>3. Mvcc!ChainInvariant'
    BY <1>1, <1>3, <1>6, <2>1, ChainCallsKeep
  <2>4. Len(chains[me.rid]) < MaxStatements + 1 /\ chains[me.rid] # <<>>
    BY <1>6 DEF Mvcc!Update, Mvcc!Write
  <2> QED
    BY <1>2, <1>6, <2>1, <2>2, <2>3, <2>4, VersionKeeps
<1>7. CASE me.stmt.op = "delete" /\ Mvcc!Remove(me.txn, me.rid)
  <2>1. Grown(me.txn, me.rid, NoKey, TRUE)
    BY <1>1, <1>3, <1>7, WriteGrows DEF Mvcc!Remove
  <2>2. Mvcc!ChainInvariant'
    BY <1>1, <1>3, <1>7, ChainCallsKeep
  <2>3. Len(chains[me.rid]) < MaxStatements + 1 /\ chains[me.rid] # <<>>
    BY <1>7 DEF Mvcc!Remove, Mvcc!Write
  <2> QED
    BY <1>2, <1>7, <2>1, <2>2, <2>3, VersionKeeps
<1> QED
  BY <1>5, <1>6, <1>7 DEF WriteVersion

-----------------------------------------------------------------------------
(* The index. *)

\* An executor has written the index for row r: the entries are sound, and
\* those that are the only way to another row are still there.
IndexWritten(r) ==
    /\ index' \in [DOMAIN index' -> RID] /\ DOMAIN index' \subseteq Key /\ IsFiniteSet(DOMAIN index')
    /\ \A k \in DOMAIN index' : index'[k] \in Carriers(k)
    /\ \A k \in Key, q \in DOMAIN heap : q # r /\ Indexed(k, q) /\ Carriers(k) = {q} => Indexed(k, q)'

\* BPlusTree::insert.
LEMMA InsertWrites ==
    ASSUME TypeOK, IndexSound, NEW k \in Key, NEW r \in RID, r \in Carriers(k), index' = IndexInserted(k, r)
    PROVE  IndexWritten(r) /\ (Carriers(k) = {r} => Indexed(k, r)')
<1>1. /\ index \in [DOMAIN index -> RID] /\ DOMAIN index \subseteq Key /\ IsFiniteSet(DOMAIN index)
      /\ \A j \in DOMAIN index : index[j] \in Carriers(j)
  BY DEF TypeOK, IndexSound
<1>2. /\ DOMAIN index' = DOMAIN index \cup {k}
      /\ \A j \in DOMAIN index : index'[j] = index[j]
      /\ k \notin DOMAIN index => index'[k] = r
      /\ index' = [j \in DOMAIN index' |-> index'[j]]
  BY DEF IndexInserted
<1>3. IsFiniteSet(DOMAIN index')
  BY <1>1, <1>2, FS_AddElement
<1>4. \A j \in DOMAIN index' : index'[j] \in RID /\ index'[j] \in Carriers(j)
  BY <1>1, <1>2
<1>5. index' \in [DOMAIN index' -> RID] /\ DOMAIN index' \subseteq Key
  BY <1>1, <1>2, <1>4
<1>6. \A j \in Key, q \in DOMAIN heap : Indexed(j, q) => Indexed(j, q)'
  BY <1>2 DEF Indexed
<1>7. Carriers(k) = {r} => Indexed(k, r)'
  BY <1>1, <1>2 DEF Indexed
<1> QED
  BY <1>3, <1>4, <1>5, <1>6, <1>7 DEF IndexWritten

\* BPlusTree::remove.
LEMMA RemoveWrites ==
    ASSUME TypeOK, IndexSound, NEW k \in Key, NEW r \in RID, r \in Carriers(k), index' = IndexRemoved(k)
    PROVE  IndexWritten(r)
<1>1. /\ index \in [DOMAIN index -> RID] /\ DOMAIN index \subseteq Key /\ IsFiniteSet(DOMAIN index)
      /\ \A j \in DOMAIN index : index[j] \in Carriers(j)
  BY DEF TypeOK, IndexSound
<1>2. /\ DOMAIN index' = DOMAIN index \ {k}
      /\ \A j \in DOMAIN index' : index'[j] = index[j]
      /\ index' = [j \in DOMAIN index' |-> index'[j]]
  BY DEF IndexRemoved
<1>3. IsFiniteSet(DOMAIN index')
  BY <1>1, <1>2, FS_Subset
<1>4. \A j \in DOMAIN index' : index'[j] \in RID /\ index'[j] \in Carriers(j)
  BY <1>1, <1>2
<1>5. index' \in [DOMAIN index' -> RID] /\ DOMAIN index' \subseteq Key
  BY <1>1, <1>2, <1>4
<1>6. ASSUME NEW j \in Key, NEW q \in DOMAIN heap, q # r, Indexed(j, q), Carriers(j) = {q}
      PROVE  Indexed(j, q)'
  BY <1>2, <1>6 DEF Indexed
<1> QED
  BY <1>3, <1>4, <1>5, <1>6 DEF IndexWritten

\* The executor has written the index, and goes on to the next row or to the
\* new key of this one.
LEMMA IndexStepKeeps ==
    ASSUME StatementsInvariant, NEW s \in Session, NEW me, me = session[s], Indexing(s), IndexWritten(me.rid),
           NEW p \in {"row", "reindex"}, session' = [session EXCEPT ![s] = [session[s] EXCEPT !.at = p]],
           UNCHANGED <<mvccVars, lockVars, heap>>,
           p = "row" => /\ log_records' = [log_records EXCEPT ![session[s].txn] = @ + 1]
                        /\ \A k \in Key : LiveHead(me.rid, k) /\ Carriers(k) = {me.rid} => Indexed(k, me.rid)',
           p = "reindex" => log_records' = log_records /\ me.stmt.op = "update"
    PROVE  StatementsInvariant'
<1> PICK new, r, t : new = [me EXCEPT !.at = p] /\ r = me.rid /\ t = me.txn
  OBVIOUS
<1>1. /\ TypeOK /\ Mvcc!ChainInvariant /\ LocksSound /\ SessionsApart /\ RowsOwned /\ IndexSound
      /\ VersionsLogged /\ me \in SessionState /\ PlaceSound(s) /\ RowSound(s) /\ t \in TxnId
      /\ me.at \in {"index", "reindex"}
  BY MySession DEF StatementsInvariant, Indexing
<1>2. /\ r \in RID /\ r \in DOMAIN heap /\ me.key \in Key /\ me.stmt \in StatementForm
      /\ me.stmt.op \in {"insert", "update", "delete"} /\ r \in Carriers(me.key)
  BY <1>1, InHand
<1>3. /\ new \in SessionState /\ new.at = p /\ new.txn = t /\ new.stmt = me.stmt
      /\ new.rid = r /\ new.key = me.key /\ new.scan = me.scan /\ new.out = me.out /\ new.base = me.base
  BY <1>1 DEF SessionState, Place
<1>4. /\ session' \in [Session -> SessionState] /\ session'[s] = new
      /\ \A u \in Session : u # s => session'[u] = session[u]
  BY <1>1, <1>3, SessionMoves
<1>5. /\ chains' = chains /\ status' = status /\ next_txn_id' = next_txn_id
      /\ queue' = queue /\ upgrading' = upgrading /\ shared' = shared /\ exclusive' = exclusive
      /\ state' = state /\ call' = call /\ heap' = heap
  BY DEF mvccVars, lockVars
<1>6. heap[r].by = t
  BY <1>1 DEF RowSound
<1>7. OthersKept(s) /\ FinishedKept
  BY <1>4, <1>5 DEF OthersKept, FinishedKept
<1>8. IndexKept(s)
  <2> SUFFICES ASSUME NEW k \in Key, NEW q \in DOMAIN heap, Indexed(k, q), Carriers(k) = {q},
                      session[s].at = "idle" \/ heap[q].by # session[s].txn
               PROVE  Indexed(k, q)'
    BY Zenon DEF IndexKept
  <2>1. q # r
    BY <1>1, <1>6
  <2> QED
    BY <2>1 DEF IndexWritten
<1>9. HeapKept /\ VersionsKept /\ OwnRowsOnly(s)
  BY <1>1, <1>5, SameStore, SameVersions
<1>10. Guarantee(s)
  BY <1>7, <1>8, <1>9 DEF Guarantee
<1>11. ~Inserting(s) /\ ~Inserting(s)' /\ ~Changing(s)' /\ (Indexing(s)' <=> p = "reindex")
  BY <1>1, <1>3, <1>4 DEF Indexing, Inserting, Changing
<1>12. \A u \in Session : u # s => /\ Indexing(u)' <=> Indexing(u)
                                   /\ Inserting(u)' <=> Inserting(u)
  BY <1>4 DEF Indexing, Inserting
<1>13. \A k : Carriers(k)' = Carriers(k)
  BY <1>5 DEF Carriers
<1>14. \A q, k : LiveHead(q, k)' <=> LiveHead(q, k)
  BY <1>5 DEF LiveHead
<1>15. TypeOK'
  <2>1. Mvcc!TypeOK' /\ Locks!TypeOK'
    BY <1>1, <1>5 DEF TypeOK, Mvcc!TypeOK, Locks!TypeOK
  <2>2. log_records' \in [TxnId -> Nat]
    BY <1>1 DEF TypeOK
  <2> QED
    BY <1>1, <1>4, <1>5, <2>1, <2>2 DEF TypeOK, IndexWritten
<1>16. Mvcc!ChainInvariant'
  BY <1>1, SameChains
<1>17. LocksSound'
  BY <1>1, <1>7, SameLocks
<1>18. SessionsApart'
  BY <1>1, <1>3, <1>4, <1>7, StayApart
<1>19. RowsOwned'
  <2> SUFFICES ASSUME NEW q \in RID
               PROVE  /\ Len(chains[q]) <= MaxStatements + 1
                      /\ q \notin DOMAIN heap => chains[q] = <<>>
                      /\ q \in DOMAIN heap /\ chains[q] # <<>> =>
                            /\ q \in exclusive[heap[q].by]
                            /\ \A i \in 1 .. Len(chains[q]) : chains[q][i].begin_txn_id = heap[q].by
                      /\ q \in DOMAIN heap /\ chains[q] = <<>> =>
                            \E u \in Session : Inserting(u)' /\ session'[u].rid = q
    BY <1>5 DEF RowsOwned
  <2> QED
    BY <1>1, <1>4, <1>11, <1>12 DEF RowsOwned
<1>20. IndexSound'
  <2>1. ASSUME NEW q \in DOMAIN heap, NEW k \in Key, LiveHead(q, k), Carriers(k) = {q},
               \A u \in Session : ~(Indexing(u)' /\ session'[u].rid = q)
        PROVE  Indexed(k, q)'
    <3>1. CASE q = r
      <4>1. p = "row"
        BY <1>3, <1>4, <1>11, <2>1, <3>1
      <4> QED
        BY <2>1, <3>1, <4>1
    <3>2. CASE q # r
      <4>1. \A u \in Session : ~(Indexing(u) /\ session[u].rid = q)
        BY <1>4, <1>12, <2>1, <3>2
      <4>2. Indexed(k, q)
        BY <1>1, <2>1, <4>1 DEF IndexSound
      <4> QED
        BY <2>1, <3>2, <4>2 DEF IndexWritten
    <3> QED
      BY <3>1, <3>2
  <2>2. IsFiniteSet(DOMAIN index') /\ \A k \in DOMAIN index' : index'[k] \in Carriers(k)
    BY DEF IndexWritten
  <2> QED
    BY <1>5, <1>13, <1>14, <2>1, <2>2 DEF IndexSound
<1>21. VersionsLogged'
  <2>1. \A u \in TxnId : VersionsOf(u)' = VersionsOf(u)
    BY <1>5 DEF VersionsOf
  <2>2. CASE p = "reindex"
    <3>1. \A u \in Session : (Indexing(u)' <=> Indexing(u)) /\ (Indexing(u) => session'[u].txn = session[u].txn)
      BY <1>3, <1>4, <1>11, <1>12, <2>2
    <3> QED
      BY <1>1, <2>1, <2>2, <3>1, LogStays
  <2>3. CASE p = "row"
    <3>1. ~(\E x \in Session : Indexing(x)' /\ session'[x].txn = t)
      <4> SUFFICES ASSUME NEW x \in Session, Indexing(x)', session'[x].txn = t PROVE FALSE
        OBVIOUS
      <4>1. x # s
        BY <1>11, <2>3
      <4>2. session[x].txn = t /\ session[x].at # "idle"
        BY <1>4, <1>12, <4>1 DEF Indexing
      <4> QED
        BY <1>1, <4>1, <4>2 DEF SessionsApart
    <3>2. \E x \in Session : Indexing(x) /\ session[x].txn = t
      OBVIOUS
    <3>3. ASSUME NEW u \in TxnId, u # t
          PROVE  (\E x \in Session : Indexing(x)' /\ session'[x].txn = u)
                    <=> (\E x \in Session : Indexing(x) /\ session[x].txn = u)
      BY <1>3, <1>4, <1>12, <3>3
    <3>4. log_records[t] \in Nat /\ log_records'[t] = log_records[t] + 1
          /\ \A u \in TxnId : u # t => log_records'[u] = log_records[u]
      BY <1>1, <2>3 DEF TypeOK
    <3> SUFFICES ASSUME NEW u \in TxnId
                 PROVE  Cardinality(VersionsOf(u)) = log_records'[u]
                           + (IF \E x \in Session : Indexing(x)' /\ session'[x].txn = u THEN 1 ELSE 0)
      BY <2>1 DEF VersionsLogged
    <3>5. CASE u = t
      <4>1. Cardinality(VersionsOf(t)) = log_records[t] + 1
        BY <1>1, <3>2 DEF VersionsLogged
      <4> QED
        BY <3>1, <3>4, <3>5, <4>1
    <3>6. CASE u # t
      BY <1>1, <3>3, <3>4, <3>6 DEF VersionsLogged
    <3> QED
      BY <3>5, <3>6
  <2> QED
    BY <2>2, <2>3
<1>22. SessionSound(s)'
  <2>1. ScanSound(s)' /\ BaseSound(s)' /\ ReadSound(s)'
    BY <1>3, <1>4, <1>10, SessionCarries
  <2>2. PlaceSound(s)'
    BY <1>1, <1>2, <1>3, <1>4, <1>5, StatementFields DEF PlaceSound, Active, Running
  <2>3. LockSound(s)' /\ SelectSound(s)'
    BY <1>2, <1>3, <1>4 DEF LockSound, SelectSound
  <2>4. RowSound(s)'
    BY <1>1, <1>2, <1>3, <1>4, <1>5, <1>11, <1>13, <1>14 DEF RowSound
  <2> QED
    BY <2>1, <2>2, <2>3, <2>4 DEF SessionSound
<1> QED
  BY <1>10, <1>15, <1>16, <1>17, <1>18, <1>19, <1>20, <1>21, <1>22, Assemble

\* The writes of the three executors.
LEMMA WriteIndexKeeps ==
    ASSUME StatementsInvariant, NEW s \in Session, WriteIndex(s) \/ ReinsertKey(s)
    PROVE  StatementsInvariant'
<1> PICK me, r : me = session[s] /\ r = me.rid
  OBVIOUS
<1>1. /\ TypeOK /\ Mvcc!TypeOK /\ IndexSound /\ RowSound(s) /\ me.at \in {"index", "reindex"} /\ Indexing(s)
      /\ UNCHANGED <<mvccVars, lockVars, heap>>
  BY DEF StatementsInvariant, TypeOK, WriteIndex, ReinsertKey, Indexing
<1>2. /\ r \in RID /\ r \in DOMAIN heap /\ me.key \in Key /\ me.stmt \in StatementForm /\ r \in Carriers(me.key)
  BY <1>1, InHand
<1>3. /\ me.stmt.op = "insert" => LiveHead(r, me.key)
      /\ me.stmt.op = "update" => LiveHead(r, me.stmt.set) /\ me.stmt.set \in Key
      /\ me.stmt.op = "delete" => chains[r][1].is_deleted
      /\ me.at = "reindex" => me.stmt.op = "update"
      /\ me.at = "index" /\ me.stmt.op = "update" /\ me.stmt.set = me.key /\ Carriers(me.key) = {r} =>
            Indexed(me.key, r)
  BY <1>1 DEF RowSound
<1>4. \A k, j : LiveHead(r, k) /\ LiveHead(r, j) => k = j
  BY DEF LiveHead
<1>5. RowDone(s) => /\ session' = [session EXCEPT ![s] = [session[s] EXCEPT !.at = "row"]]
                    /\ log_records' = [log_records EXCEPT ![session[s].txn] = @ + 1]
  BY DEF RowDone
<1>6. CASE me.stmt.op = "insert" /\ index' = IndexInserted(me.key, r) /\ RowDone(s)
  <2>1. IndexWritten(r) /\ (Carriers(me.key) = {r} => Indexed(me.key, r)')
    BY <1>1, <1>2, <1>6, InsertWrites
  <2>2. \A k \in Key : LiveHead(r, k) /\ Carriers(k) = {r} => Indexed(k, r)'
    <3> SUFFICES ASSUME NEW k \in Key, LiveHead(r, k), Carriers(k) = {r} PROVE Indexed(k, r)'
      OBVIOUS
    <3>1. k = me.key
      BY <1>3, <1>4, <1>6
    <3> QED
      BY <2>1, <3>1 DEF Indexed
  <2> QED
    BY <1>1, <1>5, <1>6, <2>1, <2>2, IndexStepKeeps
<1>7. CASE me.stmt.op = "delete" /\ index' = IndexRemoved(me.key) /\ RowDone(s)
  <2>1. IndexWritten(r)
    BY <1>1, <1>2, <1>7, RemoveWrites
  <2>2. \A k \in Key : ~LiveHead(r, k)
    BY <1>3, <1>7 DEF LiveHead
  <2> QED
    BY <1>1, <1>5, <1>7, <2>1, <2>2, IndexStepKeeps
<1>8. CASE me.at = "index" /\ me.stmt.op = "update" /\ me.stmt.set = me.key /\ index' = index /\ RowDone(s)
  <2>1. IndexWritten(r)
    BY <1>1, <1>8 DEF IndexWritten, TypeOK, IndexSound, Indexed
  <2>2. \A k \in Key : LiveHead(r, k) /\ Carriers(k) = {r} => Indexed(k, r)'
    <3> SUFFICES ASSUME NEW k \in Key, LiveHead(r, k), Carriers(k) = {r} PROVE Indexed(k, r)'
      OBVIOUS
    <3>1. k = me.key
      BY <1>3, <1>4, <1>8
    <3> QED
      BY <1>3, <1>8, <3>1 DEF Indexed
  <2> QED
    BY <1>1, <1>5, <1>8, <2>1, <2>2, IndexStepKeeps
<1>9. CASE /\ me.stmt.op = "update" /\ index' = IndexRemoved(me.key) /\ log_records' = log_records
           /\ session' = [session EXCEPT ![s] = [session[s] EXCEPT !.at = "reindex"]]
  <2>1. IndexWritten(r)
    BY <1>1, <1>2, <1>9, RemoveWrites
  <2> QED
    BY <1>1, <1>9, <2>1, IndexStepKeeps
<1>10. CASE me.at = "reindex" /\ index' = IndexInserted(me.stmt.set, r) /\ RowDone(s)
  <2>1. me.stmt.op = "update" /\ me.stmt.set \in Key /\ LiveHead(r, me.stmt.set)
    BY <1>3, <1>10
  <2>2. r \in Carriers(me.stmt.set)
    BY <1>1, <1>2, <2>1, LiveCarries
  <2>3. IndexWritten(r) /\ (Carriers(me.stmt.set) = {r} => Indexed(me.stmt.set, r)')
    BY <1>1, <1>2, <1>10, <2>1, <2>2, InsertWrites
  <2>4. \A k \in Key : LiveHead(r, k) /\ Carriers(k) = {r} => Indexed(k, r)'
    <3> SUFFICES ASSUME NEW k \in Key, LiveHead(r, k), Carriers(k) = {r} PROVE Indexed(k, r)'
      OBVIOUS
    <3>1. k = me.stmt.set
      BY <1>4, <2>1
    <3> QED
      BY <2>3, <3>1 DEF Indexed
  <2> QED
    BY <1>1, <1>5, <1>10, <2>1, <2>3, <2>4, IndexStepKeeps
<1> QED
  BY <1>6, <1>7, <1>8, <1>9, <1>10 DEF WriteIndex, ReinsertKey

-----------------------------------------------------------------------------
(* Transactions begin and end. *)

\* What is committed, as a transaction that draws the next id finds it.
LEMMA CommittedBase ==
    ASSUME TypeOK, Mvcc!ChainInvariant, RowsOwned, NEW row \in CommittedRows
    PROVE  /\ row \in RID \X Key
           /\ row[1] \in DOMAIN heap /\ chains[row[1]] # <<>>
           /\ heap[row[1]].by < next_txn_id
           /\ status[heap[row[1]].by] \in {"committed", "done"}
           /\ Mvcc!Latest(row[1]) = row[2]
<1>1. PICK r \in RID : Mvcc!Latest(r) # NoKey /\ row = <<r, Mvcc!Latest(r)>>
  BY DEF CommittedRows
<1>2. Mvcc!TypeOK /\ row[1] = r /\ row[2] = Mvcc!Latest(r)
  BY <1>1 DEF TypeOK
<1>3. PICK i \in 1 .. Len(chains[r]) : chains[r][i].is_committed /\ chains[r][i].data = Mvcc!Latest(r)
  BY <1>1, <1>2, LatestFinds
<1>4. Mvcc!Latest(r) \in Key
  BY <1>1, <1>2, <1>3, ChainTypes
<1>5. chains[r] # <<>>
  <2>1. Len(chains[r]) \in Nat
    BY <1>2, ChainTypes
  <2>2. Len(chains[r]) # 0
    BY <1>3, <2>1
  <2> QED
    BY <2>2
<1>6. r \in DOMAIN heap /\ chains[r][i].begin_txn_id = heap[r].by
  BY <1>3, <1>5 DEF RowsOwned
<1>7. status[heap[r].by] \in {"committed", "done"}
  BY <1>3, <1>6, Zenon DEF Mvcc!ChainInvariant, Mvcc!CommittedByFinished
<1>8. heap[r].by < next_txn_id
  <2>1. heap[r].by \in TxnId /\ heap[r].by \in Nat
    BY <1>6, HeapFacts, ManagerConstants
  <2>2. next_txn_id \in Nat
    BY <1>2, ManagerConstants DEF Mvcc!TypeOK
  <2>3. heap[r].by >= next_txn_id => status[heap[r].by] = "none"
    BY <2>1 DEF Mvcc!ChainInvariant, Mvcc!IdsFresh, TxnId, Mvcc!TxnId
  <2> QED
    BY <1>7, <2>1, <2>2, <2>3
<1> QED
  BY <1>1, <1>2, <1>4, <1>5, <1>6, <1>7, <1>8

\* What all steps at the ends of a transaction keep: the rows and the keys.
LEMMA EndsKeep ==
    ASSUME StatementsInvariant, NEW s \in Session, UNCHANGED <<lockVars, storeVars>>,
           Mvcc!ChainInvariant', VersionsKept, OthersKept(s), session' \in [Session -> SessionState],
           session[s].at \in {"idle", "ready", "commit"}, session'[s].at \in {"idle", "ready", "commit"},
           \A r \in RID : /\ Len(chains'[r]) = Len(chains[r])
                          /\ chains'[r] = <<>> <=> chains[r] = <<>>
                          /\ \A i \in 1 .. Len(chains[r]) :
                                /\ chains'[r][i].begin_txn_id = chains[r][i].begin_txn_id
                                /\ chains'[r][i].data = chains[r][i].data
                                /\ chains'[r][i].is_deleted = chains[r][i].is_deleted
    PROVE  TypeOK' /\ LocksSound' /\ RowsOwned' /\ IndexSound' /\ VersionsLogged'
<1>1. /\ TypeOK /\ LocksSound /\ RowsOwned /\ IndexSound /\ VersionsLogged
  BY DEF StatementsInvariant
<1>2. /\ queue' = queue /\ upgrading' = upgrading /\ shared' = shared /\ exclusive' = exclusive
      /\ state' = state /\ call' = call
      /\ heap' = heap /\ index' = index /\ log_records' = log_records
  BY DEF lockVars, storeVars
<1>3. \A u \in Session : /\ Indexing(u)' <=> Indexing(u)
                         /\ Inserting(u)' <=> Inserting(u)
                         /\ Indexing(u) \/ Inserting(u) => session'[u] = session[u]
  BY DEF Indexing, Inserting, OthersKept
<1>4. TypeOK'
  <2>1. Mvcc!TypeOK' /\ Locks!TypeOK'
    BY <1>1, <1>2 DEF TypeOK, Mvcc!ChainInvariant, Locks!TypeOK
  <2> QED
    BY <1>1, <1>2, <2>1 DEF TypeOK
<1>5. LocksSound'
  BY <1>1, SameLocks
<1>6. RowsOwned'
  <2> SUFFICES ASSUME NEW r \in RID
               PROVE  /\ Len(chains'[r]) <= MaxStatements + 1
                      /\ r \notin DOMAIN heap => chains'[r] = <<>>
                      /\ r \in DOMAIN heap /\ chains'[r] # <<>> =>
                            /\ r \in exclusive[heap[r].by]
                            /\ \A i \in 1 .. Len(chains'[r]) : chains'[r][i].begin_txn_id = heap[r].by
                      /\ r \in DOMAIN heap /\ chains'[r] = <<>> =>
                            \E u \in Session : Inserting(u)' /\ session'[u].rid = r
    BY <1>2 DEF RowsOwned
  <2> QED
    BY <1>1, <1>3 DEF RowsOwned
<1>7. IndexSound'
  <2>1. ASSUME NEW r \in DOMAIN heap', NEW k \in Key, LiveHead(r, k)'
        PROVE  r \in DOMAIN heap /\ LiveHead(r, k)
    <3>1. r \in DOMAIN heap /\ r \in RID
      BY <1>1, <1>2, HeapFacts
    <3>2. chains[r] # <<>>
      BY <2>1, <3>1 DEF LiveHead
    <3>3. 1 \in 1 .. Len(chains[r])
      BY <1>1, <3>1, <3>2, ChainTypes DEF TypeOK
    <3> QED
      BY <2>1, <3>1, <3>2, <3>3 DEF LiveHead
  <2> QED
    BY <1>1, <1>2, <1>3, <2>1, SameStore, IndexStays
<1>8. VersionsLogged'
  <2>1. ASSUME NEW t \in TxnId PROVE VersionsOf(t)' = VersionsOf(t)
    <3> SUFFICES ASSUME NEW q \in RID, NEW i \in 1 .. (MaxStatements + 1)
                 PROVE  (i <= Len(chains'[q]) /\ chains'[q][i].begin_txn_id = t)
                           <=> (i <= Len(chains[q]) /\ chains[q][i].begin_txn_id = t)
      BY DEF VersionsOf
    <3>1. i <= Len(chains[q]) => i \in 1 .. Len(chains[q])
      BY <1>1, ManagerConstants, ChainTypes DEF TypeOK
    <3> QED
      BY <3>1
  <2> QED
    BY <1>1, <1>2, <1>3, <2>1, LogStays
<1> QED
  BY <1>4, <1>5, <1>6, <1>7, <1>8

\* TransactionManager::begin.
LEMMA BeginTransactionKeeps ==
    ASSUME StatementsInvariant, NEW s \in Session, BeginTransaction(s)
    PROVE  StatementsInvariant'
<1> PICK base : base = CommittedRows
  OBVIOUS
<1>1. PICK t \in TxnId :
          /\ Mvcc!Begin(t)
          /\ session' = [session EXCEPT ![s] = [Idle EXCEPT !.at = "ready", !.txn = t, !.base = base]]
  BY DEF BeginTransaction
<1> DEFINE new == [Idle EXCEPT !.at = "ready", !.txn = t, !.base = base]
<1>2. /\ TypeOK /\ Mvcc!TypeOK /\ Mvcc!ChainInvariant /\ RowsOwned /\ SessionsApart
      /\ \A u \in Session : PlaceSound(u)
      /\ session[s].at = "idle" /\ UNCHANGED <<lockVars, storeVars>>
  BY DEF StatementsInvariant, TypeOK, BeginTransaction
<1>3. /\ t = next_txn_id /\ chains' = chains /\ status' = [status EXCEPT ![t] = "active"]
  BY <1>1 DEF Mvcc!Begin
<1>4. status[t] = "none"
  <2>1. t \in Mvcc!TxnId /\ t >= next_txn_id
    BY <1>3, ManagerConstants DEF TxnId, Mvcc!TxnId
  <2> QED
    BY <1>2, <2>1 DEF Mvcc!ChainInvariant, Mvcc!IdsFresh
<1>5. status \in [TxnId -> MP!Status]
  BY <1>2, ChainTypes
<1>6. \A u \in TxnId : u # t => status'[u] = status[u]
  BY <1>3, <1>5
<1>7. status'[t] = "active"
  BY <1>3, <1>5
<1>8. \A row \in base :
          /\ row \in RID \X Key
          /\ row[1] \in DOMAIN heap /\ chains[row[1]] # <<>>
          /\ heap[row[1]].by < t
          /\ status[heap[row[1]].by] \in {"committed", "done"}
          /\ Mvcc!Latest(row[1]) = row[2]
  BY <1>2, <1>3, CommittedBase
<1>9. /\ new \in SessionState /\ new.at = "ready" /\ new.txn = t /\ new.stmt = NoStatement
      /\ new.scan = NoScan /\ new.out = {} /\ new.base = base
  <2>1. base \in SUBSET (RID \X Key)
    BY <1>8
  <2> QED
    BY <2>1, IdleFields DEF SessionState, Place
<1>10. session' = [session EXCEPT ![s] = new]
  BY <1>1
<1> HIDE DEF new
<1>11. /\ session' \in [Session -> SessionState] /\ session'[s] = new
       /\ \A u \in Session : u # s => session'[u] = session[u]
  BY <1>2, <1>9, <1>10, SessionMoves
<1>12. \A u \in Session : session[u].at # "idle" => session[u].txn # t /\ session[u].txn \in TxnId
  BY <1>2, <1>4, SessionFields DEF PlaceSound, Active
<1>13. OthersKept(s)
  BY <1>2, <1>6, <1>11, <1>12 DEF OthersKept, lockVars
<1>14. FinishedKept
  BY <1>2, <1>4, <1>6 DEF FinishedKept, lockVars
<1>15. VersionsKept /\ OwnRowsOnly(s) /\ HeapKept /\ IndexKept(s)
  BY <1>2, <1>3, SameVersions, SameStore DEF storeVars
<1>16. Guarantee(s)
  BY <1>13, <1>14, <1>15 DEF Guarantee
<1>17. Mvcc!ChainInvariant'
  BY <1>1, <1>2, ChainSessionsKeep
<1>18. SessionsApart'
  BY <1>2, <1>9, <1>11, <1>12 DEF SessionsApart
<1>19. TypeOK' /\ LocksSound' /\ RowsOwned' /\ IndexSound' /\ VersionsLogged'
  BY <1>2, <1>3, <1>9, <1>11, <1>13, <1>15, <1>17, EndsKeep
<1>20. SessionSound(s)'
  <2>1. heap' = heap /\ Len(heap) \in Nat
    BY <1>2, HeapFacts DEF storeVars
  <2>2. PlaceSound(s)'
    BY <1>7, <1>9, <1>11 DEF PlaceSound, Active, Running
  <2>3. ScanSound(s)'
    BY <1>9, <1>11, <2>1, NoScanFields DEF ScanSound
  <2>4. RowSound(s)' /\ LockSound(s)'
    BY <1>9, <1>11 DEF RowSound, LockSound, Inserting, Changing, Indexing
  <2>5. SelectSound(s)' /\ ReadSound(s)'
    BY <1>9, <1>11 DEF SelectSound, ReadSound, NoStatement
  <2>6. BaseSound(s)'
    <3>0. session'[s].base = base /\ session'[s].txn = t
      BY <1>9, <1>11
    <3> SUFFICES ASSUME NEW row \in base
                 PROVE  /\ row[1] \in DOMAIN heap' /\ chains'[row[1]] # <<>>
                        /\ heap'[row[1]].by < t
                        /\ status'[heap'[row[1]].by] \in {"committed", "done"}
                        /\ Mvcc!LatestOf(chains'[row[1]]) = row[2]
      BY <3>0 DEF BaseSound, Mvcc!Latest, Mvcc!LatestOf
    <3>1. heap[row[1]].by \in TxnId
      BY <1>2, <1>8, HeapFacts
    <3>2. heap[row[1]].by # t
      BY <1>4, <1>8
    <3> QED
      BY <1>3, <1>6, <1>8, <2>1, <3>1, <3>2 DEF Mvcc!Latest
  <2> QED
    BY <2>2, <2>3, <2>4, <2>5, <2>6 DEF SessionSound
<1> QED
  BY <1>16, <1>17, <1>18, <1>19, <1>20, Assemble

\* MvccManager::commit.
LEMMA CommitVersionsKeeps ==
    ASSUME StatementsInvariant, NEW s \in Session, CommitVersions(s)
    PROVE  StatementsInvariant'
<1> PICK me, t : me = session[s] /\ t = me.txn
  OBVIOUS
<1> DEFINE new == [me EXCEPT !.at = "commit"]
<1>1. /\ TypeOK /\ Mvcc!TypeOK /\ Mvcc!ChainInvariant /\ RowsOwned /\ SessionsApart /\ me \in SessionState
      /\ t \in TxnId
  BY MySession DEF StatementsInvariant, TypeOK
<1>2. /\ me.at = "ready" /\ Mvcc!MvccCommit(t) /\ session' = [session EXCEPT ![s] = new]
      /\ UNCHANGED <<lockVars, storeVars>>
  BY DEF CommitVersions
<1>3. /\ new \in SessionState /\ new.at = "commit" /\ new.txn = t /\ new.stmt = me.stmt
      /\ new.scan = me.scan /\ new.out = me.out /\ new.base = me.base
  BY <1>1 DEF SessionState, Place
<1> HIDE DEF new
<1>4. /\ session' \in [Session -> SessionState] /\ session'[s] = new
      /\ \A u \in Session : u # s => session'[u] = session[u]
  BY <1>1, <1>2, <1>3, SessionMoves
<1>5. /\ status' = [status EXCEPT ![t] = "committed"] /\ status[t] = "active"
      /\ \A r \in RID :
            /\ Len(chains'[r]) = Len(chains[r])
            /\ \A i \in 1 .. Len(chains[r]) :
                  /\ chains'[r][i].begin_txn_id = chains[r][i].begin_txn_id
                  /\ chains'[r][i].data = chains[r][i].data
                  /\ chains'[r][i].is_deleted = chains[r][i].is_deleted
                  /\ chains[r][i].is_committed => chains'[r][i].is_committed
            /\ (\A i \in 1 .. Len(chains[r]) : chains[r][i].begin_txn_id # t) => chains'[r] = chains[r]
  BY <1>1, <1>2, CommitMarks
<1>6. Mvcc!ChainInvariant'
  BY <1>1, <1>2, ChainSessionsKeep
<1>7. \A r \in RID : chains'[r] = <<>> <=> chains[r] = <<>>
  <2> SUFFICES ASSUME NEW r \in RID PROVE chains'[r] = <<>> <=> chains[r] = <<>>
    OBVIOUS
  <2>1. chains[r] \in Seq(MP!TupleVersion)
    BY <1>1, ChainTypes
  <2>2. chains'[r] \in Seq(Mvcc!TupleVersion)
    BY <1>6 DEF Mvcc!ChainInvariant, Mvcc!TypeOK
  <2>3. chains[r] = <<>> <=> Len(chains[r]) = 0
    BY <2>1, EmptySeq
  <2>4. chains'[r] = <<>> <=> Len(chains'[r]) = 0
    BY <2>2, EmptySeq
  <2> QED
    BY <1>5, <2>3, <2>4
<1>8. status \in [TxnId -> MP!Status]
  BY <1>1, ChainTypes
<1>9. status'[t] = "committed" /\ \A u \in TxnId : u # t => status'[u] = status[u]
  BY <1>1, <1>5, <1>8
<1>10. \A u \in Session : u # s /\ session[u].at # "idle" => session[u].txn # t /\ session[u].txn \in TxnId
  BY <1>1, <1>2, SessionFields DEF SessionsApart
<1>11. OthersKept(s)
  BY <1>2, <1>4, <1>9, <1>10 DEF OthersKept, lockVars
<1>12. FinishedKept
  BY <1>2, <1>9 DEF FinishedKept, lockVars
<1>13. VersionsKept
  <2> SUFFICES ASSUME NEW r \in RID, NEW i \in 1 .. Len(chains[r])
               PROVE  \E j \in 1 .. Len(chains'[r]) :
                         /\ chains'[r][j].data = chains[r][i].data
                         /\ chains'[r][j].begin_txn_id = chains[r][i].begin_txn_id
                         /\ chains[r][i].is_committed => chains'[r][j].is_committed
    BY Zenon DEF VersionsKept
  <2>1. i \in 1 .. Len(chains'[r])
    BY <1>5
  <2>2. /\ chains'[r][i].data = chains[r][i].data
        /\ chains'[r][i].begin_txn_id = chains[r][i].begin_txn_id
        /\ chains[r][i].is_committed => chains'[r][i].is_committed
    BY <1>5
  <2> QED
    BY <2>1, <2>2, Zenon
<1>14. OwnRowsOnly(s)
  <2> SUFFICES ASSUME NEW r \in RID, chains'[r] # chains[r]
               PROVE  r \in DOMAIN heap /\ heap[r].by = t
    BY <1>2, <1>5 DEF OwnRowsOnly
  <2>1. PICK i \in 1 .. Len(chains[r]) : chains[r][i].begin_txn_id = t
    BY <1>5
  <2>2. chains[r] # <<>>
    <3>1. Len(chains[r]) \in Nat
      BY <1>1, ChainTypes
    <3>2. Len(chains[r]) # 0
      BY <2>1, <3>1
    <3> QED
      BY <3>2
  <2> QED
    BY <1>1, <2>1, <2>2 DEF RowsOwned
<1>15. Guarantee(s)
  BY <1>1, <1>2, <1>11, <1>12, <1>13, <1>14, SameStore DEF Guarantee, storeVars
<1>16. SessionsApart'
  BY <1>1, <1>2, <1>3, <1>4, <1>11, StayApart
<1>17. TypeOK' /\ LocksSound' /\ RowsOwned' /\ IndexSound' /\ VersionsLogged'
  <2>1. \A r \in RID : /\ Len(chains'[r]) = Len(chains[r])
                       /\ chains'[r] = <<>> <=> chains[r] = <<>>
                       /\ \A i \in 1 .. Len(chains[r]) :
                             /\ chains'[r][i].begin_txn_id = chains[r][i].begin_txn_id
                             /\ chains'[r][i].data = chains[r][i].data
                             /\ chains'[r][i].is_deleted = chains[r][i].is_deleted
    BY <1>5, <1>7
  <2> QED
    BY <1>2, <1>3, <1>4, <1>6, <1>11, <1>13, <2>1, EndsKeep
<1>18. SessionSound(s)'
  <2>1. ScanSound(s)' /\ BaseSound(s)' /\ ReadSound(s)'
    BY <1>3, <1>4, <1>15, SessionCarries
  <2>2. PlaceSound(s)'
    BY <1>3, <1>4, <1>9 DEF PlaceSound, Active, Running
  <2>3. RowSound(s)' /\ LockSound(s)' /\ SelectSound(s)'
    BY <1>3, <1>4 DEF RowSound, LockSound, SelectSound, Inserting, Changing, Indexing
  <2> QED
    BY <2>1, <2>2, <2>3 DEF SessionSound
<1> QED
  BY <1>6, <1>15, <1>16, <1>17, <1>18, Assemble

\* TransactionManager::commit.
LEMMA CommitTransactionKeeps ==
    ASSUME StatementsInvariant, NEW s \in Session, CommitTransaction(s)
    PROVE  StatementsInvariant'
<1> PICK t : t = session[s].txn
  OBVIOUS
<1>1. /\ TypeOK /\ Mvcc!TypeOK /\ Mvcc!ChainInvariant /\ SessionsApart /\ t \in TxnId
  BY MySession DEF StatementsInvariant, TypeOK
<1>2. /\ session[s].at = "commit" /\ Mvcc!TxnCommit(t) /\ session' = [session EXCEPT ![s] = Idle]
      /\ UNCHANGED <<lockVars, storeVars>>
  BY DEF CommitTransaction
<1>3. /\ session' \in [Session -> SessionState] /\ session'[s] = Idle
      /\ \A u \in Session : u # s => session'[u] = session[u]
  BY <1>1, <1>2, IdleFields, SessionMoves
<1>4. chains' = chains /\ status' = [status EXCEPT ![t] = "done"] /\ status[t] = "committed"
  BY <1>2 DEF Mvcc!TxnCommit
<1>5. status \in [TxnId -> MP!Status]
  BY <1>1, ChainTypes
<1>6. status'[t] = "done" /\ \A u \in TxnId : u # t => status'[u] = status[u]
  BY <1>1, <1>4, <1>5
<1>7. \A u \in Session : u # s /\ session[u].at # "idle" => session[u].txn # t /\ session[u].txn \in TxnId
  BY <1>1, <1>2, SessionFields DEF SessionsApart
<1>8. OthersKept(s)
  BY <1>2, <1>3, <1>6, <1>7 DEF OthersKept, lockVars
<1>9. FinishedKept
  BY <1>2, <1>6 DEF FinishedKept, lockVars
<1>10. VersionsKept /\ OwnRowsOnly(s) /\ HeapKept /\ IndexKept(s)
  BY <1>1, <1>2, <1>4, SameVersions, SameStore DEF storeVars
<1>11. Guarantee(s)
  BY <1>8, <1>9, <1>10 DEF Guarantee
<1>12. Mvcc!ChainInvariant'
  BY <1>1, <1>2, ChainSessionsKeep
<1>13. SessionsApart'
  BY <1>1, <1>3, <1>8, IdleFields, StayApart
<1>14. TypeOK' /\ LocksSound' /\ RowsOwned' /\ IndexSound' /\ VersionsLogged'
  BY <1>2, <1>3, <1>4, <1>8, <1>10, <1>12, IdleFields, EndsKeep
<1>15. Len(heap') \in Nat
  BY <1>1, <1>2, HeapFacts DEF storeVars
<1> QED
  BY <1>3, <1>11, <1>12, <1>13, <1>14, <1>15, IdleSound, Assemble

-----------------------------------------------------------------------------
(* The theorems. *)

\* The empty database satisfies the invariant.
LEMMA StatementsInit == Init => StatementsInvariant
<1> SUFFICES ASSUME Init PROVE StatementsInvariant
  OBVIOUS
<1>1. /\ Mvcc!Init /\ Locks!Init /\ heap = <<>> /\ index = [k \in {} |-> 0]
      /\ log_records = [t \in TxnId |-> 0] /\ session = [s \in Session |-> Idle]
  BY DEF Init
<1>2. Mvcc!ChainInvariant
  <2>1. MP!Init
    BY <1>1 DEF Mvcc!Init, MP!Init, Mvcc!TxnId, MP!TxnId
  <2> QED
    BY <2>1, SameChainInvariant, ManagerConstants, MP!ChainInvariantInit
<1>3. Locks!Invariant
  <2>1. LP!Init
    BY <1>1 DEF Locks!Init, LP!Init, Locks!Idle, LP!Idle
  <2> QED
    BY <2>1, SameLockInvariant, ManagerConstants, LP!InitInvariant
<1>4. /\ \A s \in Session : session[s] = Idle
      /\ \A r \in RID : chains[r] = <<>>
      /\ \A t \in TxnId : shared[t] = {} /\ state[t] = "ACTIVE" /\ call[t] = Locks!Idle
      /\ DOMAIN heap = {} /\ Len(heap) = 0 /\ DOMAIN index = {}
  BY <1>1 DEF Mvcc!Init, Locks!Init
<1>5. TypeOK
  <2>1. index \in [DOMAIN index -> RID] /\ DOMAIN index \subseteq Key
    BY <1>1
  <2>2. heap \in Seq(HeapRow) /\ Len(heap) <= MaxRows
    BY <1>1, <1>4, ManagerConstants
  <2>3. log_records \in [TxnId -> Nat] /\ session \in [Session -> SessionState]
    BY <1>1, IdleFields
  <2> QED
    BY <1>2, <1>3, <2>1, <2>2, <2>3 DEF TypeOK, Mvcc!ChainInvariant, Locks!Invariant
<1>6. LocksSound
  BY <1>3, <1>4 DEF LocksSound
<1>7. SessionsApart
  BY <1>4, IdleFields DEF SessionsApart
<1>8. RowsOwned
  BY <1>4, ManagerConstants DEF RowsOwned
<1>9. IndexSound
  BY <1>4, FS_EmptySet DEF IndexSound
<1>10. ASSUME NEW s \in Session
       PROVE  /\ PlaceSound(s) /\ ScanSound(s) /\ RowSound(s)
              /\ LockSound(s) /\ BaseSound(s) /\ SelectSound(s)
  <2>1. session[s] = Idle
    BY <1>4
  <2>2. PlaceSound(s) /\ RowSound(s) /\ LockSound(s) /\ BaseSound(s) /\ SelectSound(s)
    BY <2>1, IdleFields DEF PlaceSound, Active, Running, RowSound, Inserting, Changing, Indexing, LockSound,
                            BaseSound, SelectSound
  <2>3. ScanSound(s)
    BY <1>4, <2>1, IdleFields, NoScanFields DEF ScanSound
  <2> QED
    BY <2>2, <2>3
<1>11. VersionsLogged
  <2> SUFFICES ASSUME NEW t \in TxnId
               PROVE  Cardinality(VersionsOf(t)) = log_records[t] +
                         (IF \E s \in Session : Indexing(s) /\ session[s].txn = t THEN 1 ELSE 0)
    BY DEF VersionsLogged
  <2>1. VersionsOf(t) = {}
    BY <1>4 DEF VersionsOf
  <2>2. ~(\E s \in Session : Indexing(s) /\ session[s].txn = t)
    BY <1>4, IdleFields DEF Indexing
  <2>3. Cardinality({}) = 0 /\ log_records[t] = 0
    BY <1>1, FS_EmptySet
  <2> QED
    BY <2>1, <2>2, <2>3
<1>12. ReadsCommitted
  BY <1>4, IdleFields DEF ReadsCommitted
<1> QED
  BY <1>2, <1>5, <1>6, <1>7, <1>8, <1>9, <1>10, <1>11, <1>12 DEF StatementsInvariant

\* A step in which nothing happens.
LEMMA StatementsStutter ==
    ASSUME StatementsInvariant, UNCHANGED vars
    PROVE  StatementsInvariant'
<1>1. UNCHANGED <<mvccVars, lockVars, storeVars>> /\ session' = session
  BY DEF vars
<1>2. /\ chains' = chains /\ next_txn_id' = next_txn_id /\ status' = status
      /\ queue' = queue /\ upgrading' = upgrading /\ shared' = shared /\ exclusive' = exclusive
      /\ state' = state /\ call' = call
      /\ heap' = heap /\ index' = index /\ log_records' = log_records
  BY <1>1 DEF mvccVars, lockVars, storeVars
<1>3. TypeOK' /\ Mvcc!ChainInvariant'
  BY <1>1, <1>2, SameChains DEF StatementsInvariant, TypeOK, Mvcc!TypeOK, Locks!TypeOK
<1>4. Locks!Invariant'
  BY <1>2 DEF StatementsInvariant, LocksSound, Locks!Invariant, Locks!TypeOK, Locks!LockSetsMatchQueue,
              Locks!WaitersMatchQueue, Locks!UpgradeFlagOwned, Locks!Waiting
<1>5. LocksSound'
  BY <1>1, <1>2, <1>4 DEF StatementsInvariant, LocksSound, Locks!Idle
<1>6. \A s \in Session : /\ Indexing(s)' <=> Indexing(s)
                         /\ Inserting(s)' <=> Inserting(s)
                         /\ Changing(s)' <=> Changing(s)
  BY <1>1 DEF Indexing, Inserting, Changing
<1>7. \A k : Carriers(k)' = Carriers(k)
  BY <1>2 DEF Carriers
<1>8. \A r, k : (LiveHead(r, k)' <=> LiveHead(r, k)) /\ (Indexed(k, r)' <=> Indexed(k, r))
  BY <1>2 DEF LiveHead, Indexed
<1>9. SessionsApart' /\ RowsOwned'
  BY <1>1, <1>2, <1>6 DEF StatementsInvariant, SessionsApart, RowsOwned
<1>10. IndexSound'
  BY <1>1, <1>2, <1>6, <1>7, <1>8 DEF StatementsInvariant, IndexSound
<1>11. VersionsLogged'
  <2>1. \A t \in TxnId : VersionsOf(t)' = VersionsOf(t)
    BY <1>2 DEF VersionsOf
  <2> QED
    BY <1>1, <1>2, <1>6, <2>1, LogStays DEF StatementsInvariant
<1>12. ReadsCommitted'
  BY <1>1, <1>2, Zenon DEF StatementsInvariant, ReadsCommitted
<1>13. ASSUME NEW s \in Session
       PROVE  /\ PlaceSound(s)' /\ ScanSound(s)' /\ RowSound(s)'
              /\ LockSound(s)' /\ BaseSound(s)' /\ SelectSound(s)'
  <2>1. PlaceSound(s) /\ ScanSound(s) /\ RowSound(s) /\ LockSound(s) /\ BaseSound(s) /\ SelectSound(s)
    BY DEF StatementsInvariant
  <2>2. PlaceSound(s)' /\ ScanSound(s)' /\ LockSound(s)'
    BY <1>1, <1>2, <2>1 DEF PlaceSound, Active, Running, ScanSound, LockSound, Locks!Idle, Locks!Blocked
  <2>3. BaseSound(s)'
    <3>1. \A r : Mvcc!Latest(r)' = Mvcc!Latest(r)
      BY <1>2 DEF Mvcc!Latest, Mvcc!LatestOf
    <3> QED
      BY <1>1, <1>2, <2>1, <3>1 DEF BaseSound
  <2>4. SelectSound(s)'
    BY <1>1, <1>7, <2>1 DEF SelectSound
  <2>5. RowSound(s)'
    BY <1>1, <1>2, <1>6, <1>7, <1>8, <2>1 DEF RowSound
  <2> QED
    BY <2>2, <2>3, <2>4, <2>5
<1> QED
  BY <1>3, <1>5, <1>9, <1>10, <1>11, <1>12, <1>13 DEF StatementsInvariant

\* Every step keeps the invariant.
LEMMA StatementsStep == StatementsInvariant /\ [Next]_vars => StatementsInvariant'
<1>1. ASSUME StatementsInvariant, NEW s \in Session, Step(s)
      PROVE  StatementsInvariant'
  BY <1>1, ScanRowKeeps, FinishStatementKeeps, ThrowsKeep, InsertIntoHeapKeeps, LockRecordKeeps,
     WriteVersionKeeps, WriteRefusedKeeps, WriteIndexKeeps, Zenon DEF Step
<1>2. ASSUME StatementsInvariant, Next
      PROVE  StatementsInvariant'
  <2>1. PICK s \in Session :
            \/ BeginTransaction(s)
            \/ \E stmt \in Statement : StartStatement(s, stmt)
            \/ Step(s)
            \/ LockWakes(s)
            \/ CommitVersions(s) \/ CommitTransaction(s)
    BY <1>2, Zenon DEF Next
  <2> QED
    BY <1>1, <1>2, <2>1, BeginTransactionKeeps, StartStatementKeeps, LockWakesKeeps, CommitVersionsKeeps,
       CommitTransactionKeeps, Zenon
<1> QED
  BY <1>2, StatementsStutter, Zenon

\* The invariant says what is worth knowing of a committed transaction and of a
\* select that has run to its end.
LEMMA InvariantImplies ==
    ASSUME StatementsInvariant
    PROVE  CommittedIsLogged /\ ReadsCommitted /\ ScanComplete /\ LookupComplete
<1>1. /\ TypeOK /\ VersionsLogged /\ ReadsCommitted
      /\ \A s \in Session : PlaceSound(s) /\ SelectSound(s) /\ BaseSound(s)
  BY DEF StatementsInvariant
<1>2. CommittedIsLogged
  <2> SUFFICES ASSUME NEW t \in TxnId, status[t] \in {"committed", "done"}
               PROVE  log_records[t] = Cardinality(VersionsOf(t))
    BY DEF CommittedIsLogged
  <2>1. ~(\E s \in Session : Indexing(s) /\ session[s].txn = t)
    BY <1>1 DEF PlaceSound, Active, Indexing
  <2>2. Cardinality(VersionsOf(t)) = log_records[t] + 0
    BY <1>1, <2>1 DEF VersionsLogged
  <2>3. log_records[t] \in Nat
    BY <1>1 DEF TypeOK
  <2> QED
    BY <2>2, <2>3
<1>3. ScanComplete
  <2> SUFFICES ASSUME NEW s \in Session, Selected(s), session[s].stmt.where = NoKey, NEW row \in session[s].base
               PROVE  \E o \in session[s].out : o.rid = row[1] /\ o.key = row[2]
    BY Zenon DEF ScanComplete
  <2> QED
    BY <1>1 DEF SelectSound, Selected
<1>4. LookupComplete
  <2> SUFFICES ASSUME NEW s \in Session, Selected(s), NEW row \in session[s].base,
                      row[2] = session[s].stmt.where, Carriers(row[2]) = {row[1]}
               PROVE  \E o \in session[s].out : o.rid = row[1]
    BY Zenon DEF LookupComplete
  <2> QED
    BY <1>1 DEF SelectSound, Selected
<1> QED
  BY <1>1, <1>2, <1>3, <1>4

\* In every reachable state the locks, the versions, the heap, the index, the
\* log and what each session knows of them agree (StatementsInvariant).
THEOREM StatementsSound == Spec => []StatementsInvariant
BY StatementsInit, StatementsStep, PTL DEF Spec

\* A transaction that commits has one log record for every version it wrote,
\* for any number of sessions, statements and rows.
THEOREM CommittedIsLoggedAlways == Spec => []CommittedIsLogged
<1>1. StatementsInvariant => CommittedIsLogged
  BY InvariantImplies
<1> QED
  BY <1>1, StatementsSound, PTL

\* Scans return versions that are committed or the reader's own, and take from
\* the heap only rows whose insert is still on its way to MvccManager.
THEOREM ReadsCommittedAlways == Spec => []ReadsCommitted
<1>1. StatementsInvariant => ReadsCommitted
  BY InvariantImplies
<1> QED
  BY <1>1, StatementsSound, PTL

\* A full scan returns every row that was committed when its transaction began,
\* whatever other sessions do in the meantime.
THEOREM ScanCompleteAlways == Spec => []ScanComplete
<1>1. StatementsInvariant => ScanComplete
  BY InvariantImplies
<1> QED
  BY <1>1, StatementsSound, PTL

\* A lookup by key returns the row that was committed under the key when its
\* transaction began, when no other row has ever had the key.
THEOREM LookupCompleteAlways == Spec => []LookupComplete
<1>1. StatementsInvariant => LookupComplete
  BY InvariantImplies
<1> QED
  BY <1>1, StatementsSound, PTL
=============================================================================
