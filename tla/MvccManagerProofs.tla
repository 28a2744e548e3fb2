------------------------- MODULE MvccManagerProofs --------------------------
(***************************************************************************)
(* Proofs about MvccManager, for every number of records, transaction ids  *)
(* and versions.                                                           *)
(*                                                                         *)
(* The invariant is a statement about each chain on its own, GoodChain, so *)
(* every call of the code is first studied as an operator on one chain:    *)
(* what it leaves of GoodChain, and which part of the chain it shifts.     *)
(***************************************************************************)
EXTENDS MvccManager, FiniteSetTheorems, SequenceTheorems,
        WellFoundedInduction, TLAPS

-----------------------------------------------------------------------------
(* Data. *)

\* The order of the naturals as a relation.
Below == {p \in Nat \X Nat : p[1] < p[2]}

\* Every nonempty set of naturals has a least element.
LEMMA LeastNumber ==
    ASSUME NEW T \in SUBSET Nat, T # {}
    PROVE  \E m \in T : \A k \in T : m <= k
<1>1. IsWellFoundedOn(Below, Nat)
  BY NatLessThanWellFounded, Zenon DEF OpToRel, Below
<1>2. \E m \in T : \A k \in T : ~(<<k, m>> \in Below)
  BY <1>1, WFMin, Zenon
<1>3. \A k, m \in Nat : ~(<<k, m>> \in Below) => m <= k
  BY DEF Below
<1> QED
  BY <1>2, <1>3

\* Picking an interval of positions shifts what is there to the front.
LEMMA PickInterval ==
    ASSUME NEW seq, NEW m \in Nat, NEW n \in Nat, m <= n
    PROVE  Pick(seq, (m + 1) .. n) = [k \in 1 .. n - m |-> seq[m + k]]
<1> DEFINE keep == (m + 1) .. n
           at(k) == CHOOSE i \in keep : Rank(keep, i) = k
<1>1. Cardinality(keep) = n - m
  <2>1. Cardinality(keep) = IF m + 1 > n THEN 0 ELSE n - (m + 1) + 1
    BY FS_Interval
  <2> QED
    BY <2>1
<1>2. ASSUME NEW i \in keep
      PROVE  Rank(keep, i) = i - m
  <2>1. {j \in keep : j <= i} = (m + 1) .. i
    OBVIOUS
  <2>2. Cardinality((m + 1) .. i) = i - m
    BY FS_Interval
  <2> QED
    BY <2>1, <2>2 DEF Rank
<1>3. ASSUME NEW k \in 1 .. n - m
      PROVE  at(k) = m + k
  <2>1. m + k \in keep /\ (m + k) - m = k /\ \A i \in keep : i - m = k => i = m + k
    OBVIOUS
  <2> HIDE DEF keep
  <2>2. Rank(keep, m + k) = k /\ \A i \in keep : Rank(keep, i) = k => i = m + k
    BY <1>2, <2>1
  <2> QED
    BY <2>1, <2>2
<1>4. Pick(seq, keep) = [k \in 1 .. Cardinality(keep) |-> seq[at(k)]]
  BY DEF Pick
<1> HIDE DEF at, keep
<1> QED
  BY <1>1, <1>3, <1>4 DEF keep

-----------------------------------------------------------------------------
(* Chains. *)

\* What the invariant says of one chain when the transactions are at st.
WriterAlone(chain, st) ==
    \A i \in 1 .. Len(chain) :
        ~chain[i].is_committed =>
            /\ st[chain[i].begin_txn_id] = "active"
            /\ \A j \in 1 .. i :
                  /\ ~chain[j].is_committed
                  /\ chain[j].begin_txn_id = chain[i].begin_txn_id

Linked(chain) ==
    \A i \in 1 .. Len(chain) :
        chain[i].end_txn_id = (IF i = 1 THEN Infinity ELSE chain[i - 1].begin_txn_id)

Decided(chain, st) ==
    \A i \in 1 .. Len(chain) :
        chain[i].is_committed => st[chain[i].begin_txn_id] \in {"committed", "done"}

GoodChain(chain, st) ==
    /\ chain \in Seq(TupleVersion)
    /\ WriterAlone(chain, st)
    /\ Linked(chain)
    /\ Decided(chain, st)

\* The invariant of the model is GoodChain of every chain.
LEMMA InvariantByChain ==
    ChainInvariant <=>
        /\ chains \in [RID -> Seq(TupleVersion)]
        /\ next_txn_id \in 0 .. (MaxTxnId + 1)
        /\ status \in [TxnId -> Status]
        /\ IdsFresh
        /\ \A r \in RID : GoodChain(chains[r], status)
BY DEF ChainInvariant, TypeOK, SingleWriter, ChainLinked, CommittedByFinished,
       GoodChain, WriterAlone, Linked, Decided

\* The fields of a version, and of the sequence that holds it.
LEMMA VersionFields ==
    ASSUME NEW chain \in Seq(TupleVersion)
    PROVE  /\ Len(chain) \in Nat
           /\ \A i \in 1 .. Len(chain) :
                 /\ chain[i] \in TupleVersion
                 /\ chain[i].begin_txn_id \in TxnId
                 /\ chain[i].end_txn_id \in TxnId \cup {Infinity}
                 /\ chain[i].is_committed \in BOOLEAN
                 /\ chain[i].is_deleted \in BOOLEAN
                 /\ chain[i].data \in Value \cup {NoValue}
<1>1. Len(chain) \in Nat /\ \A i \in 1 .. Len(chain) : chain[i] \in TupleVersion
  OBVIOUS
<1> QED
  BY <1>1 DEF TupleVersion

\* Infinity is above every transaction id.
LEMMA InfinityAbove ==
    /\ Infinity \in Nat
    /\ \A t \in TxnId : t \in Nat /\ t < Infinity /\ t # Infinity
BY ConstantsAssumption DEF Infinity, TxnId

\* A new version is a version.
LEMMA NewVersionType ==
    ASSUME NEW t \in TxnId, NEW v \in Value \cup {NoValue}, NEW d \in BOOLEAN
    PROVE  NewVersion(t, v, d) \in TupleVersion
BY DEF NewVersion, TupleVersion

-----------------------------------------------------------------------------
(* The calls, chain by chain. *)

\* insert: the one version of a new chain is open and its writer is active.
LEMMA InsertGood ==
    ASSUME NEW st \in [TxnId -> Status], NEW t \in TxnId, NEW v \in Value,
           st[t] = "active"
    PROVE  GoodChain(<<NewVersion(t, v, FALSE)>>, st)
<1> DEFINE ver == NewVersion(t, v, FALSE)
<1>1. ver \in TupleVersion
  BY NewVersionType
<1>2. ver.begin_txn_id = t /\ ver.end_txn_id = Infinity /\ ~ver.is_committed
  BY DEF NewVersion
<1> HIDE DEF ver
<1>3. <<ver>> \in Seq(TupleVersion) /\ Len(<<ver>>) = 1 /\ <<ver>>[1] = ver
  BY <1>1
<1>4. \A i \in 1 .. Len(<<ver>>) : i = 1
  BY <1>3
<1>5. GoodChain(<<ver>>, st)
  BY <1>2, <1>3, <1>4 DEF GoodChain, WriterAlone, Linked, Decided
<1> QED
  BY <1>5 DEF ver

\* What update and remove make of a chain.
Pushed(chain, t, ver) == <<ver>> \o [chain EXCEPT ![1].end_txn_id = t]

\* Pushing a version shifts the chain by one place and stamps the old head.
LEMMA PushShifts ==
    ASSUME NEW chain \in Seq(TupleVersion), chain # <<>>,
           NEW t \in TxnId, NEW ver \in TupleVersion
    PROVE  /\ Pushed(chain, t, ver) \in Seq(TupleVersion)
           /\ Len(Pushed(chain, t, ver)) = Len(chain) + 1
           /\ Pushed(chain, t, ver)[1] = ver
           /\ \A i \in 1 .. Len(chain) :
                 Pushed(chain, t, ver)[i + 1] =
                    IF i = 1 THEN [chain[1] EXCEPT !.end_txn_id = t] ELSE chain[i]
<1> DEFINE head == [chain[1] EXCEPT !.end_txn_id = t]
           rest == [chain EXCEPT ![1] = head]
<1>1. Len(chain) \in Nat /\ Len(chain) >= 1 /\ chain[1] \in TupleVersion
  OBVIOUS
<1>2. head \in TupleVersion
  BY <1>1 DEF TupleVersion
<1>3. Pushed(chain, t, ver) = <<ver>> \o rest
  BY DEF Pushed
<1> HIDE DEF head
<1>4. rest \in Seq(TupleVersion) /\ Len(rest) = Len(chain)
  BY <1>1, <1>2
<1>5. \A i \in 1 .. Len(chain) : rest[i] = IF i = 1 THEN head ELSE chain[i]
  BY <1>1
<1> HIDE DEF rest
<1>6. <<ver>> \in Seq(TupleVersion) /\ Len(<<ver>>) = 1 /\ <<ver>>[1] = ver
  OBVIOUS
<1>7. /\ <<ver>> \o rest \in Seq(TupleVersion)
      /\ Len(<<ver>> \o rest) = 1 + Len(rest)
      /\ \A i \in 1 .. 1 + Len(rest) :
            (<<ver>> \o rest)[i] = IF i <= 1 THEN <<ver>>[i] ELSE rest[i - 1]
  BY <1>4, <1>6, ConcatProperties
<1>8. (<<ver>> \o rest)[1] = ver
  BY <1>1, <1>4, <1>6, <1>7
<1>9. \A i \in 1 .. Len(chain) : (<<ver>> \o rest)[i + 1] = rest[i]
  <2>1. \A i \in 1 .. Len(chain) : i + 1 \in 1 .. 1 + Len(rest) /\ ~(i + 1 <= 1) /\ (i + 1) - 1 = i
    BY <1>1, <1>4
  <2> QED
    BY <1>7, <2>1
<1> QED
  BY <1>1, <1>3, <1>4, <1>5, <1>7, <1>8, <1>9 DEF head

\* update and remove: the writer of an uncommitted head is the caller itself,
\* so the new version extends the caller's run of uncommitted versions.
LEMMA PushGood ==
    ASSUME NEW st \in [TxnId -> Status], NEW chain, GoodChain(chain, st), chain # <<>>,
           NEW t \in TxnId, st[t] = "active", ~HasWriteConflict(chain[1], t),
           NEW v \in Value \cup {NoValue}, NEW d \in BOOLEAN
    PROVE  GoodChain(Pushed(chain, t, NewVersion(t, v, d)), st)
<1> DEFINE ver == NewVersion(t, v, d)
           new == Pushed(chain, t, ver)
           N == Len(chain)
<1>1. chain \in Seq(TupleVersion) /\ N \in Nat /\ N >= 1
  BY DEF GoodChain
<1>2. ver \in TupleVersion
  BY NewVersionType
<1>3. ver.begin_txn_id = t /\ ver.end_txn_id = Infinity /\ ~ver.is_committed
  BY DEF NewVersion
<1> HIDE DEF ver
<1>4. /\ new \in Seq(TupleVersion)
      /\ Len(new) = N + 1
      /\ new[1] = ver
      /\ \A i \in 1 .. N :
            new[i + 1] = IF i = 1 THEN [chain[1] EXCEPT !.end_txn_id = t] ELSE chain[i]
  BY <1>1, <1>2, PushShifts
<1>5. \A i \in 1 .. N :
         /\ new[i + 1].begin_txn_id = chain[i].begin_txn_id
         /\ new[i + 1].is_committed = chain[i].is_committed
         /\ new[i + 1].end_txn_id = IF i = 1 THEN t ELSE chain[i].end_txn_id
  <2>1. chain[1] \in TupleVersion
    BY <1>1
  <2>2. /\ [chain[1] EXCEPT !.end_txn_id = t].begin_txn_id = chain[1].begin_txn_id
        /\ [chain[1] EXCEPT !.end_txn_id = t].is_committed = chain[1].is_committed
        /\ [chain[1] EXCEPT !.end_txn_id = t].end_txn_id = t
    BY <2>1 DEF TupleVersion
  <2> QED
    BY <1>4, <2>2
<1> HIDE DEF new, N
<1>6. \A i \in 1 .. Len(new) : i = 1 \/ \E k \in 1 .. N : i = k + 1
  <2> SUFFICES ASSUME NEW i \in 1 .. Len(new), i # 1
               PROVE  \E k \in 1 .. N : i = k + 1
    OBVIOUS
  <2>1. i - 1 \in 1 .. N /\ i = (i - 1) + 1
    BY <1>1, <1>4
  <2> QED
    BY <2>1
<1>7. \A i \in 1 .. N : ~chain[i].is_committed =>
         \A j \in 1 .. i : ~chain[j].is_committed /\ chain[j].begin_txn_id = t
  <2> SUFFICES ASSUME NEW i \in 1 .. N, ~chain[i].is_committed
               PROVE  \A j \in 1 .. i : ~chain[j].is_committed /\ chain[j].begin_txn_id = t
    OBVIOUS
  <2>1. \A j \in 1 .. i : ~chain[j].is_committed /\ chain[j].begin_txn_id = chain[i].begin_txn_id
    BY DEF GoodChain, WriterAlone, N
  <2>2. 1 \in 1 .. i
    BY <1>1
  <2>3. chain[1].begin_txn_id = t
    BY <2>1, <2>2 DEF HasWriteConflict
  <2> QED
    BY <2>1, <2>2, <2>3
<1>8. WriterAlone(new, st)
  <2> SUFFICES ASSUME NEW i \in 1 .. Len(new), ~new[i].is_committed
               PROVE  /\ st[new[i].begin_txn_id] = "active"
                      /\ \A j \in 1 .. i : /\ ~new[j].is_committed
                                           /\ new[j].begin_txn_id = new[i].begin_txn_id
    BY DEF WriterAlone
  <2>1. CASE i = 1
    BY <1>3, <1>4, <2>1
  <2>2. CASE \E k \in 1 .. N : i = k + 1
    <3> PICK k \in 1 .. N : i = k + 1
      BY <2>2
    <3>1. ~chain[k].is_committed
      BY <1>5
    <3>2. \A j \in 1 .. k : ~chain[j].is_committed /\ chain[j].begin_txn_id = t
      BY <1>7, <3>1
    <3>3. new[i].begin_txn_id = t
      <4>1. k \in 1 .. k
        BY <1>1
      <4> QED
        BY <1>5, <3>2, <4>1
    <3>4. ASSUME NEW j \in 1 .. i
          PROVE  ~new[j].is_committed /\ new[j].begin_txn_id = t
      <4>1. j = 1 \/ \E m \in 1 .. k : j = m + 1
        <5>1. j = 1 \/ (j - 1 \in 1 .. k /\ j = (j - 1) + 1)
          BY <1>1
        <5> QED
          BY <5>1
      <4>2. \A m \in 1 .. k : m \in 1 .. N
        BY <1>1
      <4> QED
        BY <1>3, <1>4, <1>5, <3>2, <4>1, <4>2
    <3> QED
      BY <3>3, <3>4
  <2> QED
    BY <1>6, <2>1, <2>2
<1>9. Linked(new)
  <2> SUFFICES ASSUME NEW i \in 1 .. Len(new)
               PROVE  new[i].end_txn_id = (IF i = 1 THEN Infinity ELSE new[i - 1].begin_txn_id)
    BY DEF Linked
  <2>1. CASE i = 1
    BY <1>3, <1>4, <2>1
  <2>2. CASE i # 1
    <3> PICK k \in 1 .. N : i = k + 1
      BY <1>6, <2>2
    <3>1. i - 1 = k
      BY <1>1
    <3>2. CASE k = 1
      BY <1>3, <1>4, <1>5, <2>2, <3>1, <3>2
    <3>3. CASE k # 1
      <4>1. k - 1 \in 1 .. N /\ (k - 1) + 1 = k
        BY <1>1, <3>3
      <4>2. chain[k].end_txn_id = chain[k - 1].begin_txn_id
        BY <3>3 DEF GoodChain, Linked, N
      <4>3. new[k].begin_txn_id = chain[k - 1].begin_txn_id
        BY <1>5, <4>1
      <4> QED
        BY <1>5, <2>2, <3>1, <3>3, <4>2, <4>3
    <3> QED
      BY <3>2, <3>3
  <2> QED
    BY <2>1, <2>2
<1>10. Decided(new, st)
  BY SMTT(40), <1>3, <1>4, <1>5, <1>6 DEF GoodChain, Decided, N
<1> QED
  BY <1>4, <1>8, <1>9, <1>10 DEF GoodChain, new, ver

\* What commit leaves of a chain, field by field.
LEMMA CommittedFields ==
    ASSUME NEW chain \in Seq(TupleVersion), NEW t \in TxnId
    PROVE  /\ Committed(chain, t) \in Seq(TupleVersion)
           /\ Len(Committed(chain, t)) = Len(chain)
           /\ \A i \in 1 .. Len(chain) :
                 /\ Committed(chain, t)[i].begin_txn_id = chain[i].begin_txn_id
                 /\ Committed(chain, t)[i].end_txn_id = chain[i].end_txn_id
                 /\ Committed(chain, t)[i].is_deleted = chain[i].is_deleted
                 /\ Committed(chain, t)[i].data = chain[i].data
                 /\ Committed(chain, t)[i].is_committed =
                       (chain[i].is_committed \/ chain[i].begin_txn_id = t)
<1> DEFINE mark(ver) == IF ver.begin_txn_id = t THEN [ver EXCEPT !.is_committed = TRUE] ELSE ver
           new == [i \in 1 .. Len(chain) |-> mark(chain[i])]
<1>1. Committed(chain, t) = new
  BY DEF Committed
<1>2. ASSUME NEW ver \in TupleVersion
      PROVE  /\ mark(ver) \in TupleVersion
             /\ mark(ver).begin_txn_id = ver.begin_txn_id
             /\ mark(ver).end_txn_id = ver.end_txn_id
             /\ mark(ver).is_deleted = ver.is_deleted
             /\ mark(ver).data = ver.data
             /\ mark(ver).is_committed = (ver.is_committed \/ ver.begin_txn_id = t)
  BY DEF TupleVersion
<1> HIDE DEF mark
<1>3. Len(chain) \in Nat /\ \A i \in 1 .. Len(chain) : chain[i] \in TupleVersion
  OBVIOUS
<1>4. new \in Seq(TupleVersion) /\ Len(new) = Len(chain)
  BY <1>2, <1>3
<1>5. \A i \in 1 .. Len(chain) : new[i] = mark(chain[i])
  OBVIOUS
<1> HIDE DEF new
<1> QED
  BY <1>1, <1>2, <1>3, <1>4, <1>5

\* commit: no version of t is left undecided, and the others are untouched.
LEMMA CommitGood ==
    ASSUME NEW st \in [TxnId -> Status], NEW chain, GoodChain(chain, st),
           NEW t \in TxnId, st[t] = "active"
    PROVE  GoodChain(Committed(chain, t), [st EXCEPT ![t] = "committed"])
<1> DEFINE new == Committed(chain, t)
           st2 == [st EXCEPT ![t] = "committed"]
           N == Len(chain)
<1>1. chain \in Seq(TupleVersion) /\ N \in Nat
  BY DEF GoodChain
<1>2. /\ new \in Seq(TupleVersion)
      /\ Len(new) = N
      /\ \A i \in 1 .. N :
            /\ new[i].begin_txn_id = chain[i].begin_txn_id
            /\ new[i].end_txn_id = chain[i].end_txn_id
            /\ new[i].is_committed = (chain[i].is_committed \/ chain[i].begin_txn_id = t)
  BY <1>1, CommittedFields
<1>3. \A i \in 1 .. N : chain[i].begin_txn_id \in TxnId
  BY <1>1, VersionFields
<1>4. st2[t] = "committed" /\ \A u \in TxnId : u # t => st2[u] = st[u]
  OBVIOUS
<1> HIDE DEF new, st2
<1>5. WriterAlone(new, st2)
  <2> SUFFICES ASSUME NEW i \in 1 .. N, ~new[i].is_committed
               PROVE  /\ st2[new[i].begin_txn_id] = "active"
                      /\ \A j \in 1 .. i : /\ ~new[j].is_committed
                                           /\ new[j].begin_txn_id = new[i].begin_txn_id
    BY <1>2 DEF WriterAlone
  <2>1. ~chain[i].is_committed /\ chain[i].begin_txn_id # t
    BY <1>2
  <2>2. /\ st[chain[i].begin_txn_id] = "active"
        /\ \A j \in 1 .. i : /\ ~chain[j].is_committed
                             /\ chain[j].begin_txn_id = chain[i].begin_txn_id
    BY <2>1 DEF GoodChain, WriterAlone
  <2>3. \A j \in 1 .. i : j \in 1 .. N
    BY <1>1
  <2> QED
    BY <1>2, <1>3, <1>4, <2>1, <2>2, <2>3
<1>6. Linked(new)
  <2> SUFFICES ASSUME NEW i \in 1 .. N
               PROVE  new[i].end_txn_id = (IF i = 1 THEN Infinity ELSE new[i - 1].begin_txn_id)
    BY <1>2 DEF Linked
  <2>1. i # 1 => i - 1 \in 1 .. N
    BY <1>1
  <2>2. chain[i].end_txn_id = (IF i = 1 THEN Infinity ELSE chain[i - 1].begin_txn_id)
    BY DEF GoodChain, Linked
  <2> QED
    BY <1>2, <2>1, <2>2
<1>7. Decided(new, st2)
  <2> SUFFICES ASSUME NEW i \in 1 .. N, new[i].is_committed
               PROVE  st2[new[i].begin_txn_id] \in {"committed", "done"}
    BY <1>2 DEF Decided
  <2>1. CASE chain[i].begin_txn_id = t
    BY <1>2, <1>4, <2>1
  <2>2. CASE chain[i].begin_txn_id # t
    <3>1. chain[i].is_committed
      BY <1>2, <2>2
    <3> QED
      BY <1>2, <1>3, <1>4, <2>2, <3>1 DEF GoodChain, Decided
  <2> QED
    BY <2>1, <2>2
<1> QED
  BY <1>2, <1>5, <1>6, <1>7 DEF GoodChain, new, st2

\* The versions of an active transaction are the first m of a chain, all of
\* them uncommitted, for some m: abort drops a prefix.
LEMMA OwnVersionsFirst ==
    ASSUME NEW st \in [TxnId -> Status], NEW chain, GoodChain(chain, st),
           NEW t \in TxnId, st[t] = "active"
    PROVE  \E m \in 0 .. Len(chain) :
              /\ \A i \in 1 .. m : chain[i].begin_txn_id = t /\ ~chain[i].is_committed
              /\ \A i \in (m + 1) .. Len(chain) : chain[i].begin_txn_id # t
<1> DEFINE N == Len(chain)
           T == {k \in 0 .. N : \A i \in (k + 1) .. N : chain[i].begin_txn_id # t}
<1>1. chain \in Seq(TupleVersion) /\ N \in Nat
  BY DEF GoodChain
<1>2. N \in T
  BY <1>1
<1>3. T \in SUBSET Nat
  OBVIOUS
<1>4. PICK m \in T : \A k \in T : m <= k
  BY <1>2, <1>3, LeastNumber
<1>5. m \in 0 .. N /\ \A i \in (m + 1) .. N : chain[i].begin_txn_id # t
  OBVIOUS
<1>6. ASSUME m # 0
      PROVE  \A i \in 1 .. m : chain[i].begin_txn_id = t /\ ~chain[i].is_committed
  <2>1. m \in 1 .. N /\ m - 1 \in 0 .. N /\ ~(m <= m - 1)
    BY <1>1, <1>5, <1>6
  <2>2. m - 1 \notin T
    BY <1>4, <2>1
  <2>3. PICK i \in ((m - 1) + 1) .. N : chain[i].begin_txn_id = t
    BY <2>1, <2>2
  <2>4. i = m \/ i \in (m + 1) .. N
    BY <1>1, <2>1
  <2>5. chain[m].begin_txn_id = t
    BY <1>5, <2>3, <2>4
  <2>6. ~chain[m].is_committed
    BY <2>1, <2>5 DEF GoodChain, Decided
  <2> QED
    BY <2>1, <2>5, <2>6 DEF GoodChain, WriterAlone
<1>7. m = 0 => \A i \in 1 .. m : FALSE
  OBVIOUS
<1> HIDE DEF T, N
<1>8. \A i \in 1 .. m : chain[i].begin_txn_id = t /\ ~chain[i].is_committed
  BY <1>6, <1>7
<1> QED
  BY <1>5, <1>8 DEF N

\* abort: the chain that is left is the old one without its first m versions,
\* and its head is open again.
LEMMA AbortShifts ==
    ASSUME NEW st \in [TxnId -> Status], NEW chain, GoodChain(chain, st),
           NEW t \in TxnId, NEW m \in 0 .. Len(chain),
           \A i \in 1 .. m : chain[i].begin_txn_id = t /\ ~chain[i].is_committed,
           \A i \in (m + 1) .. Len(chain) : chain[i].begin_txn_id # t
    PROVE  /\ Without(chain, t) \in Seq(TupleVersion)
           /\ Len(Without(chain, t)) = Len(chain) - m
           /\ \A k \in 1 .. Len(chain) - m :
                 /\ Without(chain, t)[k].begin_txn_id = chain[m + k].begin_txn_id
                 /\ Without(chain, t)[k].is_committed = chain[m + k].is_committed
                 /\ Without(chain, t)[k].is_deleted = chain[m + k].is_deleted
                 /\ Without(chain, t)[k].data = chain[m + k].data
                 /\ Without(chain, t)[k].end_txn_id =
                       IF k = 1 THEN Infinity ELSE chain[m + k].end_txn_id
<1> DEFINE N == Len(chain)
           kept == Pick(chain, {i \in 1 .. N : chain[i].begin_txn_id # t})
           open == [kept[1] EXCEPT !.end_txn_id = Infinity]
           reopened == [kept EXCEPT ![1] = open]
<1>1. chain \in Seq(TupleVersion) /\ N \in Nat /\ m \in 0 .. N
  BY DEF GoodChain
<1>2. \A i \in 1 .. N : chain[i] \in TupleVersion
  BY <1>1
<1>3. {i \in 1 .. N : chain[i].begin_txn_id # t} = (m + 1) .. N
  <2>1. \A i \in 1 .. N : i \in 1 .. m \/ i \in (m + 1) .. N
    BY <1>1
  <2>2. \A i \in (m + 1) .. N : i \in 1 .. N
    BY <1>1
  <2> QED
    BY <2>1, <2>2
<1>4. kept = [k \in 1 .. N - m |-> chain[m + k]]
  <2>1. Pick(chain, (m + 1) .. N) = [k \in 1 .. N - m |-> chain[m + k]]
    BY <1>1, PickInterval
  <2> QED
    BY <1>3, <2>1
<1>5. \A k \in 1 .. N - m : m + k \in 1 .. N
  BY <1>1
<1>8. Without(chain, t) = IF kept # <<>> /\ kept[1].end_txn_id = t THEN reopened ELSE kept
  BY DEF Without
<1> HIDE DEF kept
<1>6. kept \in Seq(TupleVersion) /\ Len(kept) = N - m
  <2>1. N - m \in Nat
    BY <1>1
  <2>2. \A k \in 1 .. N - m : chain[m + k] \in TupleVersion
    BY <1>2, <1>5
  <2> QED
    BY <1>4, <2>1, <2>2
<1>7. \A k \in 1 .. N - m : kept[k] = chain[m + k]
  BY <1>4
<1>9. kept # <<>> => 1 \in 1 .. N - m
  BY <1>1, <1>6
<1>10. CASE kept = <<>>
  <2>1. \A k \in 1 .. N - m : FALSE
    BY <1>1, <1>6, <1>10
  <2> QED
    BY <1>6, <1>8, <1>10, <2>1
<1>11. CASE kept # <<>>
  <2>1. m + 1 \in 1 .. N /\ kept[1] = chain[m + 1]
    BY <1>5, <1>7, <1>9, <1>11
  <2>2. kept[1] \in TupleVersion
    BY <1>2, <2>1
  <2>3. m # 0 => kept[1].end_txn_id = t
    <3>1. m # 0 => m + 1 # 1 /\ (m + 1) - 1 = m /\ m \in 1 .. m
      BY <1>1
    <3> QED
      BY <2>1, <3>1 DEF GoodChain, Linked
  <2>4. m = 0 => kept[1].end_txn_id = Infinity /\ Infinity # t
    <3>1. m = 0 => m + 1 = 1
      OBVIOUS
    <3> QED
      BY <2>1, <3>1, InfinityAbove DEF GoodChain, Linked
  <2>5. /\ open \in TupleVersion
        /\ open.begin_txn_id = kept[1].begin_txn_id
        /\ open.is_committed = kept[1].is_committed
        /\ open.is_deleted = kept[1].is_deleted
        /\ open.data = kept[1].data
        /\ open.end_txn_id = Infinity
    BY <2>2 DEF TupleVersion
  <2> HIDE DEF open
  <2>6. CASE m = 0
    <3>1. Without(chain, t) = kept
      BY <1>8, <2>4, <2>6
    <3> QED
      BY <1>6, <1>7, <2>4, <2>6, <3>1
  <2>7. CASE m # 0
    <3>1. Without(chain, t) = reopened
      BY <1>8, <1>11, <2>3, <2>7
    <3>2. reopened \in Seq(TupleVersion) /\ Len(reopened) = N - m
      <4>1. 1 \in 1 .. Len(kept)
        BY <1>6, <1>9, <1>11
      <4> QED
        BY <1>6, <2>5, <4>1, ExceptSeq
    <3>3. \A k \in 1 .. N - m : reopened[k] = IF k = 1 THEN open ELSE kept[k]
      BY <1>6
    <3> HIDE DEF reopened
    <3> QED
      BY <1>7, <2>5, <3>1, <3>2, <3>3
  <2> QED
    BY <2>6, <2>7
<1> QED
  BY <1>10, <1>11

\* abort: nothing of t is left, and the versions below are linked again.
LEMMA AbortGood ==
    ASSUME NEW st \in [TxnId -> Status], NEW chain, GoodChain(chain, st),
           NEW t \in TxnId, st[t] = "active"
    PROVE  GoodChain(Without(chain, t), [st EXCEPT ![t] = "aborted"])
<1> DEFINE new == Without(chain, t)
           st2 == [st EXCEPT ![t] = "aborted"]
           N == Len(chain)
<1>1. chain \in Seq(TupleVersion) /\ N \in Nat
  BY DEF GoodChain
<1>2. PICK m \in 0 .. N :
         /\ \A i \in 1 .. m : chain[i].begin_txn_id = t /\ ~chain[i].is_committed
         /\ \A i \in (m + 1) .. N : chain[i].begin_txn_id # t
  BY OwnVersionsFirst
<1>3. /\ new \in Seq(TupleVersion)
      /\ Len(new) = N - m
      /\ \A k \in 1 .. N - m :
            /\ new[k].begin_txn_id = chain[m + k].begin_txn_id
            /\ new[k].is_committed = chain[m + k].is_committed
            /\ new[k].end_txn_id = IF k = 1 THEN Infinity ELSE chain[m + k].end_txn_id
  BY <1>2, AbortShifts
<1>4. \A k \in 1 .. N - m : m + k \in 1 .. N /\ m + k \in (m + 1) .. N
  BY <1>1
<1>5. \A i \in 1 .. N : chain[i].begin_txn_id \in TxnId
  BY <1>1, VersionFields
<1>6. st2[t] = "aborted" /\ \A u \in TxnId : u # t => st2[u] = st[u]
  OBVIOUS
<1> HIDE DEF new, st2
<1>7. \A k \in 1 .. N - m : st2[new[k].begin_txn_id] = st[chain[m + k].begin_txn_id]
  BY <1>2, <1>3, <1>4, <1>5, <1>6
<1>8. WriterAlone(new, st2)
  <2> SUFFICES ASSUME NEW k \in 1 .. N - m, ~new[k].is_committed
               PROVE  /\ st2[new[k].begin_txn_id] = "active"
                      /\ \A j \in 1 .. k : /\ ~new[j].is_committed
                                           /\ new[j].begin_txn_id = new[k].begin_txn_id
    BY <1>3 DEF WriterAlone
  <2>1. ~chain[m + k].is_committed
    BY <1>3
  <2>2. /\ st[chain[m + k].begin_txn_id] = "active"
        /\ \A j \in 1 .. m + k : /\ ~chain[j].is_committed
                                 /\ chain[j].begin_txn_id = chain[m + k].begin_txn_id
    BY <1>4, <2>1 DEF GoodChain, WriterAlone
  <2>3. \A j \in 1 .. k : j \in 1 .. N - m /\ m + j \in 1 .. m + k
    BY <1>1
  <2>4. ASSUME NEW j \in 1 .. k
        PROVE  ~new[j].is_committed /\ new[j].begin_txn_id = new[k].begin_txn_id
    <3>1. ~chain[m + j].is_committed /\ chain[m + j].begin_txn_id = chain[m + k].begin_txn_id
      BY <2>2, <2>3
    <3> QED
      BY <1>3, <2>3, <3>1
  <2> QED
    BY <1>7, <2>2, <2>4
<1>9. Linked(new)
  <2> SUFFICES ASSUME NEW k \in 1 .. N - m, k # 1
               PROVE  new[k].end_txn_id = new[k - 1].begin_txn_id
    BY <1>3 DEF Linked
  <2>1. k - 1 \in 1 .. N - m /\ m + (k - 1) = (m + k) - 1 /\ m + k # 1
    BY <1>1
  <2>2. chain[m + k].end_txn_id = chain[(m + k) - 1].begin_txn_id
    BY <1>4, <2>1 DEF GoodChain, Linked
  <2> QED
    BY <1>3, <2>1, <2>2
<1>10. Decided(new, st2)
  <2> SUFFICES ASSUME NEW k \in 1 .. N - m, new[k].is_committed
               PROVE  st2[new[k].begin_txn_id] \in {"committed", "done"}
    BY <1>3 DEF Decided
  <2> QED
    BY <1>3, <1>4, <1>7 DEF GoodChain, Decided
<1> QED
  BY <1>3, <1>8, <1>9, <1>10 DEF GoodChain, new, st2

\* Other changes of status leave a chain good: a transaction that has no
\* version yet begins, or one that is finished with its versions is closed.
LEMMA StatusGood ==
    ASSUME NEW st \in [TxnId -> Status], NEW chain, GoodChain(chain, st),
           NEW t \in TxnId, NEW s \in Status,
           \/ st[t] = "none"
           \/ st[t] = "committed" /\ s = "done"
           \/ st[t] = "aborted"
    PROVE  GoodChain(chain, [st EXCEPT ![t] = s])
<1> DEFINE st2 == [st EXCEPT ![t] = s]
<1>1. chain \in Seq(TupleVersion) /\ Len(chain) \in Nat
  BY DEF GoodChain
<1>2. \A i \in 1 .. Len(chain) : chain[i].begin_txn_id \in TxnId
  BY <1>1, VersionFields
<1>3. \A u \in TxnId : st2[u] = IF u = t THEN s ELSE st[u]
  OBVIOUS
<1> HIDE DEF st2
<1>4. WriterAlone(chain, st2)
  BY <1>2, <1>3 DEF GoodChain, WriterAlone
<1>5. Decided(chain, st2)
  BY <1>2, <1>3 DEF GoodChain, Decided
<1> QED
  BY <1>4, <1>5 DEF GoodChain, st2

-----------------------------------------------------------------------------
(* The invariant. *)

\* A call that replaces one chain by a good one keeps the invariant.
LEMMA ReplaceOneChain ==
    ASSUME ChainInvariant, NEW r \in RID, NEW new, GoodChain(new, status),
           chains' = [chains EXCEPT ![r] = new], UNCHANGED <<next_txn_id, status>>
    PROVE  ChainInvariant'
<1>1. /\ chains \in [RID -> Seq(TupleVersion)]
      /\ \A q \in RID : GoodChain(chains[q], status)
  BY InvariantByChain
<1>2. new \in Seq(TupleVersion)
  BY DEF GoodChain
<1>3. \A q \in RID : chains'[q] = IF q = r THEN new ELSE chains[q]
  BY <1>1
<1>4. chains' \in [RID -> Seq(TupleVersion)]
  BY <1>1, <1>2
<1>5. \A q \in RID : GoodChain(chains'[q], status)
  BY <1>1, <1>3
<1>6. TypeOK'
  BY <1>4 DEF ChainInvariant, TypeOK
<1>7. IdsFresh'
  BY DEF ChainInvariant, IdsFresh
<1> QED
  BY <1>5, <1>6, <1>7
     DEF ChainInvariant, SingleWriter, ChainLinked, CommittedByFinished,
         GoodChain, WriterAlone, Linked, Decided

\* A call that changes the status of one transaction and leaves every chain
\* good for the new status keeps the invariant.
LEMMA ChangeStatus ==
    ASSUME ChainInvariant, NEW t \in TxnId, NEW s \in Status,
           status' = [status EXCEPT ![t] = s],
           chains' \in [RID -> Seq(TupleVersion)],
           \A r \in RID : GoodChain(chains'[r], [status EXCEPT ![t] = s]),
           next_txn_id' \in next_txn_id .. MaxTxnId + 1,
           t < next_txn_id'
    PROVE  ChainInvariant'
<1>1. next_txn_id \in Nat /\ MaxTxnId \in Nat /\ \A u \in TxnId : u \in Nat
  BY ConstantsAssumption DEF ChainInvariant, TypeOK, TxnId
<1>2. TypeOK'
  BY <1>1 DEF ChainInvariant, TypeOK
<1>3. IdsFresh'
  BY <1>1 DEF ChainInvariant, TypeOK, IdsFresh
<1>4. \A r \in RID : GoodChain(chains'[r], status')
  OBVIOUS
<1> QED
  BY <1>2, <1>3, <1>4
     DEF ChainInvariant, SingleWriter, ChainLinked, CommittedByFinished,
         GoodChain, WriterAlone, Linked, Decided

\* update and remove push a version on one chain.
LEMMA WriteKeeps ==
    ASSUME ChainInvariant, NEW t \in TxnId, NEW r \in RID,
           NEW v \in Value \cup {NoValue}, NEW d \in BOOLEAN,
           Write(t, r, NewVersion(t, v, d))
    PROVE  ChainInvariant'
<1> DEFINE new == Pushed(chains[r], t, NewVersion(t, v, d))
<1>1. status \in [TxnId -> Status] /\ GoodChain(chains[r], status)
  BY InvariantByChain
<1>2. GoodChain(new, status)
  BY <1>1, PushGood DEF Write
<1>3. chains' = [chains EXCEPT ![r] = new] /\ UNCHANGED <<next_txn_id, status>>
  BY DEF Write, PushVersion, Pushed
<1> HIDE DEF new
<1> QED
  BY <1>2, <1>3, ReplaceOneChain

\* The invariant holds initially.
LEMMA ChainInvariantInit == Init => ChainInvariant
<1> SUFFICES ASSUME Init
             PROVE  ChainInvariant
  OBVIOUS
<1>1. TypeOK
  BY ConstantsAssumption DEF Init, TypeOK, Status
<1>2. \A r \in RID : Len(chains[r]) = 0
  BY DEF Init
<1>3. IdsFresh
  BY DEF Init, IdsFresh
<1> QED
  BY <1>1, <1>2, <1>3 DEF ChainInvariant, SingleWriter, ChainLinked, CommittedByFinished

\* Every step keeps the invariant, one case per call of the code.
LEMMA ChainInvariantStep == ChainInvariant /\ [Next]_vars => ChainInvariant'
<1> SUFFICES ASSUME ChainInvariant, [Next]_vars
             PROVE  ChainInvariant'
  OBVIOUS
<1>1. /\ chains \in [RID -> Seq(TupleVersion)]
      /\ status \in [TxnId -> Status]
      /\ next_txn_id \in 0 .. MaxTxnId + 1
      /\ \A r \in RID : GoodChain(chains[r], status)
  BY InvariantByChain
<1>2. MaxTxnId \in Nat /\ \A t \in TxnId : t \in 0 .. MaxTxnId
  BY ConstantsAssumption DEF TxnId
<1>3. \A t \in TxnId : status[t] # "none" => t < next_txn_id
  BY <1>1, <1>2 DEF ChainInvariant, IdsFresh
<1>4. {"active", "committed", "aborted", "done"} \subseteq Status
  BY DEF Status
<1>5. ASSUME NEW t \in TxnId, Begin(t)
      PROVE  ChainInvariant'
  <2>1. status[t] = "none"
    BY <1>1, <1>2, <1>5 DEF ChainInvariant, IdsFresh, Begin
  <2>2. \A r \in RID : GoodChain(chains'[r], [status EXCEPT ![t] = "active"])
    BY <1>1, <1>4, <1>5, <2>1, StatusGood DEF Begin
  <2>3. next_txn_id' \in next_txn_id .. MaxTxnId + 1 /\ t < next_txn_id'
    BY <1>1, <1>2, <1>5 DEF Begin
  <2> QED
    BY <1>1, <1>4, <1>5, <2>2, <2>3, ChangeStatus DEF Begin
<1>6. ASSUME NEW t \in TxnId, NEW r \in RID, NEW v \in Value, Insert(t, r, v)
      PROVE  ChainInvariant'
  <2>1. GoodChain(<<NewVersion(t, v, FALSE)>>, status)
    BY <1>1, <1>6, InsertGood DEF Insert
  <2>2. /\ chains' = [chains EXCEPT ![r] = <<NewVersion(t, v, FALSE)>>]
        /\ UNCHANGED <<next_txn_id, status>>
    BY <1>6 DEF Insert
  <2> QED
    BY <2>1, <2>2, ReplaceOneChain
<1>7. ASSUME NEW t \in TxnId, NEW r \in RID, NEW v \in Value, Update(t, r, v)
      PROVE  ChainInvariant'
  BY <1>7, WriteKeeps DEF Update
<1>8. ASSUME NEW t \in TxnId, NEW r \in RID, Remove(t, r)
      PROVE  ChainInvariant'
  BY <1>8, WriteKeeps DEF Remove
<1>9. ASSUME NEW t \in TxnId, MvccCommit(t)
      PROVE  ChainInvariant'
  <2>1. \A r \in RID : GoodChain(Committed(chains[r], t), [status EXCEPT ![t] = "committed"])
    BY <1>1, <1>9, CommitGood DEF MvccCommit
  <2>2. \A r \in RID : chains'[r] = Committed(chains[r], t)
    BY <1>9 DEF MvccCommit
  <2>3. chains' \in [RID -> Seq(TupleVersion)]
    <3>1. \A r \in RID : Committed(chains[r], t) \in Seq(TupleVersion)
      BY <2>1 DEF GoodChain
    <3> QED
      BY <1>9, <3>1 DEF MvccCommit
  <2>4. next_txn_id' \in next_txn_id .. MaxTxnId + 1 /\ t < next_txn_id'
    BY <1>1, <1>2, <1>3, <1>9 DEF MvccCommit
  <2>5. status' = [status EXCEPT ![t] = "committed"] /\ "committed" \in Status
    BY <1>4, <1>9 DEF MvccCommit
  <2>6. \A r \in RID : GoodChain(chains'[r], [status EXCEPT ![t] = "committed"])
    BY <2>1, <2>2
  <2> QED
    BY <2>3, <2>4, <2>5, <2>6, ChangeStatus
<1>10. ASSUME NEW t \in TxnId, MvccAbort(t)
       PROVE  ChainInvariant'
  <2>1. \A r \in RID : GoodChain(Without(chains[r], t), [status EXCEPT ![t] = "aborted"])
    BY <1>1, <1>10, AbortGood DEF MvccAbort
  <2>2. \A r \in RID : chains'[r] = Without(chains[r], t)
    BY <1>10 DEF MvccAbort
  <2>3. chains' \in [RID -> Seq(TupleVersion)]
    <3>1. \A r \in RID : Without(chains[r], t) \in Seq(TupleVersion)
      BY <2>1 DEF GoodChain
    <3> QED
      BY <1>10, <3>1 DEF MvccAbort
  <2>4. next_txn_id' \in next_txn_id .. MaxTxnId + 1 /\ t < next_txn_id'
    BY <1>1, <1>2, <1>3, <1>10 DEF MvccAbort
  <2>5. status' = [status EXCEPT ![t] = "aborted"] /\ "aborted" \in Status
    BY <1>4, <1>10 DEF MvccAbort
  <2>6. \A r \in RID : GoodChain(chains'[r], [status EXCEPT ![t] = "aborted"])
    BY <2>1, <2>2
  <2> QED
    BY <2>3, <2>4, <2>5, <2>6, ChangeStatus
<1>11. ASSUME NEW t \in TxnId, TxnCommit(t)
       PROVE  ChainInvariant'
  <2>1. \A r \in RID : GoodChain(chains'[r], [status EXCEPT ![t] = "done"])
    BY <1>1, <1>4, <1>11, StatusGood DEF TxnCommit
  <2>2. next_txn_id' \in next_txn_id .. MaxTxnId + 1 /\ t < next_txn_id'
    BY <1>1, <1>2, <1>3, <1>11 DEF TxnCommit
  <2>3. status' = [status EXCEPT ![t] = "done"] /\ "done" \in Status /\ chains' = chains
    BY <1>4, <1>11 DEF TxnCommit
  <2> QED
    BY <1>1, <2>1, <2>2, <2>3, ChangeStatus
<1>12. ASSUME NEW t \in TxnId, TxnAbort(t)
       PROVE  ChainInvariant'
  <2>1. \A r \in RID : GoodChain(chains'[r], [status EXCEPT ![t] = "done"])
    BY <1>1, <1>4, <1>12, StatusGood DEF TxnAbort
  <2>2. next_txn_id' \in next_txn_id .. MaxTxnId + 1 /\ t < next_txn_id'
    BY <1>1, <1>2, <1>3, <1>12 DEF TxnAbort
  <2>3. status' = [status EXCEPT ![t] = "done"] /\ "done" \in Status /\ chains' = chains
    BY <1>4, <1>12 DEF TxnAbort
  <2> QED
    BY <1>1, <2>1, <2>2, <2>3, ChangeStatus
<1>13. CASE UNCHANGED vars
  BY <1>13 DEF vars, ChainInvariant, TypeOK, SingleWriter, ChainLinked, IdsFresh,
               CommittedByFinished
<1> QED
  BY <1>5, <1>6, <1>7, <1>8, <1>9, <1>10, <1>11, <1>12, <1>13 DEF Next, MvccStep

\* The version chains stay typed, linked and written by one transaction at a
\* time, whatever mvcc_manager.cpp and transaction_manager.cpp interleave.
THEOREM ChainsSound == Spec => []ChainInvariant
<1> QED
  BY ChainInvariantInit, ChainInvariantStep, PTL DEF Spec

\* The uncommitted versions of a chain are its newest ones and belong to one
\* active transaction, always.
THEOREM SingleWriterAlways == Spec => []SingleWriter
<1>1. ChainInvariant => SingleWriter
  BY DEF ChainInvariant
<1> QED
  BY <1>1, ChainsSound, PTL

\* Each version ends where the next newer one begins, always.
THEOREM ChainLinkedAlways == Spec => []ChainLinked
<1>1. ChainInvariant => ChainLinked
  BY DEF ChainInvariant
<1> QED
  BY <1>1, ChainsSound, PTL

-----------------------------------------------------------------------------
(***************************************************************************)
(* What a step may not do.  A chain `long' is a chain `short' under d more *)
(* versions; a reader to whom the d are nothing gets the same from both.   *)
(***************************************************************************)

\* The newest committed value does not see d uncommitted versions on top.
LEMMA LatestShift ==
    ASSUME NEW short \in Seq(TupleVersion), NEW long \in Seq(TupleVersion), NEW d \in Nat,
           Len(long) = Len(short) + d,
           \A i \in 1 .. d : ~long[i].is_committed,
           \A i \in 1 .. Len(short) :
              /\ long[i + d].is_committed = short[i].is_committed
              /\ long[i + d].is_deleted = short[i].is_deleted
              /\ long[i + d].data = short[i].data
    PROVE  LatestOf(long) = LatestOf(short)
<1> DEFINE C(chain) == {i \in 1 .. Len(chain) : chain[i].is_committed}
           newest(chain) == CHOOSE i \in C(chain) : \A j \in C(chain) : i <= j
<1>1. \A chain : LatestOf(chain) =
         IF C(chain) = {} \/ chain[newest(chain)].is_deleted THEN NoValue
         ELSE chain[newest(chain)].data
  BY DEF LatestOf
<1>2. Len(short) \in Nat /\ Len(long) \in Nat
  OBVIOUS
<1>3. \A i \in C(short) : i \in 1 .. Len(short) /\ i + d \in C(long)
  BY <1>2
<1>4. \A i \in C(long) : i - d \in C(short) /\ i \in Int
  <2> SUFFICES ASSUME NEW i \in C(long)
               PROVE  i - d \in C(short)
    BY <1>2
  <2>1. i \notin 1 .. d
    OBVIOUS
  <2>2. i - d \in 1 .. Len(short) /\ (i - d) + d = i
    BY <1>2, <2>1
  <2> QED
    BY <2>2
<1>5. CASE C(short) = {}
  <2>1. C(long) = {}
    BY <1>4, <1>5
  <2> QED
    BY <1>1, <1>5, <2>1
<1>6. CASE C(short) # {}
  <2>1. C(short) \in SUBSET Nat
    BY <1>2
  <2>2. PICK m \in C(short) : \A k \in C(short) : m <= k
    BY <1>6, <2>1, LeastNumber
  <2>3. m \in 1 .. Len(short) /\ m + d \in C(long) /\ \A k \in C(long) : m + d <= k
    <3>1. m \in 1 .. Len(short) /\ m + d \in C(long)
      BY <1>3
    <3>2. ASSUME NEW k \in C(long)
          PROVE  m + d <= k
      BY <1>4, <2>2, <3>1
    <3> QED
      BY <3>1, <3>2
  <2>4. newest(short) = m
    <3>1. newest(short) \in C(short) /\ \A k \in C(short) : newest(short) <= k
      BY <2>2
    <3>2. \A k \in C(short) : k \in Int
      BY <2>1
    <3> QED
      BY SMTT(40), <2>2, <3>1, <3>2
  <2>5. newest(long) = m + d
    <3>1. newest(long) \in C(long) /\ \A k \in C(long) : newest(long) <= k
      BY <2>3
    <3>2. \A k \in C(long) : k \in Int
      BY <1>4
    <3> QED
      BY <2>3, <3>1, <3>2
  <2> HIDE DEF C, newest
  <2>6. C(short) # {} /\ C(long) # {}
    BY <1>6, <2>3
  <2> QED
    BY <1>1, <2>3, <2>4, <2>5, <2>6
<1> QED
  BY <1>5, <1>6

\* To t, long is short under d unreadable versions.
ReadsAlike(t, long, short, d) ==
    /\ Len(long) = Len(short) + d
    /\ \A i \in 1 .. d : ~Readable(t, long[i])
    /\ \A i \in 1 .. Len(short) :
          /\ Readable(t, long[i + d]) <=> Readable(t, short[i])
          /\ long[i + d].is_deleted = short[i].is_deleted
          /\ long[i + d].data = short[i].data

\* A reader does not see d unreadable versions on top.
LEMMA ReadShift ==
    ASSUME NEW t, NEW d \in Nat,
           NEW short \in Seq(TupleVersion), NEW long \in Seq(TupleVersion),
           ReadsAlike(t, long, short, d)
    PROVE  ReadFrom(t, long) = ReadFrom(t, short)
<1> DEFINE F(chain) == {i \in 1 .. Len(chain) :
                          Readable(t, chain[i]) /\ \A j \in 1 .. (i - 1) : ~Readable(t, chain[j])}
           at(chain) == CHOOSE i \in F(chain) : TRUE
<1>1. \A chain : ReadFrom(t, chain) =
         IF F(chain) = {} THEN NoValue
         ELSE IF chain[at(chain)].is_deleted THEN NoValue ELSE chain[at(chain)].data
  BY DEF ReadFrom
<1>2. Len(short) \in Nat /\ Len(long) \in Nat
  OBVIOUS
<1> USE DEF ReadsAlike
<1>3. ASSUME NEW i \in F(short)
      PROVE  i \in 1 .. Len(short) /\ i + d \in F(long)
  <2>1. i \in 1 .. Len(short) /\ i + d \in 1 .. Len(long)
    BY <1>2
  <2>2. Readable(t, long[i + d])
    BY <2>1
  <2>3. ASSUME NEW j \in 1 .. (i + d) - 1
        PROVE  ~Readable(t, long[j])
    <3>1. j \in 1 .. d \/ (j - d \in 1 .. (i - 1) /\ j - d \in 1 .. Len(short) /\ (j - d) + d = j)
      BY <1>2, <2>1
    <3> QED
      BY <3>1
  <2> QED
    BY <2>1, <2>2, <2>3
<1>4. ASSUME NEW i \in F(long)
      PROVE  i - d \in F(short)
  <2>1. i \notin 1 .. d /\ i \in 1 .. Len(long)
    OBVIOUS
  <2>2. i - d \in 1 .. Len(short) /\ (i - d) + d = i
    BY <1>2, <2>1
  <2>3. Readable(t, short[i - d])
    BY <2>2
  <2>4. ASSUME NEW j \in 1 .. (i - d) - 1
        PROVE  ~Readable(t, short[j])
    <3>1. j \in 1 .. Len(short) /\ j + d \in 1 .. (i - 1)
      BY <1>2, <2>2
    <3> QED
      BY <3>1
  <2> QED
    BY <2>2, <2>3, <2>4
<1>5. ASSUME NEW chain, Len(chain) \in Nat, NEW i \in F(chain)
      PROVE  at(chain) = i
  <2>1. at(chain) \in F(chain)
    OBVIOUS
  <2>2. \A x, y \in F(chain) : ~(x < y)
    BY <1>5
  <2>3. \A x \in F(chain) : x \in Int
    BY <1>5
  <2> HIDE DEF F, at
  <2> QED
    BY <2>1, <2>2, <2>3
<1> HIDE DEF F, at, ReadsAlike
<1>6. CASE F(short) = {}
  <2>1. F(long) = {}
    BY <1>4, <1>6
  <2> QED
    BY <1>1, <1>6, <2>1
<1>7. CASE F(short) # {}
  <2>1. PICK i \in F(short) : TRUE
    BY <1>7
  <2>2. i \in 1 .. Len(short) /\ i + d \in F(long)
    BY <1>3
  <2>3. at(short) = i /\ at(long) = i + d
    BY <1>2, <1>5, <2>2
  <2> QED
    BY <1>1, <1>7, <2>2, <2>3 DEF ReadsAlike
<1> QED
  BY <1>6, <1>7

\* A new version is uncommitted, so the newest committed value is the same
\* below it, and only its own writer can read it.
LEMMA PushInvisible ==
    ASSUME NEW st \in [TxnId -> Status], NEW chain, GoodChain(chain, st), chain # <<>>,
           NEW u \in TxnId, NEW v \in Value \cup {NoValue}, NEW d \in BOOLEAN
    PROVE  /\ LatestOf(Pushed(chain, u, NewVersion(u, v, d))) = LatestOf(chain)
           /\ \A t \in TxnId : t < u =>
                 ReadFrom(t, Pushed(chain, u, NewVersion(u, v, d))) = ReadFrom(t, chain)
<1> DEFINE ver == NewVersion(u, v, d)
           new == Pushed(chain, u, ver)
           N == Len(chain)
<1>1. chain \in Seq(TupleVersion) /\ N \in Nat /\ N >= 1
  BY DEF GoodChain
<1>2. ver \in TupleVersion /\ ver.begin_txn_id = u /\ ~ver.is_committed
  BY NewVersionType DEF NewVersion
<1> HIDE DEF ver
<1>3. /\ new \in Seq(TupleVersion)
      /\ Len(new) = N + 1
      /\ new[1] = ver
      /\ \A i \in 1 .. N :
            new[i + 1] = IF i = 1 THEN [chain[1] EXCEPT !.end_txn_id = u] ELSE chain[i]
  BY <1>1, <1>2, PushShifts
<1>4. \A i \in 1 .. N :
         /\ new[i + 1].begin_txn_id = chain[i].begin_txn_id
         /\ new[i + 1].is_committed = chain[i].is_committed
         /\ new[i + 1].is_deleted = chain[i].is_deleted
         /\ new[i + 1].data = chain[i].data
         /\ new[i + 1].end_txn_id = IF i = 1 THEN u ELSE chain[i].end_txn_id
  <2>1. chain[1] \in TupleVersion
    BY <1>1
  <2>2. /\ [chain[1] EXCEPT !.end_txn_id = u].begin_txn_id = chain[1].begin_txn_id
        /\ [chain[1] EXCEPT !.end_txn_id = u].is_committed = chain[1].is_committed
        /\ [chain[1] EXCEPT !.end_txn_id = u].is_deleted = chain[1].is_deleted
        /\ [chain[1] EXCEPT !.end_txn_id = u].data = chain[1].data
        /\ [chain[1] EXCEPT !.end_txn_id = u].end_txn_id = u
    BY <2>1 DEF TupleVersion
  <2> QED
    BY <1>3, <2>2
<1>5. chain[1].end_txn_id = Infinity
  BY <1>1 DEF GoodChain, Linked
<1> HIDE DEF new
<1>6. \A i \in 1 .. 1 : ~new[i].is_committed /\ new[i].begin_txn_id = u
  BY <1>2, <1>3
<1>7. LatestOf(new) = LatestOf(chain)
  BY ZenonT(60), <1>1, <1>3, <1>4, <1>6, LatestShift
<1>8. ASSUME NEW t \in TxnId, t < u
      PROVE  ReadFrom(t, new) = ReadFrom(t, chain)
  <2>1. t \in Nat /\ u \in Nat /\ t # u /\ t < Infinity
    BY <1>8, InfinityAbove
  <2>2. \A i \in 1 .. 1 : ~Readable(t, new[i])
    BY <1>6, <2>1 DEF Readable, IsVisibleTo
  <2>3. \A i \in 1 .. N : Readable(t, new[i + 1]) <=> Readable(t, chain[i])
    <3> SUFFICES ASSUME NEW i \in 1 .. N
                 PROVE  Readable(t, new[i + 1]) <=> Readable(t, chain[i])
      OBVIOUS
    <3>1. (t < new[i + 1].end_txn_id) <=> (t < chain[i].end_txn_id)
      BY <1>4, <1>5, <1>8, <2>1
    <3> QED
      BY <1>4, <3>1 DEF Readable, IsVisibleTo
  <2>4. \A i \in 1 .. Len(chain) :
           /\ Readable(t, new[i + 1]) <=> Readable(t, chain[i])
           /\ new[i + 1].is_deleted = chain[i].is_deleted
           /\ new[i + 1].data = chain[i].data
    BY <1>4, <2>3
  <2>5. 1 \in Nat /\ Len(new) = Len(chain) + 1
    BY <1>3
  <2> QED
    <3>1. ReadsAlike(t, new, chain, 1)
      BY <2>2, <2>4, <2>5 DEF ReadsAlike
    <3> QED
      BY <1>1, <1>3, <2>5, <3>1, ReadShift
<1> QED
  BY <1>7, <1>8 DEF new, ver

\* The first version of a record is uncommitted too.
LEMMA InsertInvisible ==
    ASSUME NEW u \in TxnId, NEW v \in Value
    PROVE  /\ LatestOf(<<NewVersion(u, v, FALSE)>>) = LatestOf(<<>>)
           /\ \A t \in TxnId : t < u =>
                 ReadFrom(t, <<NewVersion(u, v, FALSE)>>) = ReadFrom(t, <<>>)
<1> DEFINE ver == NewVersion(u, v, FALSE)
           none == << >>
<1>1. ver \in TupleVersion /\ ver.begin_txn_id = u /\ ~ver.is_committed
  BY NewVersionType DEF NewVersion
<1> HIDE DEF ver
<1>2. /\ <<ver>> \in Seq(TupleVersion) /\ Len(<<ver>>) = 1 /\ <<ver>>[1] = ver
      /\ none \in Seq(TupleVersion) /\ Len(none) = 0
  BY <1>1
<1>3. /\ Len(<<ver>>) = Len(none) + 1
      /\ \A i \in 1 .. Len(none) : FALSE
      /\ \A i \in 1 .. 1 : <<ver>>[i] = ver
  BY <1>2
<1>4. LatestOf(<<ver>>) = LatestOf(none)
  <2>1. \A i \in 1 .. 1 : ~<<ver>>[i].is_committed
    BY <1>1, <1>3
  <2> HIDE DEF none
  <2> QED
    BY <1>2, <1>3, <2>1, LatestShift
<1>5. ASSUME NEW t \in TxnId, t < u
      PROVE  ReadFrom(t, <<ver>>) = ReadFrom(t, none)
  <2>1. t # u
    BY <1>5, InfinityAbove
  <2>2. \A i \in 1 .. 1 : ~Readable(t, <<ver>>[i])
    BY <1>1, <1>3, <2>1 DEF Readable, IsVisibleTo
  <2> HIDE DEF none
  <2>3. ReadsAlike(t, <<ver>>, none, 1)
    BY <1>3, <2>2 DEF ReadsAlike
  <2> QED
    BY <1>2, <2>3, ReadShift
<1> QED
  BY <1>4, <1>5 DEF ver

\* A commit of u shows nothing to snapshots before u.
LEMMA CommitInvisible ==
    ASSUME NEW st \in [TxnId -> Status], NEW chain, GoodChain(chain, st),
           NEW u \in TxnId, st[u] = "active", NEW t \in TxnId, t < u
    PROVE  ReadFrom(t, Committed(chain, u)) = ReadFrom(t, chain)
<1> DEFINE new == Committed(chain, u)
           N == Len(chain)
<1>1. chain \in Seq(TupleVersion) /\ N \in Nat
  BY DEF GoodChain
<1>2. /\ new \in Seq(TupleVersion)
      /\ Len(new) = N
      /\ \A i \in 1 .. N :
            /\ new[i].begin_txn_id = chain[i].begin_txn_id
            /\ new[i].end_txn_id = chain[i].end_txn_id
            /\ new[i].is_deleted = chain[i].is_deleted
            /\ new[i].data = chain[i].data
            /\ new[i].is_committed = (chain[i].is_committed \/ chain[i].begin_txn_id = u)
  BY <1>1, CommittedFields
<1> HIDE DEF new
<1>3. t \in Nat /\ u \in Nat /\ t # u /\ ~(u <= t)
  BY InfinityAbove
<1>4. ASSUME NEW i \in 1 .. N
      PROVE  Readable(t, new[i]) <=> Readable(t, chain[i])
  <2>1. CASE chain[i].begin_txn_id = u
    BY <1>2, <1>3, <2>1 DEF Readable, IsVisibleTo, GoodChain, Decided
  <2>2. CASE chain[i].begin_txn_id # u
    BY <1>1, <1>2, <2>2, VersionFields DEF Readable, IsVisibleTo
  <2> QED
    BY <2>1, <2>2
<1>5. Len(new) = N + 0 /\ \A i \in 1 .. 0 : FALSE
  BY <1>1, <1>2
<1>6. \A i \in 1 .. Len(chain) :
         /\ Readable(t, new[i + 0]) <=> Readable(t, chain[i])
         /\ new[i + 0].is_deleted = chain[i].is_deleted
         /\ new[i + 0].data = chain[i].data
  <2>1. \A i \in 1 .. N : i + 0 = i
    OBVIOUS
  <2> QED
    BY <1>2, <1>4, <2>1
<1>7. 0 \in Nat /\ Len(new) = Len(chain) + 0 /\ \A i \in 1 .. 0 : ~Readable(t, new[i])
  BY <1>5
<1>8. ReadFrom(t, new) = ReadFrom(t, chain)
  <2>1. ReadsAlike(t, new, chain, 0)
    BY <1>6, <1>7 DEF ReadsAlike
  <2> QED
    BY <1>1, <1>2, <1>7, <2>1, ReadShift
<1> QED
  BY <1>8 DEF new

\* What an abort of u drops was neither committed nor readable by others, and
\* what it opens again was visible to every snapshot before u already.
LEMMA AbortInvisible ==
    ASSUME NEW st \in [TxnId -> Status], NEW chain, GoodChain(chain, st),
           NEW u \in TxnId, st[u] = "active"
    PROVE  /\ LatestOf(Without(chain, u)) = LatestOf(chain)
           /\ \A t \in TxnId : t < u => ReadFrom(t, Without(chain, u)) = ReadFrom(t, chain)
<1> DEFINE new == Without(chain, u)
           N == Len(chain)
<1>1. chain \in Seq(TupleVersion) /\ N \in Nat
  BY DEF GoodChain
<1>2. PICK m \in 0 .. N :
         /\ \A i \in 1 .. m : chain[i].begin_txn_id = u /\ ~chain[i].is_committed
         /\ \A i \in (m + 1) .. N : chain[i].begin_txn_id # u
  BY OwnVersionsFirst
<1>3. /\ new \in Seq(TupleVersion)
      /\ Len(new) = N - m
      /\ \A k \in 1 .. N - m :
            /\ new[k].begin_txn_id = chain[m + k].begin_txn_id
            /\ new[k].is_committed = chain[m + k].is_committed
            /\ new[k].is_deleted = chain[m + k].is_deleted
            /\ new[k].data = chain[m + k].data
            /\ new[k].end_txn_id = IF k = 1 THEN Infinity ELSE chain[m + k].end_txn_id
  BY <1>2, AbortShifts
<1> HIDE DEF new
<1>4. m \in Nat /\ N = Len(new) + m /\ \A k \in 1 .. Len(new) : k \in 1 .. N - m /\ m + k = k + m
  BY <1>1, <1>3
<1>5. LatestOf(chain) = LatestOf(new)
  BY <1>1, <1>2, <1>3, <1>4, LatestShift
<1>6. ASSUME NEW t \in TxnId, t < u
      PROVE  ReadFrom(t, chain) = ReadFrom(t, new)
  <2>1. t \in Nat /\ u \in Nat /\ t # u /\ t < Infinity
    BY <1>6, InfinityAbove
  <2>2. \A i \in 1 .. m : ~Readable(t, chain[i])
    BY <1>2, <2>1 DEF Readable, IsVisibleTo
  <2>3. ASSUME NEW k \in 1 .. Len(new)
        PROVE  Readable(t, chain[k + m]) <=> Readable(t, new[k])
    <3>1. k \in 1 .. N - m /\ m + k = k + m /\ m + k \in 1 .. N
      BY <1>1, <1>4
    <3>2. k = 1 => chain[m + k].end_txn_id \in {u, Infinity}
      <4>1. k = 1 /\ m = 0 => m + k = 1
        OBVIOUS
      <4>2. k = 1 /\ m # 0 => m + k # 1 /\ (m + k) - 1 = m /\ m \in 1 .. m
        BY <1>4
      <4> QED
        BY <1>2, <3>1, <4>1, <4>2 DEF GoodChain, Linked
    <3>3. (t < new[k].end_txn_id) <=> (t < chain[m + k].end_txn_id)
      BY <1>3, <1>6, <2>1, <3>1, <3>2
    <3>4. /\ new[k].begin_txn_id = chain[m + k].begin_txn_id
          /\ new[k].is_committed = chain[m + k].is_committed
      BY <1>3, <3>1
    <3> QED
      BY <3>1, <3>3, <3>4 DEF Readable, IsVisibleTo
  <2>4. \A k \in 1 .. Len(new) :
           /\ Readable(t, chain[k + m]) <=> Readable(t, new[k])
           /\ chain[k + m].is_deleted = new[k].is_deleted
           /\ chain[k + m].data = new[k].data
    <3> SUFFICES ASSUME NEW k \in 1 .. Len(new)
                 PROVE  /\ chain[k + m].is_deleted = new[k].is_deleted
                        /\ chain[k + m].data = new[k].data
      BY <2>3
    <3>1. k \in 1 .. N - m /\ m + k = k + m
      BY <1>4
    <3> QED
      BY <1>3, <3>1
  <2>5. m \in Nat /\ Len(chain) = Len(new) + m
    BY <1>4
  <2> QED
    <3>1. ReadsAlike(t, chain, new, m)
      BY <2>2, <2>4, <2>5 DEF ReadsAlike
    <3> QED
      BY <1>1, <1>3, <2>5, <3>1, ReadShift
<1> QED
  BY <1>5, <1>6 DEF new

\* What is committed changes only by a commit, or by an insert at a deleted
\* record, which drops the old chain (insert, update, remove, abort).
THEOREM CommittedDurableAlways == Spec => CommittedDurable
<1> DEFINE Lost(r) == Latest(r)' # Latest(r)
           Commits == \E t \in TxnId : status[t] = "active" /\ status'[t] = "committed"
<1>1. ASSUME ChainInvariant, [Next]_vars, NEW r \in RID, Lost(r)
      PROVE  Commits \/ Reinserts
  <2>1. /\ chains \in [RID -> Seq(TupleVersion)]
        /\ status \in [TxnId -> Status]
        /\ \A q \in RID : GoodChain(chains[q], status)
    BY <1>1, InvariantByChain
  <2>2. LatestOf(chains'[r]) # LatestOf(chains[r])
    BY <1>1 DEF Latest
  <2>3. chains' # chains
    BY <2>2
  <2>4. ASSUME NEW t \in TxnId, NEW q \in RID, NEW v \in Value, Insert(t, q, v)
        PROVE  Reinserts
    <3>1. chains' = [chains EXCEPT ![q] = <<NewVersion(t, v, FALSE)>>]
      BY <2>4 DEF Insert
    <3>2. r = q
      BY <2>1, <2>2, <3>1
    <3>3. chains[q] # <<>>
      BY <2>1, <2>2, <3>1, <3>2, InsertInvisible
    <3> QED
      BY <2>4, <3>3 DEF Reinserts
  <2>5. ASSUME NEW t \in TxnId, NEW q \in RID, NEW v \in Value \cup {NoValue}, NEW d \in BOOLEAN,
               Write(t, q, NewVersion(t, v, d))
        PROVE  FALSE
    <3> DEFINE new == Pushed(chains[q], t, NewVersion(t, v, d))
    <3>1. chains' = [chains EXCEPT ![q] = new] /\ chains[q] # <<>>
      BY <2>5 DEF Write, PushVersion, Pushed
    <3>2. LatestOf(new) = LatestOf(chains[q])
      BY <2>1, <3>1, PushInvisible
    <3> HIDE DEF new
    <3> QED
      BY <2>1, <2>2, <3>1, <3>2
  <2>6. ASSUME NEW t \in TxnId, MvccCommit(t)
        PROVE  Commits
    BY <2>1, <2>6 DEF MvccCommit
  <2>7. ASSUME NEW t \in TxnId, MvccAbort(t)
        PROVE  FALSE
    <3>1. chains'[r] = Without(chains[r], t) /\ status[t] = "active"
      BY <2>7 DEF MvccAbort
    <3> QED
      BY <2>1, <2>2, <3>1, AbortInvisible
  <2>8. ASSUME NEW t \in TxnId, Begin(t) \/ TxnCommit(t) \/ TxnAbort(t)
        PROVE  FALSE
    BY <2>3, <2>8 DEF Begin, TxnCommit, TxnAbort
  <2>9. ~UNCHANGED vars
    BY <2>3 DEF vars
  <2>10. ASSUME NEW t \in TxnId, NEW q \in RID, NEW v \in Value, Update(t, q, v)
         PROVE  FALSE
    BY <2>5, <2>10 DEF Update
  <2>11. ASSUME NEW t \in TxnId, NEW q \in RID, Remove(t, q)
         PROVE  FALSE
    BY <2>5, <2>11 DEF Remove
  <2> HIDE DEF Commits
  <2> QED
    BY <1>1, <2>4, <2>6, <2>7, <2>8, <2>9, <2>10, <2>11 DEF Next, MvccStep
<1>2. ChainInvariant /\ [Next]_vars =>
         [\A r \in RID : Latest(r)' # Latest(r) =>
             \/ \E t \in TxnId : status[t] = "active" /\ status'[t] = "committed"
             \/ Reinserts]_vars
  BY <1>1
<1> QED
  BY <1>2, ChainsSound, PTL DEF Spec, CommittedDurable

\* What an active transaction reads does not depend on the calls of later
\* ones, except for an insert at a deleted record.
THEOREM LaterWritersInvisibleAlways == Spec => LaterWritersInvisible
<1>1. ASSUME ChainInvariant, NEW u \in TxnId, MvccStep(u), ~Reinserts,
             NEW t \in 0 .. (u - 1), NEW r \in RID, status[t] = "active"
      PROVE  Read(t, r)' = Read(t, r)
  <2>1. /\ chains \in [RID -> Seq(TupleVersion)]
        /\ status \in [TxnId -> Status]
        /\ \A q \in RID : GoodChain(chains[q], status)
    BY <1>1, InvariantByChain
  <2>2. t \in TxnId /\ t < u
    BY ConstantsAssumption DEF TxnId
  <2> SUFFICES ReadFrom(t, chains'[r]) = ReadFrom(t, chains[r])
    BY DEF Read
  <2>3. ASSUME NEW q \in RID, NEW v \in Value, Insert(u, q, v)
        PROVE  ReadFrom(t, chains'[r]) = ReadFrom(t, chains[r])
    <3>1. chains' = [chains EXCEPT ![q] = <<NewVersion(u, v, FALSE)>>]
      BY <2>3 DEF Insert
    <3>2. chains[q] = <<>>
      BY <1>1, <2>3 DEF Reinserts
    <3>3. ReadFrom(t, <<NewVersion(u, v, FALSE)>>) = ReadFrom(t, <<>>)
      BY <2>2, InsertInvisible
    <3> QED
      BY <2>1, <3>1, <3>2, <3>3
  <2>4. ASSUME NEW q \in RID, NEW v \in Value \cup {NoValue}, NEW d \in BOOLEAN,
               Write(u, q, NewVersion(u, v, d))
        PROVE  ReadFrom(t, chains'[r]) = ReadFrom(t, chains[r])
    <3> DEFINE new == Pushed(chains[q], u, NewVersion(u, v, d))
    <3>1. chains' = [chains EXCEPT ![q] = new] /\ chains[q] # <<>>
      BY <2>4 DEF Write, PushVersion, Pushed
    <3>2. ReadFrom(t, new) = ReadFrom(t, chains[q])
      BY <2>1, <2>2, <3>1, PushInvisible
    <3> HIDE DEF new
    <3> QED
      BY <2>1, <3>1, <3>2
  <2>5. ASSUME MvccCommit(u)
        PROVE  ReadFrom(t, chains'[r]) = ReadFrom(t, chains[r])
    <3>1. chains'[r] = Committed(chains[r], u) /\ status[u] = "active"
      BY <2>5 DEF MvccCommit
    <3> QED
      BY <2>1, <2>2, <3>1, CommitInvisible
  <2>6. ASSUME MvccAbort(u)
        PROVE  ReadFrom(t, chains'[r]) = ReadFrom(t, chains[r])
    <3>1. chains'[r] = Without(chains[r], u) /\ status[u] = "active"
      BY <2>6 DEF MvccAbort
    <3> QED
      BY <2>1, <2>2, <3>1, AbortInvisible
  <2>7. ASSUME NEW q \in RID, NEW v \in Value, Update(u, q, v)
        PROVE  ReadFrom(t, chains'[r]) = ReadFrom(t, chains[r])
    BY <2>4, <2>7 DEF Update
  <2>8. ASSUME NEW q \in RID, Remove(u, q)
        PROVE  ReadFrom(t, chains'[r]) = ReadFrom(t, chains[r])
    BY <2>4, <2>8 DEF Remove
  <2> QED
    BY <1>1, <2>3, <2>5, <2>6, <2>7, <2>8 DEF MvccStep
<1>2. ChainInvariant /\ [Next]_vars =>
         [\A u \in TxnId : MvccStep(u) /\ ~Reinserts =>
             \A t \in 0 .. (u - 1), r \in RID :
                 status[t] = "active" => Read(t, r)' = Read(t, r)]_vars
  BY <1>1
<1> QED
  BY <1>2, ChainsSound, PTL DEF Spec, LaterWritersInvisible
=============================================================================
