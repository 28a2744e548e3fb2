--------------------------- MODULE RecoveryProofs ---------------------------
(***************************************************************************)
(* Theorems about the log and crash recovery: a transaction whose COMMIT   *)
(* or ABORT is on disk has lost no record, and recover() restores what     *)
(* finished transactions left, for any number of transactions, slots,      *)
(* tuples and log records, pages of any size and in any number, and any    *)
(* number of crashes during recovery.                                      *)
(***************************************************************************)
EXTENDS Recovery, FiniteSetTheorems, SequenceTheorems,
        WellFoundedInduction, TLAPS

-----------------------------------------------------------------------------
(***************************************************************************)
(* Data                                                                    *)
(***************************************************************************)

\* The order of the naturals as a relation.
Below == {p \in Nat \X Nat : p[1] < p[2]}

\* Every nonempty set of naturals has a least element.
LEMMA LeastNumber ==
    ASSUME NEW T \in SUBSET Nat, T # {}
    PROVE  \E m \in T : \A k \in T : m <= k
<1>1. IsWellFoundedOn(Below, Nat)
  BY NatLessThanWellFounded, Zenon DEF OpToRel, Below
<1>2. \E m \in T : \A k \in T : ~(<<k, m>> \in Below)
  BY <1>1, WFMin, Zenon
<1>3. \A k, m \in Nat : ~(<<k, m>> \in Below) => m <= k
  BY DEF Below
<1> QED
  BY <1>2, <1>3

\* Picking an interval of positions shifts what is there to the front.
LEMMA PickInterval ==
    ASSUME NEW seq, NEW m \in Nat, NEW n \in Nat, m <= n
    PROVE  Pick(seq, (m + 1) .. n) = [k \in 1 .. n - m |-> seq[m + k]]
<1> DEFINE keep == (m + 1) .. n
           at(k) == CHOOSE i \in keep : Rank(keep, i) = k
<1>1. Cardinality(keep) = n - m
  <2>1. Cardinality(keep) = IF m + 1 > n THEN 0 ELSE n - (m + 1) + 1
    BY FS_Interval
  <2> QED
    BY <2>1
<1>2. ASSUME NEW i \in keep
      PROVE  Rank(keep, i) = i - m
  <2>1. {j \in keep : j <= i} = (m + 1) .. i
    OBVIOUS
  <2>2. Cardinality((m + 1) .. i) = i - m
    BY FS_Interval
  <2> QED
    BY <2>1, <2>2 DEF Rank
<1>3. ASSUME NEW k \in 1 .. n - m
      PROVE  at(k) = m + k
  <2>1. m + k \in keep /\ (m + k) - m = k /\ \A i \in keep : i - m = k => i = m + k
    OBVIOUS
  <2> HIDE DEF keep
  <2>2. Rank(keep, m + k) = k /\ \A i \in keep : Rank(keep, i) = k => i = m + k
    BY <1>2, <2>1
  <2> QED
    BY <2>1, <2>2
<1>4. Pick(seq, keep) = [k \in 1 .. Cardinality(keep) |-> seq[at(k)]]
  BY DEF Pick
<1> HIDE DEF at, keep
<1> QED
  BY <1>1, <1>3, <1>4 DEF keep

-----------------------------------------------------------------------------
(***************************************************************************)
(* Log records and page images                                             *)
(***************************************************************************)

\* The fields of a log record.
LEMMA RecordFields ==
    ASSUME NEW rec \in LogRecord
    PROVE  /\ rec.lsn \in 1 .. MaxLSN /\ rec.txn \in Txn
           /\ rec.type \in Change =>
                 /\ rec.page \in Page /\ rec.slot \in Slot
                 /\ rec.old \in Tuple \cup {NoTuple} /\ rec.new \in Tuple \cup {NoTuple}
BY DEF LogRecord, Change

\* The fields of a page image.
LEMMA ImageFields ==
    ASSUME NEW image \in PageImage
    PROVE  /\ image.page_lsn \in 0 .. MaxLSN /\ image.room \in 0 .. Room
           /\ image.slots \in [Slot -> Tuple \cup {NoTuple}]
BY DEF PageImage

\* Putting a tuple into a slot of an image with room.
LEMMA PutImage ==
    ASSUME NEW image \in PageImage, NEW s \in Slot, NEW tuple \in Tuple \cup {NoTuple},
           image.room > 0
    PROVE  /\ Put(image, s, tuple) \in PageImage
           /\ Put(image, s, tuple).page_lsn = image.page_lsn
           /\ Put(image, s, tuple).room = image.room - 1
           /\ Put(image, s, tuple).slots = [image.slots EXCEPT ![s] = tuple]
<1>1. image.room - 1 \in 0 .. Room
  BY RecoveryAssumption, ImageFields
<1>2. [image.slots EXCEPT ![s] = tuple] \in [Slot -> Tuple \cup {NoTuple}]
  BY ImageFields
<1> QED
  BY <1>1, <1>2 DEF Put, PageImage

\* Emptying a slot of an image.
LEMMA DeleteImage ==
    ASSUME NEW image \in PageImage, NEW s \in Slot
    PROVE  /\ DeleteTuple(image, s) \in PageImage
           /\ DeleteTuple(image, s).page_lsn = image.page_lsn
           /\ DeleteTuple(image, s).room = image.room
           /\ DeleteTuple(image, s).slots = [image.slots EXCEPT ![s] = NoTuple]
<1>1. [image.slots EXCEPT ![s] = NoTuple] \in [Slot -> Tuple \cup {NoTuple}]
  BY ImageFields
<1> QED
  BY <1>1 DEF DeleteTuple, PageImage

\* Stamping an image.
LEMMA StampImage ==
    ASSUME NEW image \in PageImage, NEW lsn \in 0 .. MaxLSN
    PROVE  /\ [image EXCEPT !.page_lsn = lsn] \in PageImage
           /\ [image EXCEPT !.page_lsn = lsn].page_lsn = lsn
           /\ [image EXCEPT !.page_lsn = lsn].room = image.room
           /\ [image EXCEPT !.page_lsn = lsn].slots = image.slots
BY DEF PageImage

\* An image after a change, done or taken back, keeps its stamp.
LEMMA ChangedImage ==
    ASSUME NEW image \in PageImage, NEW rec \in LogRecord, rec.type \in Change
    PROVE  /\ Do(image, rec) \in PageImage /\ Do(image, rec).page_lsn = image.page_lsn
           /\ TakeBack(image, rec) \in PageImage /\ TakeBack(image, rec).page_lsn = image.page_lsn
<1>1. rec.slot \in Slot /\ rec.old \in Tuple \cup {NoTuple} /\ rec.new \in Tuple \cup {NoTuple}
  BY RecordFields
<1>2. ASSUME NEW after, after = image \/ after = DeleteTuple(image, rec.slot)
                 \/ \E tuple \in {rec.old, rec.new} : image.room > 0 /\ after = Put(image, rec.slot, tuple)
      PROVE  after \in PageImage /\ after.page_lsn = image.page_lsn
  <2>1. CASE after = DeleteTuple(image, rec.slot)
    BY <1>1, <2>1, DeleteImage
  <2>2. ASSUME NEW tuple \in {rec.old, rec.new}, image.room > 0, after = Put(image, rec.slot, tuple)
        PROVE  after \in PageImage /\ after.page_lsn = image.page_lsn
    <3>1. tuple \in Tuple \cup {NoTuple}
      BY <1>1
    <3> QED
      BY <1>1, <2>2, <3>1, PutImage
  <2> QED
    BY <1>2, <2>1, <2>2
<1>3. \/ Do(image, rec) = image \/ Do(image, rec) = DeleteTuple(image, rec.slot)
      \/ image.room > 0 /\ Do(image, rec) = Put(image, rec.slot, rec.new)
  BY DEF Do, Change, InsertTupleAtSlot, UpdateTuple
<1>4. \/ TakeBack(image, rec) = image \/ TakeBack(image, rec) = DeleteTuple(image, rec.slot)
      \/ image.room > 0 /\ TakeBack(image, rec) = Put(image, rec.slot, rec.old)
  BY DEF TakeBack, Change, InsertTupleAtSlot, UpdateTuple
<1>5. Do(image, rec) \in PageImage /\ Do(image, rec).page_lsn = image.page_lsn
  BY <1>2, <1>3, Zenon
<1>6. TakeBack(image, rec) \in PageImage /\ TakeBack(image, rec).page_lsn = image.page_lsn
  BY <1>2, <1>4, Zenon
<1> QED
  BY <1>5, <1>6

\* A record that takes its slot from old to new.
Sound(rec) == rec.old # rec.new /\ rec.type = ChangeType(rec.old, rec.new)

\* Doing a change to a slot that holds its old tuple leaves its new one, which
\* takes room.
LEMMA DoEffect ==
    ASSUME NEW image \in PageImage, NEW rec \in LogRecord, rec.type \in Change, Sound(rec),
           image.slots[rec.slot] = rec.old, rec.new # NoTuple => image.room > 0
    PROVE  /\ Do(image, rec).slots = [image.slots EXCEPT ![rec.slot] = rec.new]
           /\ Do(image, rec).room = IF rec.new # NoTuple THEN image.room - 1 ELSE image.room
<1>1. rec.slot \in Slot /\ rec.old \in Tuple \cup {NoTuple} /\ rec.new \in Tuple \cup {NoTuple}
  BY RecordFields
<1>2. CASE rec.type = "INSERT"
  BY <1>1, <1>2, PutImage DEF Do, InsertTupleAtSlot, Sound, ChangeType
<1>3. CASE rec.type = "UPDATE"
  BY <1>1, <1>3, PutImage DEF Do, UpdateTuple, Sound, ChangeType
<1>4. CASE rec.type = "DELETE"
  BY <1>1, <1>4, DeleteImage DEF Do, Sound, ChangeType
<1> QED
  BY <1>2, <1>3, <1>4 DEF Change

\* Taking back a change from a slot that holds its new tuple leaves its old one.
LEMMA TakeBackEffect ==
    ASSUME NEW image \in PageImage, NEW rec \in LogRecord, rec.type \in Change, Sound(rec),
           image.slots[rec.slot] = rec.new, image.room > 0
    PROVE  TakeBack(image, rec).slots = [image.slots EXCEPT ![rec.slot] = rec.old]
<1>1. rec.slot \in Slot /\ rec.old \in Tuple \cup {NoTuple} /\ rec.new \in Tuple \cup {NoTuple}
  BY RecordFields
<1>2. CASE rec.type = "INSERT"
  BY <1>1, <1>2, DeleteImage DEF TakeBack, Sound, ChangeType
<1>3. CASE rec.type = "UPDATE"
  BY <1>1, <1>3, PutImage DEF TakeBack, UpdateTuple, Sound, ChangeType
<1>4. CASE rec.type = "DELETE"
  BY <1>1, <1>4, PutImage DEF TakeBack, InsertTupleAtSlot, Sound, ChangeType
<1> QED
  BY <1>2, <1>3, <1>4 DEF Change

\* On a full page an insertion is taken back like anywhere, and nothing else is.
LEMMA TakeBackFull ==
    ASSUME NEW image \in PageImage, NEW rec \in LogRecord, rec.type \in Change, image.room = 0
    PROVE  /\ TakeBack(image, rec).room = 0
           /\ TakeBack(image, rec).slots = IF rec.type = "INSERT"
                                           THEN [image.slots EXCEPT ![rec.slot] = NoTuple]
                                           ELSE image.slots
<1>1. rec.slot \in Slot
  BY RecordFields
<1>2. CASE rec.type = "INSERT"
  BY <1>1, <1>2, DeleteImage DEF TakeBack
<1>3. CASE rec.type # "INSERT"
  BY <1>3 DEF TakeBack, InsertTupleAtSlot, UpdateTuple, Change
<1> QED
  BY <1>2, <1>3

\* Only an old tuple put back takes room.
LEMMA TakeBackRoom ==
    ASSUME NEW image \in PageImage, NEW rec \in LogRecord, rec.type \in Change, Sound(rec)
    PROVE  image.room <= TakeBack(image, rec).room + (IF rec.old # NoTuple THEN 1 ELSE 0)
<1>1. rec.slot \in Slot /\ rec.old \in Tuple \cup {NoTuple}
  BY RecordFields
<1>2. image.room \in Nat
  BY ImageFields, RecoveryAssumption
<1>3. DeleteTuple(image, rec.slot).room = image.room
  BY <1>1, DeleteImage
<1>4. image.room > 0 => Put(image, rec.slot, rec.old).room = image.room - 1
  BY <1>1, PutImage
<1>5. rec.old = NoTuple <=> rec.type = "INSERT"
  BY DEF Sound, ChangeType
<1>6. CASE rec.type = "INSERT"
  <2>1. TakeBack(image, rec).room = image.room
    BY <1>3, <1>6 DEF TakeBack
  <2> QED
    BY <1>2, <1>5, <1>6, <2>1
<1>7. CASE rec.type # "INSERT"
  <2>1. TakeBack(image, rec) = image \/ (image.room > 0 /\ TakeBack(image, rec) = Put(image, rec.slot, rec.old))
    BY <1>7 DEF TakeBack, InsertTupleAtSlot, UpdateTuple, Change
  <2>2. TakeBack(image, rec).room = image.room \/ TakeBack(image, rec).room = image.room - 1
    BY <1>4, <2>1
  <2> QED
    BY <1>2, <1>5, <1>7, <2>2
<1> QED
  BY <1>6, <1>7

-----------------------------------------------------------------------------
(***************************************************************************)
(* The log in memory and on disk                                           *)
(***************************************************************************)

\* The whole log is the log on disk followed by the buffer.
LEMMA WholeLogIs ==
    ASSUME log_buffer \in Seq(LogRecord), disk_log \in Seq(LogRecord)
    PROVE  /\ WholeLog \in Seq(LogRecord)
           /\ Len(WholeLog) = Len(disk_log) + Len(log_buffer)
           /\ Len(disk_log) \in Nat /\ Len(log_buffer) \in Nat
           /\ \A i \in 1 .. Len(disk_log) : WholeLog[i] = disk_log[i]
           /\ \A i \in 1 .. Len(log_buffer) : WholeLog[Len(disk_log) + i] = log_buffer[i]
           /\ log_buffer = <<>> => WholeLog = disk_log
BY DEF WholeLog

\* A log in LSN order has no more records than LSNs.
LEMMA LogBounded ==
    ASSUME NEW log \in Seq(LogRecord),
           \A i, j \in 1 .. Len(log) : i < j => log[i].lsn < log[j].lsn
    PROVE  Len(log) \in Nat /\ Len(log) <= MaxLSN
<1>1. Len(log) \in Nat /\ MaxLSN \in Nat
  BY RecoveryAssumption
<1>2. \A i \in 1 .. Len(log) : log[i].lsn \in 1 .. MaxLSN
  BY RecordFields
<1> DEFINE bad == {i \in 1 .. Len(log) : log[i].lsn < i}
<1>3. bad = {}
  <2> SUFFICES ASSUME bad # {} PROVE FALSE
    OBVIOUS
  <2>1. bad \in SUBSET Nat
    BY <1>1
  <2>2. PICK i \in bad : \A k \in bad : i <= k
    BY <2>1, LeastNumber
  <2>3. i \in 1 .. Len(log) /\ log[i].lsn < i /\ i \in Nat
    BY <1>1, <2>2
  <2>4. CASE i = 1
    BY <1>2, <2>3, <2>4
  <2>5. CASE i # 1
    <3>1. i - 1 \in 1 .. Len(log) /\ i - 1 < i /\ i - 1 \notin bad
      BY <1>1, <2>2, <2>3, <2>5
    <3>2. log[i - 1].lsn >= i - 1 /\ log[i - 1].lsn < log[i].lsn
      BY <1>1, <1>2, <2>3, <3>1
    <3> QED
      BY <1>2, <2>3, <3>1, <3>2
  <2> QED
    BY <2>4, <2>5
<1>4. CASE Len(log) = 0
  BY <1>1, <1>4
<1>5. CASE Len(log) # 0
  <2>1. Len(log) \in 1 .. Len(log)
    BY <1>1, <1>5
  <2>2. log[Len(log)].lsn >= Len(log)
    BY <1>1, <1>2, <1>3, <2>1
  <2> QED
    BY <1>1, <1>2, <2>1, <2>2
<1> QED
  BY <1>1, <1>4, <1>5

\* A sequence is what comes before a position followed by what comes after.
LEMMA SplitSequence ==
    ASSUME NEW S, NEW seq \in Seq(S), NEW i \in 0 .. Len(seq)
    PROVE  seq = [k \in 1 .. i |-> seq[k]] \o [k \in 1 .. Len(seq) - i |-> seq[i + k]]
<1> DEFINE a == [k \in 1 .. i |-> seq[k]]
           b == [k \in 1 .. Len(seq) - i |-> seq[i + k]]
           n == Len(seq)
<1>1. n \in Nat /\ i \in Nat /\ i <= n /\ \A k \in 1 .. n : seq[k] \in S
  OBVIOUS
<1>2. a \in Seq(S) /\ Len(a) = i /\ \A k \in 1 .. i : a[k] = seq[k]
  BY <1>1
<1>3. b \in Seq(S) /\ Len(b) = n - i /\ \A k \in 1 .. n - i : b[k] = seq[i + k]
  <2>1. n - i \in Nat /\ \A k \in 1 .. n - i : i + k \in 1 .. n
    BY <1>1
  <2> QED
    BY <1>1, <2>1
<1> HIDE DEF a, b
<1>4. /\ a \o b \in Seq(S) /\ Len(a \o b) = Len(a) + Len(b)
      /\ \A k \in 1 .. Len(a) + Len(b) : (a \o b)[k] = IF k <= Len(a) THEN a[k] ELSE b[k - Len(a)]
  BY <1>2, <1>3, ConcatProperties, Zenon
<1>5. ASSUME NEW k \in 1 .. n PROVE seq[k] = (a \o b)[k]
  <2>1. (a \o b)[k] = IF k <= i THEN a[k] ELSE b[k - i]
    BY <1>1, <1>2, <1>3, <1>4
  <2>2. k \in Nat /\ (k <= i => k \in 1 .. i)
        /\ (~(k <= i) => k - i \in 1 .. n - i /\ i + (k - i) = k)
    BY <1>1
  <2> QED
    BY <1>2, <1>3, <2>1, <2>2
<1>6. Len(a \o b) = n
  BY <1>1, <1>2, <1>3, <1>4
<1>7. seq = a \o b
  BY <1>4, <1>5, <1>6, SeqEqual, Zenon
<1> QED
  BY <1>7 DEF a, b

\* flush() moves the records up to an LSN from the buffer to the disk: the
\* whole log stays as it is.
LEMMA FlushMoves ==
    ASSUME LogInvariant, NEW i \in 1 .. Len(log_buffer), FlushTo(log_buffer[i].lsn)
    PROVE  /\ log_buffer' \in Seq(LogRecord) /\ disk_log' \in Seq(LogRecord)
           /\ Len(disk_log') = Len(disk_log) + i /\ Len(log_buffer') = Len(log_buffer) - i
           /\ \A k \in 1 .. Len(log_buffer') : log_buffer'[k] = log_buffer[i + k]
           /\ \A k \in 1 .. Len(disk_log) : disk_log'[k] = disk_log[k]
           /\ WholeLog' = WholeLog
           /\ persistent_lsn' = log_buffer[i].lsn
<1>1. log_buffer \in Seq(LogRecord) /\ disk_log \in Seq(LogRecord)
  BY DEF LogInvariant, TypeOK
<1> DEFINE n == Len(log_buffer)
           lsn == log_buffer[i].lsn
<1>2. /\ n \in Nat /\ i \in Nat /\ i <= n /\ Len(disk_log) \in Nat
      /\ \A j \in 1 .. n : log_buffer[j].lsn \in Int
  BY <1>1, RecordFields, RecoveryAssumption
<1>3. ASSUME NEW j \in 1 .. n, NEW k \in 1 .. n, j < k
      PROVE  log_buffer[j].lsn < log_buffer[k].lsn
  <2>1. /\ Len(disk_log) + j \in 1 .. Len(WholeLog) /\ Len(disk_log) + k \in 1 .. Len(WholeLog)
        /\ Len(disk_log) + j < Len(disk_log) + k
    BY <1>1, <1>2, <1>3, WholeLogIs
  <2>2. WholeLog[Len(disk_log) + j].lsn < WholeLog[Len(disk_log) + k].lsn
    BY <2>1 DEF LogInvariant, FinishedOnDisk
  <2> QED
    BY <1>1, <2>2, WholeLogIs
<1>4. {j \in 1 .. n : log_buffer[j].lsn <= lsn} = 1 .. i
  <2>1. ASSUME NEW j \in 1 .. n PROVE log_buffer[j].lsn <= lsn <=> j <= i
    <3>1. j < i => log_buffer[j].lsn < lsn
      BY <1>3
    <3>2. i < j => lsn < log_buffer[j].lsn
      BY <1>3
    <3> QED
      BY <1>2, <3>1, <3>2
  <2> QED
    BY <1>2, <2>1
<1>5. {j \in 1 .. n : log_buffer[j].lsn > lsn} = (i + 1) .. n
  <2>1. ASSUME NEW j \in 1 .. n PROVE log_buffer[j].lsn > lsn <=> j > i
    <3>1. j < i => log_buffer[j].lsn < lsn
      BY <1>3
    <3>2. i < j => lsn < log_buffer[j].lsn
      BY <1>3
    <3> QED
      BY <1>2, <3>1, <3>2
  <2> QED
    BY <1>2, <2>1
<1> DEFINE moved == [k \in 1 .. i |-> log_buffer[k]]
           left == [k \in 1 .. n - i |-> log_buffer[i + k]]
<1>6. Pick(log_buffer, 1 .. i) = moved
  <2>1. 0 \in Nat /\ i \in Nat /\ 0 <= i /\ 0 + 1 = 1 /\ i - 0 = i
    BY <1>1, <1>2
  <2>2. Pick(log_buffer, (0 + 1) .. i) = [k \in 1 .. i - 0 |-> log_buffer[0 + k]]
    BY <2>1, PickInterval
  <2> QED
    BY <2>1, <2>2
<1>7. Pick(log_buffer, (i + 1) .. n) = left
  <2>1. i \in Nat /\ n \in Nat /\ i <= n
    BY <1>1, <1>2
  <2> QED
    BY <2>1, PickInterval
<1>8. disk_log' = disk_log \o moved /\ log_buffer' = left
  BY <1>4, <1>5, <1>6, <1>7 DEF FlushTo
<1>9. moved \in Seq(LogRecord) /\ Len(moved) = i /\ \A k \in 1 .. i : moved[k] = log_buffer[k]
  BY <1>1, <1>2
<1>10. /\ left \in Seq(LogRecord) /\ Len(left) = n - i
       /\ \A k \in 1 .. n - i : left[k] = log_buffer[i + k]
  <2>1. n - i \in Nat /\ \A k \in 1 .. n - i : i + k \in 1 .. n
    BY <1>2
  <2>2. \A k \in 1 .. n - i : log_buffer[i + k] \in LogRecord
    BY <1>1, <2>1
  <2> HIDE DEF n
  <2> QED
    BY <2>1, <2>2
<1>11. log_buffer = moved \o left
  <2>1. i \in 0 .. Len(log_buffer)
    BY <1>2
  <2> QED
    BY <1>1, <2>1, SplitSequence, Zenon
<1> HIDE DEF moved, left
<1>12. WholeLog' = WholeLog
  <2>1. WholeLog' = (disk_log \o moved) \o left
    BY <1>8 DEF WholeLog
  <2>2. (disk_log \o moved) \o left = disk_log \o (moved \o left)
    <3>1. disk_log \in Seq(LogRecord) /\ moved \in Seq(LogRecord) /\ left \in Seq(LogRecord)
      BY <1>1, <1>9, <1>10
    <3> QED
      BY <3>1, ConcatAssociative
  <2> QED
    BY <1>11, <2>1, <2>2 DEF WholeLog
<1>13. persistent_lsn' = lsn
  <2>1. lsn > persistent_lsn
    BY DEF LogInvariant, FinishedOnDisk
  <2> QED
    BY <2>1 DEF FlushTo
<1>14. disk_log' \in Seq(LogRecord) /\ Len(disk_log') = Len(disk_log) + i
       /\ \A k \in 1 .. Len(disk_log) : disk_log'[k] = disk_log[k]
  <2>1. /\ disk_log \o moved \in Seq(LogRecord)
        /\ Len(disk_log \o moved) = Len(disk_log) + Len(moved)
        /\ \A k \in 1 .. Len(disk_log) + Len(moved) : (disk_log \o moved)[k] =
              IF k <= Len(disk_log) THEN disk_log[k] ELSE moved[k - Len(disk_log)]
    BY <1>1, <1>9, ConcatProperties, Zenon
  <2> QED
    BY <1>2, <1>8, <1>9, <2>1
<1> QED
  BY <1>2, <1>8, <1>10, <1>12, <1>13, <1>14

\* append() adds a record with the next LSN at the end of the whole log.
LEMMA AppendAdds ==
    ASSUME LogInvariant, NEW rec \in LogRecord, rec.lsn = next_lsn, AppendRecord(rec)
    PROVE  /\ log_buffer' \in Seq(LogRecord) /\ disk_log' = disk_log
           /\ WholeLog' = Append(WholeLog, rec)
           /\ Len(WholeLog') = Len(WholeLog) + 1 /\ Len(WholeLog) \in Nat
           /\ WholeLog'[Len(WholeLog) + 1] = rec
           /\ \A k \in 1 .. Len(WholeLog) : WholeLog'[k] = WholeLog[k]
<1>1. log_buffer \in Seq(LogRecord) /\ disk_log \in Seq(LogRecord)
  BY DEF LogInvariant, TypeOK
<1>2. log_buffer' = Append(log_buffer, rec) /\ disk_log' = disk_log
  BY DEF AppendRecord
<1>3. WholeLog' = Append(WholeLog, rec)
  BY <1>1, <1>2 DEF WholeLog
<1>4. WholeLog \in Seq(LogRecord)
  BY <1>1, WholeLogIs
<1> QED
  BY <1>1, <1>2, <1>3, <1>4

\* Finishing transactions, after a record is appended.
LEMMA FinishedAppend ==
    ASSUME LogInvariant, NEW rec \in LogRecord, rec.lsn = next_lsn, AppendRecord(rec), NEW t
    PROVE  Finished(WholeLog', t) <=> Finished(WholeLog, t) \/ IsFinish(rec, t)
<1> DEFINE n == Len(WholeLog)
<1>1. /\ n \in Nat /\ Len(WholeLog') = n + 1 /\ WholeLog'[n + 1] = rec
      /\ \A k \in 1 .. n : WholeLog'[k] = WholeLog[k]
  BY AppendAdds
<1>2. \A i \in 1 .. n + 1 : i = n + 1 \/ i \in 1 .. n
  BY <1>1
<1>3. n + 1 \in 1 .. n + 1 /\ \A i \in 1 .. n : i \in 1 .. n + 1
  BY <1>1
<1> QED
  BY <1>1, <1>2, <1>3 DEF Finished

\* Appending a record of a transaction that has not finished keeps the log in
\* order and the records of finished transactions on disk.
LEMMA AppendKeepsLog ==
    ASSUME LogInvariant, NEW u \in Txn, NEW rec \in LogRecord, rec.lsn = next_lsn, rec.txn = u,
           AppendRecord(rec), UNCHANGED history,
           status' \in [Txn -> {"none", "active", "finished"}],
           \A t \in Txn \ {u} : status'[t] = status[t],
           status[u] \in {"none", "active"}, status'[u] \in {"active", "finished"},
           status'[u] = "active" => rec.type \notin {"COMMIT", "ABORT"}
    PROVE  /\ FinishedOnDisk' /\ LogInOrder'
           /\ next_lsn' \in 1 .. MaxLSN + 1 /\ persistent_lsn' \in 0 .. MaxLSN
           /\ log_buffer' \in Seq(LogRecord) /\ disk_log' \in Seq(LogRecord)
<1> DEFINE n == Len(WholeLog)
           W == WholeLog
           V == WholeLog'
<1>1. /\ log_buffer \in Seq(LogRecord) /\ disk_log \in Seq(LogRecord)
      /\ next_lsn \in 1 .. MaxLSN + 1 /\ persistent_lsn \in 0 .. MaxLSN /\ MaxLSN \in Nat
      /\ next_lsn <= MaxLSN /\ next_lsn' = next_lsn + 1 /\ persistent_lsn' = persistent_lsn
      /\ log_buffer' = Append(log_buffer, rec) /\ lost' = lost /\ lost \in SUBSET ((1 .. MaxLSN) \X Txn)
  BY RecoveryAssumption DEF LogInvariant, TypeOK, AppendRecord, history
<1>2. /\ disk_log' = disk_log /\ n \in Nat /\ Len(V) = n + 1 /\ V[n + 1] = rec
      /\ \A k \in 1 .. n : V[k] = W[k]
  BY AppendAdds
<1>3. W \in Seq(LogRecord) /\ \A k \in 1 .. n : W[k].lsn \in Int /\ W[k].lsn < next_lsn /\ W[k].txn \in Txn
  BY <1>1, WholeLogIs, RecordFields DEF LogInvariant, LogInOrder
<1>4. persistent_lsn < next_lsn
  BY DEF LogInvariant, LogInOrder
<1>5. ASSUME NEW k \in 1 .. Len(log_buffer') PROVE log_buffer'[k].lsn > persistent_lsn'
  <2>1. CASE k \in 1 .. Len(log_buffer)
    BY <1>1, <2>1 DEF LogInvariant, FinishedOnDisk
  <2>2. CASE k = Len(log_buffer) + 1
    BY <1>1, <1>4, <2>2
  <2> QED
    BY <1>1, <2>1, <2>2
<1>6. \A t : Finished(V, t) <=> Finished(W, t) \/ IsFinish(rec, t)
  BY FinishedAppend
<1>7. /\ \A k \in 1 .. n : /\ status[W[k].txn] # "none"
                           /\ status[W[k].txn] = "active" => W[k].type \notin {"COMMIT", "ABORT"}
      /\ \A j, k \in 1 .. n : IsFinish(W[k], W[j].txn) => j <= k
      /\ \A j, k \in 1 .. n : j < k => W[j].lsn < W[k].lsn
      /\ \A r \in lost : status[r[2]] = "finished" /\ ~Finished(W, r[2]) /\ ~Finished(disk_log, r[2])
      /\ \A l \in 1 .. next_lsn - 1 : (\E k \in 1 .. n : W[k].lsn = l) \/ \E t \in Txn : <<l, t>> \in lost
  BY DEF LogInvariant, LogInOrder, FinishedOnDisk
<1> HIDE DEF n, W, V
<1>8. ASSUME NEW j \in 1 .. n + 1, NEW k \in 1 .. n + 1, j < k PROVE V[j].lsn < V[k].lsn
  <2>1. j \in 1 .. n
    BY <1>2, <1>8
  <2>2. CASE k = n + 1
    BY <1>2, <1>3, <2>1, <2>2
  <2>3. CASE k # n + 1
    <3>1. k \in 1 .. n
      BY <1>2, <2>3
    <3> QED
      BY <1>2, <1>7, <1>8, <2>1, <3>1
  <2> QED
    BY <2>2, <2>3
<1>9. ASSUME NEW l \in 1 .. next_lsn' - 1
      PROVE  (\E k \in 1 .. n + 1 : V[k].lsn = l) \/ \E t \in Txn : <<l, t>> \in lost
  <2>1. CASE l = next_lsn
    <3>1. n + 1 \in 1 .. n + 1
      BY <1>2
    <3> QED
      BY <1>2, <2>1, <3>1
  <2>2. CASE l # next_lsn
    <3>1. l \in 1 .. next_lsn - 1 /\ \A k \in 1 .. n : k \in 1 .. n + 1
      BY <1>1, <1>2, <2>2
    <3> QED
      BY <1>2, <1>7, <3>1
  <2> QED
    BY <2>1, <2>2
<1>10. FinishedOnDisk'
  <2>1. \A r \in lost : ~Finished(disk_log', r[2])
    BY <1>2, <1>7
  <2> QED
    BY <1>1, <1>2, <1>5, <1>8, <1>9, <2>1 DEF FinishedOnDisk, V
<1>11. ASSUME NEW k \in 1 .. n + 1
       PROVE  /\ V[k].lsn < next_lsn' /\ status'[V[k].txn] # "none"
              /\ status'[V[k].txn] = "active" => V[k].type \notin {"COMMIT", "ABORT"}
  <2>1. CASE k = n + 1
    <3>1. V[k] = rec
      BY <1>2, <2>1
    <3> QED
      BY <1>1, <3>1
  <2>2. CASE k # n + 1
    <3>1. k \in 1 .. n /\ V[k] = W[k]
      BY <1>2, <2>2
    <3>2. W[k].lsn < next_lsn'
      BY <1>1, <1>3, <3>1
    <3>3. CASE W[k].txn = u
      BY <1>7, <3>1, <3>2, <3>3
    <3>4. CASE W[k].txn # u
      BY <1>3, <1>7, <3>1, <3>2, <3>4
    <3> QED
      BY <3>3, <3>4
  <2> QED
    BY <2>1, <2>2
<1>12. ASSUME NEW j \in 1 .. n + 1, NEW k \in 1 .. n + 1, IsFinish(V[k], V[j].txn) PROVE j <= k
  <2>1. CASE k = n + 1
    BY <1>2, <2>1
  <2>2. CASE k # n + 1
    <3>1. k \in 1 .. n /\ V[k] = W[k]
      BY <1>2, <2>2
    <3>2. CASE j = n + 1
      <4>1. V[j].txn = u
        BY <1>2, <3>2
      <4>2. W[k].txn = u /\ W[k].type \in {"COMMIT", "ABORT"}
        BY <1>12, <3>1, <4>1 DEF IsFinish
      <4> QED
        BY <1>7, <3>1, <4>2
    <3>3. CASE j # n + 1
      <4>1. j \in 1 .. n /\ V[j] = W[j]
        BY <1>2, <3>3
      <4> QED
        BY <1>7, <1>12, <3>1, <4>1
    <3> QED
      BY <3>2, <3>3
  <2> QED
    BY <2>1, <2>2
<1>13. ASSUME NEW r \in lost PROVE status'[r[2]] = "finished" /\ ~Finished(V, r[2])
  <2>1. r[2] \in Txn /\ r[2] # u
    BY <1>1, <1>7
  <2> QED
    BY <1>6, <1>7, <2>1 DEF IsFinish
<1>14. persistent_lsn' < next_lsn'
  BY <1>1, <1>4
<1>15. LogInOrder'
  BY <1>1, <1>2, <1>11, <1>12, <1>13, <1>14 DEF LogInOrder, V
<1> QED
  BY <1>1, <1>2, <1>10, <1>15

-----------------------------------------------------------------------------
(***************************************************************************)
(* The log invariant                                                       *)
(***************************************************************************)

\* The marks and change records that callers append are log records.
LEMMA RecordsAppended ==
    ASSUME TypeOK, next_lsn <= MaxLSN, NEW t \in Txn
    PROVE  /\ \A type \in {"BEGIN", "COMMIT", "ABORT"} : Mark(type, t) \in LogRecord
           /\ \A p \in Page, s \in Slot, new \in Tuple \cup {NoTuple} :
                 /\ ChangeRecord(t, p, s, new) \in LogRecord
                 /\ ChangeRecord(t, p, s, new).type \in Change
                 /\ ChangeRecord(t, p, s, new).lsn = next_lsn
                 /\ ChangeRecord(t, p, s, new).txn = t
<1>1. next_lsn \in 1 .. MaxLSN
  BY RecoveryAssumption DEF TypeOK
<1>2. ASSUME NEW p \in Page, NEW s \in Slot, NEW new \in Tuple \cup {NoTuple}
      PROVE  /\ ChangeRecord(t, p, s, new) \in LogRecord
             /\ ChangeRecord(t, p, s, new).type \in Change
             /\ ChangeRecord(t, p, s, new).lsn = next_lsn
             /\ ChangeRecord(t, p, s, new).txn = t
  <2>1. pool[p].slots[s] \in Tuple \cup {NoTuple}
    <3>1. pool[p] \in PageImage
      BY DEF TypeOK
    <3> QED
      BY <3>1, ImageFields
  <2>2. ChangeType(pool[p].slots[s], new) \in Change
    BY DEF ChangeType, Change
  <2> QED
    BY <1>1, <2>1, <2>2 DEF ChangeRecord, LogRecord
<1>3. \A type \in {"BEGIN", "COMMIT", "ABORT"} : Mark(type, t) \in LogRecord
  BY <1>1 DEF Mark, LogRecord
<1> QED
  BY <1>2, <1>3

\* Beginning and finishing a transaction keep the log invariant.
LEMMA MarkKeepsLog ==
    ASSUME LogInvariant, NEW t \in Txn, NEW type \in {"BEGIN", "COMMIT", "ABORT"},
           AppendRecord(Mark(type, t)),
           status' = [status EXCEPT ![t] = IF type = "BEGIN" THEN "active" ELSE "finished"],
           status[t] = IF type = "BEGIN" THEN "none" ELSE "active",
           UNCHANGED <<pool, dirty, disk, recoveryVars, history>>
    PROVE  LogInvariant'
<1>1. /\ Mark(type, t) \in LogRecord /\ Mark(type, t).lsn = next_lsn
      /\ Mark(type, t).txn = t /\ Mark(type, t).type = type
  BY RecordsAppended DEF LogInvariant, AppendRecord, Mark
<1>2. /\ status' \in [Txn -> {"none", "active", "finished"}]
      /\ \A u \in Txn \ {t} : status'[u] = status[u]
      /\ status'[t] = IF type = "BEGIN" THEN "active" ELSE "finished"
  BY DEF LogInvariant, TypeOK
<1>3. /\ FinishedOnDisk' /\ LogInOrder'
      /\ next_lsn' \in 1 .. MaxLSN + 1 /\ persistent_lsn' \in 0 .. MaxLSN
      /\ log_buffer' \in Seq(LogRecord) /\ disk_log' \in Seq(LogRecord)
  <2>1. status[t] \in {"none", "active"} /\ status'[t] \in {"active", "finished"}
        /\ (status'[t] = "active" => Mark(type, t).type \notin {"COMMIT", "ABORT"})
    BY <1>1, <1>2
  <2>2. UNCHANGED history
    OBVIOUS
  <2> QED
    BY <1>1, <1>2, <2>1, <2>2, AppendKeepsLog
<1>4. TypeOK'
  BY <1>2, <1>3 DEF LogInvariant, TypeOK, recoveryVars, history
<1>5. PosInLog'
  BY DEF LogInvariant, PosInLog, AppendRecord, recoveryVars
<1> QED
  BY <1>3, <1>4, <1>5 DEF LogInvariant

\* A change of a tuple keeps the log invariant.
LEMMA ChangeKeepsLog ==
    ASSUME LogInvariant, NEW t \in Txn, NEW p \in Page, NEW s \in Slot,
           NEW new \in Tuple \cup {NoTuple}, ChangeTuple(t, p, s, new)
    PROVE  LogInvariant'
<1> DEFINE rec == ChangeRecord(t, p, s, new)
           image == [Do(pool[p], rec) EXCEPT !.page_lsn = next_lsn]
<1>1. rec \in LogRecord /\ rec.type \in Change /\ rec.lsn = next_lsn /\ rec.txn = t
  BY RecordsAppended DEF LogInvariant, AppendRecord, ChangeTuple
<1> HIDE DEF rec
<1>2. /\ AppendRecord(rec) /\ disk' = disk /\ dirty' = dirty \cup {p} /\ status' = status
      /\ pool' = [pool EXCEPT ![p] = image] /\ UNCHANGED <<recoveryVars, history>>
      /\ status[t] = "active"
  BY DEF ChangeTuple, rec
<1>3. pool[p] \in PageImage /\ pool \in [Page -> PageImage] /\ next_lsn \in 0 .. MaxLSN
      /\ status \in [Txn -> {"none", "active", "finished"}]
  BY <1>2, RecoveryAssumption DEF LogInvariant, TypeOK, AppendRecord
<1>4. image \in PageImage
  BY <1>1, <1>3, ChangedImage, StampImage
<1> HIDE DEF image
<1>5. pool' \in [Page -> PageImage]
  BY <1>2, <1>3, <1>4
<1>6. /\ FinishedOnDisk' /\ LogInOrder'
      /\ next_lsn' \in 1 .. MaxLSN + 1 /\ persistent_lsn' \in 0 .. MaxLSN
      /\ log_buffer' \in Seq(LogRecord) /\ disk_log' \in Seq(LogRecord)
  <2>1. rec.type \notin {"COMMIT", "ABORT"}
    BY <1>1 DEF Change
  <2>2. /\ status' \in [Txn -> {"none", "active", "finished"}]
        /\ \A u \in Txn \ {t} : status'[u] = status[u]
        /\ status[t] \in {"none", "active"} /\ status'[t] \in {"active", "finished"}
    BY <1>2, <1>3
  <2> QED
    BY <1>1, <1>2, <2>1, <2>2, AppendKeepsLog
<1>7. TypeOK'
  BY <1>2, <1>5, <1>6 DEF LogInvariant, TypeOK, recoveryVars, history
<1>8. PosInLog'
  BY <1>2 DEF LogInvariant, PosInLog, AppendRecord, recoveryVars
<1> QED
  BY <1>6, <1>7, <1>8 DEF LogInvariant

\* flush() keeps the log invariant.
LEMMA FlushKeepsLog ==
    ASSUME LogInvariant, NEW i \in 1 .. Len(log_buffer), Flush(i)
    PROVE  LogInvariant'
<1>1. /\ FlushTo(log_buffer[i].lsn) /\ UNCHANGED <<next_lsn, status, pool, dirty, disk, recoveryVars, history>>
      /\ lost' = lost
  BY DEF Flush, history
<1>2. log_buffer \in Seq(LogRecord) /\ disk_log \in Seq(LogRecord)
  BY DEF LogInvariant, TypeOK
<1>3. /\ log_buffer' \in Seq(LogRecord) /\ disk_log' \in Seq(LogRecord)
      /\ Len(disk_log') = Len(disk_log) + i /\ Len(log_buffer') = Len(log_buffer) - i
      /\ \A k \in 1 .. Len(log_buffer') : log_buffer'[k] = log_buffer[i + k]
      /\ \A k \in 1 .. Len(disk_log) : disk_log'[k] = disk_log[k]
      /\ WholeLog' = WholeLog /\ persistent_lsn' = log_buffer[i].lsn
  BY <1>1, FlushMoves
<1>4. persistent_lsn' \in 1 .. MaxLSN
  BY <1>2, <1>3, RecordFields
<1>5. TypeOK'
  <2>1. persistent_lsn' \in 0 .. MaxLSN
    BY <1>4, RecoveryAssumption
  <2> QED
    BY <1>1, <1>3, <2>1 DEF LogInvariant, TypeOK, recoveryVars, history
<1>6. Len(disk_log) \in Nat /\ Len(log_buffer) \in Nat /\ Len(WholeLog) = Len(disk_log) + Len(log_buffer)
  BY <1>2, WholeLogIs
<1>7. persistent_lsn' < next_lsn'
  <2>1. Len(disk_log) + i \in 1 .. Len(WholeLog)
    BY <1>6
  <2>2. WholeLog[Len(disk_log) + i].lsn < next_lsn
    BY <2>1 DEF LogInvariant, LogInOrder
  <2> QED
    BY <1>1, <1>2, <1>3, <2>2, WholeLogIs
<1>8. ASSUME NEW k \in 1 .. Len(log_buffer') PROVE log_buffer'[k].lsn > persistent_lsn'
  <2>1. /\ Len(disk_log) + i \in 1 .. Len(WholeLog) /\ Len(disk_log) + (i + k) \in 1 .. Len(WholeLog)
        /\ Len(disk_log) + i < Len(disk_log) + (i + k) /\ i + k \in 1 .. Len(log_buffer)
    BY <1>3, <1>6
  <2>2. WholeLog[Len(disk_log) + i].lsn < WholeLog[Len(disk_log) + (i + k)].lsn
    BY <2>1 DEF LogInvariant, FinishedOnDisk
  <2>3. log_buffer[i].lsn < log_buffer[i + k].lsn
    BY <1>2, <2>1, <2>2, WholeLogIs
  <2>4. log_buffer[i].lsn \in Int /\ log_buffer[i + k].lsn \in Int
    <3>1. log_buffer[i] \in LogRecord /\ log_buffer[i + k] \in LogRecord
      BY <1>2, <2>1
    <3> QED
      BY <3>1, RecordFields, RecoveryAssumption
  <2> QED
    BY <1>3, <2>3, <2>4
<1>9. ASSUME NEW r \in lost PROVE ~Finished(disk_log', r[2])
  <2>1. ~Finished(WholeLog, r[2])
    BY DEF LogInvariant, LogInOrder
  <2>2. \A k \in 1 .. Len(disk_log') : k \in 1 .. Len(WholeLog') /\ WholeLog'[k] = disk_log'[k]
    <3>1. disk_log' \in Seq(LogRecord) /\ log_buffer' \in Seq(LogRecord)
      BY <1>3
    <3> QED
      BY <3>1 DEF WholeLog
  <2> QED
    BY <1>3, <2>1, <2>2 DEF Finished
<1>10. FinishedOnDisk'
  <2>1. \A l \in 1 .. next_lsn' - 1 :
           \/ \E k \in 1 .. Len(WholeLog') : WholeLog'[k].lsn = l
           \/ \E t \in Txn : <<l, t>> \in lost'
    BY <1>1, <1>3 DEF LogInvariant, FinishedOnDisk
  <2>2. \A k, l \in 1 .. Len(WholeLog') : k < l => WholeLog'[k].lsn < WholeLog'[l].lsn
    BY <1>3 DEF LogInvariant, FinishedOnDisk
  <2> QED
    BY <1>1, <1>8, <1>9, <2>1, <2>2 DEF FinishedOnDisk
<1>11. LogInOrder'
  BY <1>1, <1>3, <1>7 DEF LogInvariant, LogInOrder
<1>12. PosInLog'
  BY DEF Flush, PosInLog, recoveryVars
<1> QED
  BY <1>5, <1>10, <1>11, <1>12 DEF LogInvariant

\* A step that leaves the log and the transactions alone keeps the log invariant.
LEMMA OtherKeepsLog ==
    ASSUME LogInvariant, TypeOK', PosInLog', UNCHANGED <<logVars, status>>, lost' = lost
    PROVE  LogInvariant'
<1>1. /\ next_lsn' = next_lsn /\ persistent_lsn' = persistent_lsn
      /\ log_buffer' = log_buffer /\ disk_log' = disk_log /\ status' = status
  BY DEF logVars
<1>2. WholeLog' = WholeLog
  BY <1>1 DEF WholeLog
<1>3. FinishedOnDisk'
  BY <1>1, <1>2 DEF LogInvariant, FinishedOnDisk
<1>4. LogInOrder'
  BY <1>1, <1>2 DEF LogInvariant, LogInOrder
<1> QED
  BY <1>3, <1>4 DEF LogInvariant

\* Writing and evicting a page keep the log invariant.
LEMMA PagesKeepLog ==
    ASSUME LogInvariant, NEW p \in Page, WritePage(p) \/ EvictPage(p)
    PROVE  LogInvariant'
<1>1. UNCHANGED <<logVars, status, recoveryVars, resumed>> /\ lost' = lost
  BY DEF WritePage, EvictPage, history
<1>2. pool \in [Page -> PageImage] /\ disk \in [Page -> PageImage] /\ dirty \subseteq Page /\ reread \subseteq Page
  BY DEF LogInvariant, TypeOK
<1>3. /\ pool' \in [Page -> PageImage] /\ disk' \in [Page -> PageImage]
      /\ dirty' \subseteq Page /\ reread' \subseteq Page
  <2>1. CASE WritePage(p)
    BY <1>2, <2>1 DEF WritePage, history
  <2>2. CASE EvictPage(p)
    BY <1>2, <2>2 DEF EvictPage
  <2> QED
    BY <2>1, <2>2
<1>4. TypeOK'
  BY <1>1, <1>3 DEF LogInvariant, TypeOK, logVars, recoveryVars
<1>5. PosInLog'
  BY <1>1 DEF LogInvariant, PosInLog, recoveryVars, logVars
<1> QED
  BY <1>1, <1>4, <1>5, OtherKeepsLog

\* A crash keeps the log invariant: what the buffer held is lost, and no
\* transaction that lost a record has its COMMIT or ABORT on disk, because that
\* is its last record.
LEMMA CrashKeepsLog ==
    ASSUME LogInvariant, Crash
    PROVE  LogInvariant' /\ WholeLog' = disk_log
<1> DEFINE Taken == {<<log_buffer[i].lsn, log_buffer[i].txn>> : i \in 1 .. Len(log_buffer)}
<1>1. /\ phase' = "crashed" /\ log_buffer' = <<>> /\ pool' = disk /\ dirty' = {}
      /\ status' = [t \in Txn |-> IF status[t] = "active" THEN "finished" ELSE status[t]]
      /\ reread' = {} /\ lost' = lost \cup Taken
      /\ UNCHANGED <<next_lsn, persistent_lsn, disk_log, disk, pos, active_txns, resumed>>
  BY DEF Crash
<1>2. /\ log_buffer \in Seq(LogRecord) /\ disk_log \in Seq(LogRecord)
      /\ lost \in SUBSET ((1 .. MaxLSN) \X Txn) /\ status \in [Txn -> {"none", "active", "finished"}]
  BY DEF LogInvariant, TypeOK
<1>3. \A i \in 1 .. Len(log_buffer) : log_buffer[i].lsn \in 1 .. MaxLSN /\ log_buffer[i].txn \in Txn
  BY <1>2, RecordFields
<1>4. TypeOK'
  <2>1. status' \in [Txn -> {"none", "active", "finished"}]
    BY <1>1 DEF LogInvariant, TypeOK
  <2>2. log_buffer' \in Seq(LogRecord) /\ dirty' \subseteq Page /\ reread' \subseteq Page
    BY <1>1
  <2>3. lost' \subseteq (1 .. MaxLSN) \X Txn
    BY <1>1, <1>2, <1>3
  <2> HIDE DEF Taken
  <2> QED
    BY <1>1, <2>1, <2>2, <2>3 DEF LogInvariant, TypeOK
<1>5. WholeLog' = disk_log
  BY <1>1, <1>2 DEF WholeLog
<1>6. /\ Len(disk_log) \in Nat /\ Len(log_buffer) \in Nat
      /\ Len(WholeLog) = Len(disk_log) + Len(log_buffer)
      /\ \A k \in 1 .. Len(disk_log) : k \in 1 .. Len(WholeLog) /\ WholeLog[k] = disk_log[k]
      /\ \A k \in 1 .. Len(log_buffer) :
            /\ Len(disk_log) + k \in 1 .. Len(WholeLog) /\ WholeLog[Len(disk_log) + k] = log_buffer[k]
  BY <1>2, WholeLogIs
<1>7. ASSUME NEW r \in lost' PROVE status'[r[2]] = "finished" /\ ~Finished(disk_log, r[2])
  <2>1. CASE r \in lost
    <3>1. status[r[2]] = "finished" /\ ~Finished(disk_log, r[2]) /\ r[2] \in Txn
      BY <1>2, <2>1 DEF LogInvariant, LogInOrder, FinishedOnDisk
    <3> QED
      BY <1>1, <3>1
  <2>2. ASSUME NEW i \in 1 .. Len(log_buffer), r = <<log_buffer[i].lsn, log_buffer[i].txn>>
        PROVE  status'[r[2]] = "finished" /\ ~Finished(disk_log, r[2])
    <3>1. r[2] = WholeLog[Len(disk_log) + i].txn /\ r[2] \in Txn
      BY <1>3, <1>6, <2>2
    <3>2. status[r[2]] # "none"
      BY <1>6, <3>1 DEF LogInvariant, LogInOrder
    <3>3. ~Finished(disk_log, r[2])
      <4> SUFFICES ASSUME NEW f \in 1 .. Len(disk_log), IsFinish(disk_log[f], r[2]) PROVE FALSE
        BY DEF Finished
      <4>1. IsFinish(WholeLog[f], WholeLog[Len(disk_log) + i].txn)
        BY <1>6, <3>1
      <4>2. Len(disk_log) + i <= f
        BY <1>6, <4>1 DEF LogInvariant, LogInOrder
      <4> QED
        BY <1>6, <4>2
    <3> QED
      BY <1>1, <1>2, <3>1, <3>2, <3>3
  <2> QED
    BY <1>1, <2>1, <2>2
<1>8. FinishedOnDisk'
  <2>1. \A k \in 1 .. Len(log_buffer') : log_buffer'[k].lsn > persistent_lsn'
    BY <1>1
  <2>2. \A k, l \in 1 .. Len(disk_log) : k < l => disk_log[k].lsn < disk_log[l].lsn
    BY <1>6 DEF LogInvariant, FinishedOnDisk
  <2>3. ASSUME NEW l \in 1 .. next_lsn - 1
        PROVE  (\E k \in 1 .. Len(disk_log) : disk_log[k].lsn = l) \/ \E t \in Txn : <<l, t>> \in lost'
    <3>1. CASE \E t \in Txn : <<l, t>> \in lost
      BY <1>1, <3>1
    <3>2. ASSUME NEW k \in 1 .. Len(WholeLog), WholeLog[k].lsn = l
          PROVE  (\E j \in 1 .. Len(disk_log) : disk_log[j].lsn = l) \/ \E t \in Txn : <<l, t>> \in lost'
      <4>1. CASE k \in 1 .. Len(disk_log)
        BY <1>6, <3>2, <4>1
      <4>2. CASE k \notin 1 .. Len(disk_log)
        <5>1. PICK i \in 1 .. Len(log_buffer) : k = Len(disk_log) + i
          <6>1. k - Len(disk_log) \in 1 .. Len(log_buffer) /\ k = Len(disk_log) + (k - Len(disk_log))
            BY <1>6, <4>2
          <6> QED
            BY <6>1
        <5>2. log_buffer[i].lsn = l
          BY <1>6, <3>2, <5>1
        <5>3. <<l, log_buffer[i].txn>> \in lost'
          BY <1>1, <5>2
        <5> QED
          BY <1>3, <5>3
      <4> QED
        BY <4>1, <4>2
    <3> QED
      BY <3>1, <3>2 DEF LogInvariant, FinishedOnDisk
  <2> HIDE DEF Taken
  <2> QED
    BY <1>1, <1>5, <1>7, <2>1, <2>2, <2>3 DEF FinishedOnDisk
<1>9. LogInOrder'
  <2>1. ASSUME NEW k \in 1 .. Len(disk_log)
        PROVE  /\ disk_log[k].lsn < next_lsn
               /\ status'[disk_log[k].txn] # "none" /\ status'[disk_log[k].txn] # "active"
    <3>1. status[disk_log[k].txn] # "none" /\ disk_log[k].lsn < next_lsn
      BY <1>6 DEF LogInvariant, LogInOrder
    <3>2. disk_log[k].txn \in Txn
      BY <1>2, RecordFields
    <3> QED
      BY <1>1, <3>1, <3>2
  <2>2. \A j, k \in 1 .. Len(disk_log) : IsFinish(disk_log[k], disk_log[j].txn) => j <= k
    BY <1>6 DEF LogInvariant, LogInOrder
  <2>3. persistent_lsn < next_lsn
    BY DEF LogInvariant, LogInOrder
  <2> HIDE DEF Taken
  <2> QED
    BY <1>1, <1>5, <1>7, <2>1, <2>2, <2>3 DEF LogInOrder
<1>10. PosInLog'
  BY <1>1 DEF PosInLog
<1> QED
  BY <1>4, <1>5, <1>8, <1>9, <1>10 DEF LogInvariant

\* The log on disk has no more records than LSNs were drawn.
LEMMA DiskLogBounded ==
    ASSUME LogInvariant
    PROVE  Len(disk_log) \in Nat /\ Len(disk_log) <= MaxLSN
<1>1. log_buffer \in Seq(LogRecord) /\ disk_log \in Seq(LogRecord)
  BY DEF LogInvariant, TypeOK
<1>2. \A k, l \in 1 .. Len(disk_log) : k < l => disk_log[k].lsn < disk_log[l].lsn
  <2>1. \A k \in 1 .. Len(disk_log) : k \in 1 .. Len(WholeLog) /\ WholeLog[k] = disk_log[k]
    BY <1>1, WholeLogIs
  <2> QED
    BY <2>1 DEF LogInvariant, FinishedOnDisk
<1> QED
  BY <1>1, <1>2, LogBounded

\* Redoing a record, in the image it names.
LEMMA RedoneImage ==
    ASSUME NEW image \in PageImage, NEW rec \in LogRecord
    PROVE  /\ Redone(image, rec) \in PageImage
           /\ Redone(image, rec) = image \/ Redone(image, rec).page_lsn = rec.lsn
<1>1. CASE rec.type \notin Change \/ image.page_lsn >= rec.lsn
  BY <1>1 DEF Redone
<1>2. CASE ~(rec.type \notin Change \/ image.page_lsn >= rec.lsn)
  <2>1. Redone(image, rec) = [Do(image, rec) EXCEPT !.page_lsn = rec.lsn] /\ rec.type \in Change
    BY <1>2 DEF Redone
  <2>2. Do(image, rec) \in PageImage /\ rec.lsn \in 0 .. MaxLSN
    BY <2>1, ChangedImage, RecordFields, RecoveryAssumption
  <2> QED
    BY <2>1, <2>2, StampImage
<1> QED
  BY <1>1, <1>2

\* A step of redo() keeps the log invariant.
LEMMA RedoKeepsLog ==
    ASSUME LogInvariant, Redo
    PROVE  LogInvariant'
<1> DEFINE rec == disk_log[pos]
           image == Redone(pool[rec.page], rec)
<1>1. /\ phase = "redo" /\ pos <= Len(disk_log) /\ pos' = pos + 1
      /\ pool' = IF rec.type \in Change THEN [pool EXCEPT ![rec.page] = image] ELSE pool
      /\ UNCHANGED <<logVars, status, dirty, disk, phase, active_txns, history>>
  BY DEF Redo
<1>2. /\ disk_log \in Seq(LogRecord) /\ pool \in [Page -> PageImage]
      /\ Len(disk_log) \in Nat /\ Len(disk_log) <= MaxLSN /\ MaxLSN \in Nat
      /\ pos \in 1 .. Len(disk_log) /\ rec \in LogRecord
  BY <1>1, DiskLogBounded, RecoveryAssumption DEF LogInvariant, TypeOK, PosInLog
<1> HIDE DEF rec
<1>3. ASSUME rec.type \in Change
      PROVE  rec.page \in Page /\ image \in PageImage
  BY <1>2, <1>3, RecordFields, RedoneImage
<1> HIDE DEF image
<1>4. pool' \in [Page -> PageImage]
  BY <1>1, <1>2, <1>3
<1>5. pos' \in 1 .. Len(disk_log) + 1 /\ pos' \in 0 .. MaxLSN + 1
  BY <1>1, <1>2
<1>6. TypeOK'
  BY <1>1, <1>4, <1>5 DEF LogInvariant, TypeOK, logVars, history
<1>7. PosInLog'
  BY <1>1, <1>5 DEF PosInLog, logVars
<1> QED
  BY <1>1, <1>6, <1>7, OtherKeepsLog DEF history

\* A step of undo() keeps the log invariant.
LEMMA UndoKeepsLog ==
    ASSUME LogInvariant, Undo
    PROVE  LogInvariant'
<1> DEFINE rec == disk_log[pos]
           image == TakeBack(pool[rec.page], rec)
           taken == rec.txn \in active_txns /\ rec.type \in Change
<1>1. /\ phase = "undo" /\ pos >= 1 /\ pos' = pos - 1
      /\ pool' = IF taken THEN [pool EXCEPT ![rec.page] = image] ELSE pool
      /\ UNCHANGED <<logVars, status, dirty, disk, phase, active_txns, history>>
  BY DEF Undo
<1>2. /\ disk_log \in Seq(LogRecord) /\ pool \in [Page -> PageImage]
      /\ Len(disk_log) \in Nat /\ Len(disk_log) <= MaxLSN /\ MaxLSN \in Nat
      /\ pos \in 1 .. Len(disk_log) /\ rec \in LogRecord
  BY <1>1, DiskLogBounded, RecoveryAssumption DEF LogInvariant, TypeOK, PosInLog
<1> HIDE DEF rec
<1>3. ASSUME taken
      PROVE  rec.page \in Page /\ image \in PageImage
  BY <1>2, <1>3, RecordFields, ChangedImage
<1> HIDE DEF image, taken
<1>4. pool' \in [Page -> PageImage]
  BY <1>1, <1>2, <1>3
<1>5. pos' \in 0 .. Len(disk_log) /\ pos' \in 0 .. MaxLSN + 1
  BY <1>1, <1>2
<1>6. TypeOK'
  BY <1>1, <1>4, <1>5 DEF LogInvariant, TypeOK, logVars, history
<1>7. PosInLog'
  BY <1>1, <1>5 DEF PosInLog, logVars
<1> QED
  BY <1>1, <1>6, <1>7, OtherKeepsLog DEF history

\* The steps between the phases of recovery keep the log invariant.
LEMMA PhasesKeepLog ==
    ASSUME LogInvariant, Analyze \/ RedoEnds \/ UndoEnds \/ Resume
    PROVE  LogInvariant'
<1>1. UNCHANGED <<logVars, status>> /\ lost' = lost
  BY DEF Analyze, RedoEnds, UndoEnds, Resume, history
<1>2. disk_log \in Seq(LogRecord) /\ Len(disk_log) \in Nat /\ Len(disk_log) <= MaxLSN /\ MaxLSN \in Nat
  BY DiskLogBounded, RecoveryAssumption DEF LogInvariant, TypeOK
<1>3. TypeOK' /\ PosInLog'
  <2>1. CASE Analyze
    <3>1. pos' = 1 /\ active_txns' \in SUBSET Txn /\ phase' \in {"recovered", "redo"}
          /\ 1 \in 1 .. Len(disk_log) + 1 /\ 1 \in 0 .. MaxLSN + 1
      BY <1>2, <2>1 DEF Analyze, Analyzed
    <3> QED
      BY <2>1, <3>1 DEF Analyze, LogInvariant, TypeOK, PosInLog, logVars, history
  <2>2. CASE RedoEnds
    <3>1. pos' = Len(disk_log) /\ pos' \in 0 .. Len(disk_log) /\ pos' \in 0 .. MaxLSN + 1
      BY <1>2, <2>2 DEF RedoEnds
    <3> QED
      BY <2>2, <3>1 DEF RedoEnds, LogInvariant, TypeOK, PosInLog, logVars, history
  <2>3. CASE UndoEnds
    BY <2>3 DEF UndoEnds, LogInvariant, TypeOK, PosInLog, logVars, history
  <2>4. CASE Resume
    BY <2>4 DEF Resume, LogInvariant, TypeOK, PosInLog, logVars, history
  <2> QED
    BY <2>1, <2>2, <2>3, <2>4
<1> QED
  BY <1>1, <1>3, OtherKeepsLog

\* Every step keeps the log invariant.
LEMMA StepKeepsLog ==
    ASSUME LogInvariant, [Next]_vars
    PROVE  LogInvariant'
<1>1. ASSUME NEW t \in Txn, BeginTxn(t) PROVE LogInvariant'
  <2>1. "BEGIN" \in {"BEGIN", "COMMIT", "ABORT"}
    OBVIOUS
  <2> QED
    BY <1>1, <2>1, MarkKeepsLog DEF BeginTxn
<1>2. ASSUME NEW t \in Txn, CommitTxn(t) \/ AbortTxn(t) PROVE LogInvariant'
  <2>1. PICK type \in {"COMMIT", "ABORT"} : FinishTxn(t, type)
    BY <1>2 DEF CommitTxn, AbortTxn
  <2>2. type \in {"BEGIN", "COMMIT", "ABORT"} /\ type # "BEGIN"
    OBVIOUS
  <2> QED
    BY <2>1, <2>2, MarkKeepsLog DEF FinishTxn
<1>3. CASE UNCHANGED vars
  BY <1>3 DEF vars, logVars, recoveryVars, history, LogInvariant, TypeOK, FinishedOnDisk,
              LogInOrder, PosInLog, WholeLog
<1> QED
  BY <1>1, <1>2, <1>3, ChangeKeepsLog, FlushKeepsLog, PagesKeepLog, CrashKeepsLog,
     RedoKeepsLog, UndoKeepsLog, PhasesKeepLog DEF Next

\* The initial state satisfies the log invariant.
LEMMA InitialLog == Init => LogInvariant
<1> SUFFICES ASSUME Init PROVE LogInvariant
  OBVIOUS
<1>1. MaxLSN \in Nat /\ Room \in Nat
  BY RecoveryAssumption
<1>2. EmptyPage \in PageImage /\ EmptyPage.page_lsn = 0
  BY <1>1 DEF EmptyPage, PageImage
<1>3. TypeOK
  <2>1. log_buffer \in Seq(LogRecord) /\ disk_log \in Seq(LogRecord)
    BY DEF Init
  <2>2. pool \in [Page -> PageImage] /\ disk \in [Page -> PageImage]
    BY <1>2 DEF Init
  <2>3. next_lsn \in 1 .. MaxLSN + 1 /\ persistent_lsn \in 0 .. MaxLSN /\ pos \in 0 .. MaxLSN + 1
    BY <1>1 DEF Init
  <2> QED
    BY <2>1, <2>2, <2>3 DEF Init, TypeOK
<1>4. WholeLog = <<>> /\ Len(WholeLog) = 0
  BY DEF Init, WholeLog
<1>5. FinishedOnDisk /\ LogInOrder /\ PosInLog
  BY <1>4 DEF Init, FinishedOnDisk, LogInOrder, PosInLog
<1> QED
  BY <1>3, <1>5 DEF LogInvariant

\* The log invariant holds in every reachable state.
THEOREM LogSound == Spec => []LogInvariant
<1>1. LogInvariant /\ [Next]_vars => LogInvariant'
  BY StepKeepsLog
<1> QED
  BY <1>1, InitialLog, PTL DEF Spec

\* What flush() claims to have persisted is on disk, in LSN order and no record
\* twice, and a transaction whose COMMIT or ABORT is on disk has lost none of
\* its records, through crashes and recoveries.
THEOREM FinishedOnDiskAlways == Spec => []FinishedOnDisk
<1>1. LogInvariant => FinishedOnDisk
  BY DEF LogInvariant
<1> QED
  BY <1>1, LogSound, PTL

-----------------------------------------------------------------------------
(***************************************************************************)
(* What a log leaves in a slot                                             *)
(***************************************************************************)

\* A nonempty set of positions has a last one.
LEMMA LastPosition ==
    ASSUME NEW n \in Nat, NEW A \in SUBSET (1 .. n), A # {}
    PROVE  \E m \in A : \A j \in A : j <= m
<1> DEFINE B == {n - j : j \in A}
<1>1. B \in SUBSET Nat /\ B # {}
  <2>1. \A j \in A : n - j \in Nat
    OBVIOUS
  <2>2. PICK a \in A : TRUE
    OBVIOUS
  <2>3. n - a \in B
    OBVIOUS
  <2> QED
    BY <2>1, <2>3
<1>2. PICK b \in B : \A c \in B : b <= c
  BY <1>1, LeastNumber
<1>3. PICK m \in A : b = n - m
  OBVIOUS
<1>4. \A j \in A : n - m <= n - j
  BY <1>2, <1>3
<1>5. \A j \in A : j \in Int
  OBVIOUS
<1> QED
  BY <1>4, <1>5

\* LastNew is the new tuple of the last record.
LEMMA LastNewIs ==
    ASSUME NEW n \in Nat, NEW A \in SUBSET (1 .. n), NEW m \in A, \A j \in A : j <= m, NEW log
    PROVE  LastNew(log, A) = log[m].new
<1> DEFINE last == CHOOSE i \in A : \A j \in A : j <= i
<1>1. last \in A /\ \A j \in A : j <= last
  BY Zenon
<1> HIDE DEF last
<1>2. last = m
  BY <1>1
<1> QED
  BY <1>2 DEF LastNew, last

\* LastNew looks only at the records it is given.
LEMMA LastNewLocal ==
    ASSUME NEW n \in Nat, NEW A \in SUBSET (1 .. n), NEW log, NEW other,
           \A i \in A : other[i] = log[i]
    PROVE  LastNew(other, A) = LastNew(log, A)
<1>1. CASE A = {}
  BY <1>1 DEF LastNew
<1>2. CASE A # {}
  <2>1. PICK m \in A : \A j \in A : j <= m
    BY <1>2, LastPosition
  <2>2. LastNew(log, A) = log[m].new /\ LastNew(other, A) = other[m].new
    BY <2>1, LastNewIs
  <2> QED
    BY <2>2
<1> QED
  BY <1>1, <1>2

\* Two logs have the same first k records.
Agree(other, log, k) == \A i \in 1 .. k : other[i] = log[i]

\* What is left in a slot depends on the records so far only.
LEMMA SlotAfterLocal ==
    ASSUME NEW k \in Nat, NEW log, NEW other, Agree(other, log, k), NEW p, NEW s
    PROVE  /\ SlotChanges(other, k, p, s) = SlotChanges(log, k, p, s)
           /\ SlotAfter(other, k, p, s) = SlotAfter(log, k, p, s)
<1>1. SlotChanges(other, k, p, s) = SlotChanges(log, k, p, s)
  BY DEF SlotChanges, Agree
<1>2. SlotChanges(log, k, p, s) \in SUBSET (1 .. k)
  BY DEF SlotChanges
<1>3. \A i \in SlotChanges(log, k, p, s) : other[i] = log[i]
  BY <1>2 DEF Agree
<1>4. LastNew(other, SlotChanges(log, k, p, s)) = LastNew(log, SlotChanges(log, k, p, s))
  BY <1>2, <1>3, LastNewLocal
<1> QED
  BY <1>1, <1>4 DEF SlotAfter

\* A record changes what is left in its own slot only.
LEMMA SlotAfterNext ==
    ASSUME NEW k \in Nat, NEW log, NEW p, NEW s
    PROVE  /\ log[k + 1].type \in Change /\ log[k + 1].page = p /\ log[k + 1].slot = s =>
                 SlotAfter(log, k + 1, p, s) = log[k + 1].new
           /\ ~(log[k + 1].type \in Change /\ log[k + 1].page = p /\ log[k + 1].slot = s) =>
                 /\ SlotAfter(log, k + 1, p, s) = SlotAfter(log, k, p, s)
                 /\ SlotChanges(log, k + 1, p, s) = SlotChanges(log, k, p, s)
<1> DEFINE here == log[k + 1].type \in Change /\ log[k + 1].page = p /\ log[k + 1].slot = s
           A == SlotChanges(log, k, p, s)
           B == SlotChanges(log, k + 1, p, s)
<1>1. ASSUME here PROVE SlotAfter(log, k + 1, p, s) = log[k + 1].new
  <2>1. k + 1 \in Nat /\ B \in SUBSET (1 .. k + 1) /\ k + 1 \in B
    BY <1>1 DEF SlotChanges
  <2>2. \A j \in B : j <= k + 1
    BY <2>1
  <2> HIDE DEF B
  <2>3. LastNew(log, B) = log[k + 1].new
    BY <2>1, <2>2, LastNewIs
  <2> QED
    BY <2>3 DEF SlotAfter, B
<1>2. ASSUME ~here PROVE B = A
  BY <1>2 DEF SlotChanges
<1>3. ASSUME ~here PROVE SlotAfter(log, k + 1, p, s) = SlotAfter(log, k, p, s)
  BY <1>2, <1>3 DEF SlotAfter
<1> QED
  BY <1>1, <1>2, <1>3

\* Nothing is left after no records.
LEMMA SlotAfterNone ==
    ASSUME NEW log, NEW p, NEW s
    PROVE  SlotChanges(log, 0, p, s) = {} /\ SlotAfter(log, 0, p, s) = NoTuple
BY DEF SlotAfter, SlotChanges, LastNew

\* Records that do not change a slot leave it alone.
LEMMA SlotAfterSame ==
    ASSUME NEW k \in Nat, NEW n \in Nat, k <= n, NEW log, NEW p, NEW s,
           \A i \in SlotChanges(log, n, p, s) : i <= k
    PROVE  SlotAfter(log, n, p, s) = SlotAfter(log, k, p, s)
<1>1. SlotChanges(log, n, p, s) = SlotChanges(log, k, p, s)
  BY DEF SlotChanges
<1> QED
  BY <1>1 DEF SlotAfter

\* The tuples put into a page are finitely many.
LEMMA PutsFinite ==
    ASSUME NEW k \in Nat, NEW log, NEW p
    PROVE  /\ Puts(log, k, p) \in SUBSET (1 .. k) /\ IsFiniteSet(Puts(log, k, p))
           /\ Cardinality(Puts(log, k, p)) \in Nat
<1>1. IsFiniteSet(1 .. k)
  BY FS_Interval
<1>2. Puts(log, k, p) \in SUBSET (1 .. k)
  BY DEF Puts
<1>3. IsFiniteSet(Puts(log, k, p))
  BY <1>1, <1>2, FS_Subset
<1> QED
  BY <1>2, <1>3, FS_CardinalityType

\* The room left depends on the records so far only.
LEMMA RoomAfterLocal ==
    ASSUME NEW k \in Nat, NEW log, NEW other, Agree(other, log, k), NEW p
    PROVE  RoomAfter(other, k, p) = RoomAfter(log, k, p)
<1>1. Puts(other, k, p) = Puts(log, k, p)
  BY DEF Puts, Agree
<1> QED
  BY <1>1 DEF RoomAfter

\* A record takes room in its own page only, and only if it puts a tuple there.
LEMMA RoomAfterNext ==
    ASSUME NEW k \in Nat, NEW log, NEW p
    PROVE  /\ log[k + 1].type \in Change /\ log[k + 1].page = p /\ log[k + 1].new # NoTuple =>
                 RoomAfter(log, k + 1, p) = RoomAfter(log, k, p) - 1
           /\ ~(log[k + 1].type \in Change /\ log[k + 1].page = p /\ log[k + 1].new # NoTuple) =>
                 RoomAfter(log, k + 1, p) = RoomAfter(log, k, p)
<1> DEFINE here == log[k + 1].type \in Change /\ log[k + 1].page = p /\ log[k + 1].new # NoTuple
           A == Puts(log, k, p)
           B == Puts(log, k + 1, p)
<1>1. A \in SUBSET (1 .. k) /\ IsFiniteSet(A) /\ Cardinality(A) \in Nat /\ k + 1 \notin A
  <2>1. A \in SUBSET (1 .. k) /\ IsFiniteSet(A) /\ Cardinality(A) \in Nat
    BY PutsFinite
  <2> HIDE DEF A
  <2> QED
    BY <2>1
<1>2. ASSUME here PROVE B = A \cup {k + 1}
  BY <1>2 DEF Puts
<1>3. ASSUME ~here PROVE B = A
  BY <1>3 DEF Puts
<1>4. Room \in Nat
  BY RecoveryAssumption
<1>5. RoomAfter(log, k, p) = Room - Cardinality(A) /\ RoomAfter(log, k + 1, p) = Room - Cardinality(B)
  BY DEF RoomAfter
<1> HIDE DEF A, B, here
<1>6. ASSUME here PROVE Cardinality(B) = Cardinality(A) + 1
  BY <1>1, <1>2, <1>6, FS_AddElement
<1>7. here => RoomAfter(log, k + 1, p) = RoomAfter(log, k, p) - 1
  BY <1>1, <1>4, <1>5, <1>6
<1>8. ~here => RoomAfter(log, k + 1, p) = RoomAfter(log, k, p)
  BY <1>3, <1>5
<1> QED
  BY <1>7, <1>8 DEF here

\* No records leave all the room.
LEMMA RoomAfterNone ==
    ASSUME NEW log, NEW p
    PROVE  RoomAfter(log, 0, p) = Room
<1>1. Puts(log, 0, p) = {}
  BY DEF Puts
<1>2. Cardinality({}) = 0
  BY FS_EmptySet
<1> QED
  BY <1>1, <1>2, RecoveryAssumption DEF RoomAfter

\* Records that do not change a page take no room there.
LEMMA RoomAfterSame ==
    ASSUME NEW k \in Nat, NEW n \in Nat, k <= n, NEW log \in Seq(LogRecord), n <= Len(log), NEW p,
           \A s \in Slot : \A i \in SlotChanges(log, n, p, s) : i <= k
    PROVE  RoomAfter(log, n, p) = RoomAfter(log, k, p)
<1>1. ASSUME NEW i \in Puts(log, n, p) PROVE i <= k
  <2>1. i \in 1 .. n /\ log[i].type \in Change /\ log[i].page = p /\ log[i] \in LogRecord
    BY DEF Puts
  <2>2. log[i].slot \in Slot
    BY <2>1, RecordFields
  <2>3. i \in SlotChanges(log, n, p, log[i].slot)
    BY <2>1 DEF SlotChanges
  <2> QED
    BY <2>2, <2>3
<1>2. \A i \in 1 .. n : i \in 1 .. k <=> i <= k
  OBVIOUS
<1>3. Puts(log, n, p) = Puts(log, k, p)
  BY <1>1, <1>2 DEF Puts
<1> QED
  BY <1>3 DEF RoomAfter

-----------------------------------------------------------------------------
(***************************************************************************)
(* Logs written without a crash                                            *)
(***************************************************************************)

\* Whether a change is in order depends on the records so far only.
LEMMA ChangeWholeLocal ==
    ASSUME NEW i \in Nat \ {0}, NEW log, NEW other, \A j \in 1 .. i : other[j] = log[j],
           ChangeWhole(log, i)
    PROVE  ChangeWhole(other, i)
<1>1. i - 1 \in Nat /\ i \in 1 .. i /\ \A j \in 1 .. i - 1 : j \in 1 .. i
  OBVIOUS
<1>2. other[i] = log[i] /\ \A j \in 1 .. i - 1 : other[j] = log[j]
  BY <1>1
<1> DEFINE A == SlotChanges(log, i - 1, log[i].page, log[i].slot)
<1>3. /\ SlotChanges(other, i - 1, other[i].page, other[i].slot) = A
      /\ SlotAfter(other, i - 1, other[i].page, other[i].slot) =
            SlotAfter(log, i - 1, log[i].page, log[i].slot)
  <2>1. Agree(other, log, i - 1)
    BY <1>2 DEF Agree
  <2> QED
    BY <1>1, <1>2, <2>1, SlotAfterLocal
<1>4. \E b \in 1 .. i - 1 : other[b].type = "BEGIN" /\ other[b].txn = other[i].txn
  BY <1>2 DEF ChangeWhole
<1>5. ASSUME NEW j \in A, other[j].txn # other[i].txn
      PROVE  \E f \in 1 .. i - 1 : IsFinish(other[f], other[j].txn)
  <2>1. j \in 1 .. i - 1 /\ other[j] = log[j]
    BY <1>2 DEF SlotChanges
  <2>2. PICK f \in 1 .. i - 1 : IsFinish(log[f], log[j].txn)
    BY <1>2, <1>5, <2>1 DEF ChangeWhole
  <2> QED
    BY <1>2, <2>1, <2>2
<1>6. /\ other[i].old = SlotAfter(other, i - 1, other[i].page, other[i].slot)
      /\ other[i].old # other[i].new /\ other[i].type = ChangeType(other[i].old, other[i].new)
  BY <1>2, <1>3 DEF ChangeWhole
<1>7. other[i].new # NoTuple => RoomAfter(other, i - 1, other[i].page) > 0
  <2>1. Agree(other, log, i - 1)
    BY <1>2 DEF Agree
  <2>2. RoomAfter(other, i - 1, log[i].page) = RoomAfter(log, i - 1, log[i].page)
    BY <1>1, <2>1, RoomAfterLocal
  <2> QED
    BY <1>2, <2>2 DEF ChangeWhole
<1> HIDE DEF A
<1> QED
  BY <1>3, <1>4, <1>5, <1>6, <1>7 DEF ChangeWhole

\* A crash leaves a prefix of the log, which is whole too.
LEMMA LogWholePrefix ==
    ASSUME NEW log \in Seq(LogRecord), NEW other \in Seq(LogRecord), Len(other) <= Len(log),
           \A j \in 1 .. Len(other) : other[j] = log[j], LogWhole(log)
    PROVE  LogWhole(other)
<1>1. Len(other) \in Nat /\ \A i \in 1 .. Len(other) : i \in 1 .. Len(log)
  OBVIOUS
<1>2. \A i \in 1 .. Len(other) : other[i].lsn = i
  BY <1>1 DEF LogWhole
<1>3. ASSUME NEW i \in 1 .. Len(other), other[i].type \in Change PROVE ChangeWhole(other, i)
  <2>1. ChangeWhole(log, i)
    BY <1>1, <1>3 DEF LogWhole
  <2>2. i \in Nat \ {0} /\ \A j \in 1 .. i : other[j] = log[j]
    BY <1>1
  <2> QED
    BY <2>1, <2>2, ChangeWholeLocal
<1>4. \A b, f \in 1 .. Len(other) :
         other[b].type = "BEGIN" /\ IsFinish(other[f], other[b].txn) => b < f
  BY <1>1 DEF LogWhole
<1> QED
  BY <1>2, <1>3, <1>4 DEF LogWhole

\* Appending a record in order keeps a log whole.
LEMMA LogWholeAppend ==
    ASSUME NEW log \in Seq(LogRecord), NEW other, NEW n \in Nat, n = Len(log), Len(other) = n + 1,
           \A j \in 1 .. n : other[j] = log[j], LogWhole(log), other[n + 1].lsn = n + 1,
           other[n + 1].type \in Change => ChangeWhole(other, n + 1),
           other[n + 1].type = "BEGIN" => ~Finished(log, other[n + 1].txn)
    PROVE  LogWhole(other)
<1>1. \A i \in 1 .. n + 1 : i = n + 1 \/ i \in 1 .. n
  OBVIOUS
<1>2. \A i \in 1 .. n + 1 : other[i].lsn = i
  BY <1>1 DEF LogWhole
<1>3. ASSUME NEW i \in 1 .. n, other[i].type \in Change PROVE ChangeWhole(other, i)
  <2>1. ChangeWhole(log, i)
    BY <1>3 DEF LogWhole
  <2>2. i \in Nat \ {0} /\ \A j \in 1 .. i : other[j] = log[j]
    OBVIOUS
  <2> QED
    BY <2>1, <2>2, ChangeWholeLocal
<1>4. ASSUME NEW b \in 1 .. n + 1, NEW f \in 1 .. n + 1,
             other[b].type = "BEGIN", IsFinish(other[f], other[b].txn)
      PROVE  b < f
  <2>1. CASE b \in 1 .. n /\ f \in 1 .. n
    BY <1>4, <2>1 DEF LogWhole
  <2>2. CASE b \in 1 .. n /\ f = n + 1
    BY <2>2
  <2>3. CASE b = n + 1 /\ f \in 1 .. n
    BY <1>4, <2>3 DEF Finished
  <2>4. CASE b = n + 1 /\ f = n + 1
    BY <1>4, <2>4 DEF IsFinish
  <2> QED
    BY <1>1, <2>1, <2>2, <2>3, <2>4
<1> QED
  BY <1>1, <1>2, <1>3, <1>4 DEF LogWhole

\* analyze() finds the transactions of changes that have no COMMIT or ABORT.
LEMMA AnalyzedIs ==
    ASSUME NEW log \in Seq(LogRecord), LogWhole(log), NEW i \in 1 .. Len(log), log[i].type \in Change
    PROVE  log[i].txn \in Analyzed(log) <=> ~Finished(log, log[i].txn)
<1> DEFINE t == log[i].txn
<1>1. Len(log) \in Nat /\ t \in Txn
  BY RecordFields
<1> HIDE DEF t
<1>2. ASSUME t \in Analyzed(log), Finished(log, t) PROVE FALSE
  <2>1. PICK b \in 1 .. Len(log) :
           /\ log[b].type = "BEGIN" /\ log[b].txn = t
           /\ \A j \in b .. Len(log) : ~(log[j].type \in {"COMMIT", "ABORT"} /\ log[j].txn = t)
    BY <1>2 DEF Analyzed
  <2>2. PICK f \in 1 .. Len(log) : IsFinish(log[f], t)
    BY <1>2 DEF Finished
  <2>3. b < f
    BY <2>1, <2>2 DEF LogWhole
  <2>4. f \in b .. Len(log)
    BY <1>1, <2>3
  <2> QED
    BY <2>1, <2>2, <2>4 DEF IsFinish
<1>3. ASSUME ~Finished(log, t) PROVE t \in Analyzed(log)
  <2>1. PICK b \in 1 .. i - 1 : log[b].type = "BEGIN" /\ log[b].txn = t
    BY DEF LogWhole, ChangeWhole, t
  <2>2. b \in 1 .. Len(log) /\ \A j \in b .. Len(log) : j \in 1 .. Len(log)
    BY <1>1
  <2>3. \A j \in b .. Len(log) : ~(log[j].type \in {"COMMIT", "ABORT"} /\ log[j].txn = t)
    BY <1>3, <2>2 DEF Finished, IsFinish
  <2> QED
    BY <1>1, <2>1, <2>2, <2>3 DEF Analyzed
<1> QED
  BY <1>2, <1>3 DEF t

-----------------------------------------------------------------------------
(***************************************************************************)
(* The first life: transactions run                                        *)
(***************************************************************************)

\* What the first life says of the log and the disk while transactions run.
LEMMA RunningFacts ==
    ASSUME RecoveryInvariant, ~resumed, phase = "running"
    PROVE  /\ LogWhole(WholeLog) /\ DiskWhole /\ StatusWhole /\ PoolWhole
           /\ WholeLog \in Seq(LogRecord) /\ Len(WholeLog) \in Nat
           /\ next_lsn = Len(WholeLog) + 1 /\ persistent_lsn = Len(disk_log)
           /\ Len(disk_log) \in Nat /\ Len(log_buffer) \in Nat
           /\ Len(WholeLog) = Len(disk_log) + Len(log_buffer)
<1>1. log_buffer \in Seq(LogRecord) /\ disk_log \in Seq(LogRecord)
  BY DEF RecoveryInvariant, LogInvariant, TypeOK
<1>2. /\ WholeLog \in Seq(LogRecord) /\ Len(WholeLog) = Len(disk_log) + Len(log_buffer)
      /\ Len(disk_log) \in Nat /\ Len(log_buffer) \in Nat
  BY <1>1, WholeLogIs
<1>3. LogWhole(WholeLog) /\ DiskWhole /\ RunningWhole /\ persistent_lsn = Len(disk_log)
  BY DEF RecoveryInvariant, FirstLife
<1> QED
  BY <1>2, <1>3 DEF RunningWhole

\* Appending a record leaves the pages on disk where they are in the log.
LEMMA AppendKeepsDisk ==
    ASSUME RecoveryInvariant, ~resumed, phase = "running", disk' = disk,
           NEW rec \in LogRecord, rec.lsn = next_lsn, AppendRecord(rec)
    PROVE  DiskWhole'
<1>1. WholeLog \in Seq(LogRecord) /\ Len(WholeLog) \in Nat /\ DiskWhole /\ PoolWhole
  BY RunningFacts
<1>2. \A k \in 1 .. Len(WholeLog) : WholeLog'[k] = WholeLog[k]
  BY AppendAdds DEF RecoveryInvariant
<1>3. ASSUME NEW p \in Page
      PROVE  /\ disk[p].page_lsn \in Nat /\ disk[p].page_lsn <= Len(WholeLog)
             /\ Agree(WholeLog', WholeLog, disk[p].page_lsn)
  <2>1. disk[p].page_lsn \in Nat
    <3>1. disk[p] \in PageImage
      BY DEF RecoveryInvariant, LogInvariant, TypeOK
    <3> QED
      BY <3>1, ImageFields, RecoveryAssumption
  <2>2. disk[p].page_lsn <= Len(WholeLog)
    BY <1>1 DEF PoolWhole
  <2> QED
    BY <1>1, <1>2, <2>1, <2>2 DEF Agree
<1>4. ASSUME NEW p \in Page
      PROVE  /\ RoomAfter(WholeLog', disk[p].page_lsn, p) = RoomAfter(WholeLog, disk[p].page_lsn, p)
             /\ \A s \in Slot : SlotAfter(WholeLog', disk[p].page_lsn, p, s) =
                                SlotAfter(WholeLog, disk[p].page_lsn, p, s)
  BY <1>3, SlotAfterLocal, RoomAfterLocal
<1> QED
  BY <1>1, <1>3, <1>4 DEF DiskWhole

\* A mark changes nothing in the pages.
LEMMA MarkKeepsPool ==
    ASSUME RecoveryInvariant, ~resumed, phase = "running", disk' = disk, pool' = pool, dirty' = dirty,
           NEW rec \in LogRecord, rec.lsn = next_lsn, AppendRecord(rec), rec.type \notin Change
    PROVE  PoolWhole'
<1> DEFINE n == Len(WholeLog)
<1>1. n \in Nat /\ PoolWhole
  BY RunningFacts
<1>2. Len(WholeLog') = n + 1 /\ WholeLog'[n + 1] = rec /\ \A k \in 1 .. n : WholeLog'[k] = WholeLog[k]
  BY AppendAdds DEF RecoveryInvariant
<1> HIDE DEF n
<1>3. ASSUME NEW p \in Page, NEW s \in Slot
      PROVE  /\ SlotAfter(WholeLog', n + 1, p, s) = SlotAfter(WholeLog, n, p, s)
             /\ SlotChanges(WholeLog', n + 1, p, s) = SlotChanges(WholeLog, n, p, s)
  <2>1. /\ SlotAfter(WholeLog', n, p, s) = SlotAfter(WholeLog, n, p, s)
        /\ SlotChanges(WholeLog', n, p, s) = SlotChanges(WholeLog, n, p, s)
    <3>1. Agree(WholeLog', WholeLog, n)
      BY <1>2 DEF Agree
    <3> QED
      BY <1>1, <3>1, SlotAfterLocal
  <2>2. /\ SlotAfter(WholeLog', n + 1, p, s) = SlotAfter(WholeLog', n, p, s)
        /\ SlotChanges(WholeLog', n + 1, p, s) = SlotChanges(WholeLog', n, p, s)
    BY <1>1, <1>2, SlotAfterNext
  <2> QED
    BY <2>1, <2>2
<1>4. ASSUME NEW p \in Page
      PROVE  /\ pool'[p].page_lsn <= n + 1 /\ disk'[p].page_lsn <= n + 1
             /\ pool'[p].room = RoomAfter(WholeLog', n + 1, p)
             /\ p \notin dirty' => pool'[p] = disk'[p]
  <2>1. pool[p].page_lsn \in Int /\ disk[p].page_lsn \in Int
    <3>1. pool[p] \in PageImage /\ disk[p] \in PageImage
      BY DEF RecoveryInvariant, LogInvariant, TypeOK
    <3> QED
      BY <3>1, ImageFields, RecoveryAssumption
  <2>2. RoomAfter(WholeLog', n, p) = RoomAfter(WholeLog, n, p)
    <3>1. Agree(WholeLog', WholeLog, n)
      BY <1>2 DEF Agree
    <3> QED
      BY <1>1, <3>1, RoomAfterLocal
  <2>3. RoomAfter(WholeLog', n + 1, p) = RoomAfter(WholeLog', n, p)
    BY <1>1, <1>2, RoomAfterNext
  <2> QED
    BY <1>1, <2>1, <2>2, <2>3 DEF PoolWhole, n
<1>5. ASSUME NEW p \in Page, NEW s \in Slot
      PROVE  /\ pool'[p].slots[s] = SlotAfter(WholeLog', n + 1, p, s)
             /\ \A i \in SlotChanges(WholeLog', n + 1, p, s) : i <= pool'[p].page_lsn
  BY <1>1, <1>3 DEF PoolWhole, n
<1> QED
  BY <1>2, <1>4, <1>5 DEF PoolWhole

\* The status of the transactions after a record of transaction u.
LEMMA AppendKeepsStatus ==
    ASSUME RecoveryInvariant, ~resumed, phase = "running",
           NEW u \in Txn, NEW rec \in LogRecord, rec.lsn = next_lsn, rec.txn = u, AppendRecord(rec),
           \A t \in Txn \ {u} : status'[t] = status[t],
           \/ status[u] = "none" /\ status'[u] = "active" /\ rec.type = "BEGIN"
           \/ status[u] = "active" /\ status'[u] = "active" /\ rec.type \in Change
           \/ status[u] = "active" /\ status'[u] = "finished" /\ rec.type \in {"COMMIT", "ABORT"}
    PROVE  StatusWhole'
<1> DEFINE n == Len(WholeLog)
           W == WholeLog
           V == WholeLog'
<1>1. n \in Nat /\ Len(V) = n + 1 /\ V[n + 1] = rec /\ \A k \in 1 .. n : V[k] = W[k]
  BY AppendAdds DEF RecoveryInvariant
<1>2. \A t \in Txn : Finished(V, t) <=> Finished(W, t) \/ IsFinish(rec, t)
  BY FinishedAppend DEF RecoveryInvariant
<1>3. StatusWhole
  BY RunningFacts
<1>4. n + 1 \in 1 .. n + 1 /\ (\A i \in 1 .. n : i \in 1 .. n + 1)
      /\ \A i \in 1 .. n + 1 : i = n + 1 \/ i \in 1 .. n
  BY <1>1
<1>5. ASSUME NEW t \in Txn, status'[t] = "none" PROVE \A i \in 1 .. n + 1 : V[i].txn # t
  <2>1. t # u /\ status[t] = "none"
    BY <1>5
  <2>2. \A i \in 1 .. n : W[i].txn # t
    BY <1>3, <2>1 DEF StatusWhole
  <2> HIDE DEF V, W, n
  <2> QED
    BY <1>1, <1>4, <2>1, <2>2
<1>6. ASSUME NEW t \in Txn, status'[t] = "active"
      PROVE  ~Finished(V, t) /\ \E b \in 1 .. n + 1 : V[b].type = "BEGIN" /\ V[b].txn = t
  <2>1. CASE status[t] = "active"
    <3>1. ~IsFinish(rec, t)
      BY <1>6, <2>1 DEF IsFinish, Change
    <3>2. ~Finished(W, t)
      BY <1>3, <2>1 DEF StatusWhole
    <3>3. PICK b \in 1 .. n : W[b].type = "BEGIN" /\ W[b].txn = t
      BY <1>3, <2>1 DEF StatusWhole
    <3> HIDE DEF V, W, n
    <3> QED
      BY <1>1, <1>2, <1>4, <3>1, <3>2, <3>3
  <2>2. CASE status[t] # "active"
    <3>1. t = u /\ status[t] = "none" /\ rec.type = "BEGIN"
      BY <1>6, <2>2
    <3>2. ~Finished(W, t)
      BY <1>3, <3>1 DEF StatusWhole, Finished, IsFinish
    <3>3. ~IsFinish(rec, t)
      BY <3>1 DEF IsFinish
    <3> HIDE DEF V, W, n
    <3> QED
      BY <1>1, <1>2, <1>4, <3>1, <3>2, <3>3
  <2> QED
    BY <2>1, <2>2
<1>7. ASSUME NEW t \in Txn, status'[t] = "finished" PROVE Finished(V, t)
  <2>1. CASE status[t] = "finished"
    BY <1>2, <1>3, <2>1 DEF StatusWhole
  <2>2. CASE status[t] # "finished"
    <3>1. IsFinish(rec, t)
      BY <1>7, <2>2 DEF IsFinish
    <3> QED
      BY <1>2, <3>1
  <2> QED
    BY <2>1, <2>2
<1> HIDE DEF n
<1> QED
  BY <1>1, <1>5, <1>6, <1>7 DEF StatusWhole

\* Beginning and finishing a transaction keep the first life whole.
LEMMA MarkKeepsLife ==
    ASSUME RecoveryInvariant, ~resumed, phase = "running", NEW t \in Txn,
           NEW type \in {"BEGIN", "COMMIT", "ABORT"}, AppendRecord(Mark(type, t)),
           status' = [status EXCEPT ![t] = IF type = "BEGIN" THEN "active" ELSE "finished"],
           status[t] = IF type = "BEGIN" THEN "none" ELSE "active",
           UNCHANGED <<pool, dirty, disk, recoveryVars, history>>
    PROVE  FirstLife'
<1> DEFINE rec == Mark(type, t)
           n == Len(WholeLog)
<1>1. rec \in LogRecord /\ rec.lsn = next_lsn /\ rec.txn = t /\ rec.type = type
  BY RecordsAppended DEF RecoveryInvariant, LogInvariant, AppendRecord, Mark
<1>2. rec.type \notin Change
  BY <1>1 DEF Change
<1> HIDE DEF rec
<1>3. AppendRecord(rec) /\ disk' = disk /\ pool' = pool /\ dirty' = dirty /\ phase' = phase
  BY DEF rec, recoveryVars
<1>4. DiskWhole' /\ PoolWhole'
  BY <1>1, <1>2, <1>3, AppendKeepsDisk, MarkKeepsPool
<1>5. StatusWhole'
  <2>1. status \in [Txn -> {"none", "active", "finished"}]
    BY DEF RecoveryInvariant, LogInvariant, TypeOK
  <2>2. status'[t] = (IF type = "BEGIN" THEN "active" ELSE "finished")
        /\ \A u \in Txn \ {t} : status'[u] = status[u]
    BY <2>1
  <2> QED
    BY <1>1, <1>3, <2>2, AppendKeepsStatus
<1>6. /\ WholeLog \in Seq(LogRecord) /\ n \in Nat /\ LogWhole(WholeLog) /\ StatusWhole
      /\ next_lsn = n + 1 /\ persistent_lsn = Len(disk_log)
  BY RunningFacts
<1>7. /\ Len(WholeLog') = n + 1 /\ WholeLog'[n + 1] = rec
      /\ \A k \in 1 .. n : WholeLog'[k] = WholeLog[k]
  BY <1>1, <1>3, AppendAdds DEF RecoveryInvariant
<1>8. rec.type = "BEGIN" => ~Finished(WholeLog, rec.txn)
  BY <1>1, <1>6 DEF StatusWhole, Finished, IsFinish
<1>9. LogWhole(WholeLog')
  BY <1>1, <1>2, <1>6, <1>7, <1>8, LogWholeAppend
<1>10. next_lsn' = Len(WholeLog') + 1 /\ persistent_lsn' = Len(disk_log')
  BY <1>3, <1>6, <1>7 DEF AppendRecord
<1> QED
  BY <1>3, <1>4, <1>5, <1>9, <1>10 DEF FirstLife, RunningWhole

\* The record of a change continues a whole log: the slot is the changing
\* transaction's own or was left by finished ones.
LEMMA ChangeInOrder ==
    ASSUME RecoveryInvariant, ~resumed, NEW t \in Txn, NEW p \in Page, NEW s \in Slot,
           NEW new \in Tuple \cup {NoTuple}, ChangeTuple(t, p, s, new)
    PROVE  ChangeWhole(WholeLog', Len(WholeLog) + 1)
<1> DEFINE n == Len(WholeLog)
           W == WholeLog
           V == WholeLog'
           rec == ChangeRecord(t, p, s, new)
<1>1. phase = "running" /\ AppendRecord(rec)
  BY DEF ChangeTuple
<1>2. rec \in LogRecord /\ rec.type \in Change /\ rec.lsn = next_lsn
  BY <1>1, RecordsAppended DEF RecoveryInvariant, LogInvariant, AppendRecord
<1>3. /\ rec.txn = t /\ rec.page = p /\ rec.slot = s /\ rec.old = pool[p].slots[s]
      /\ rec.new = new /\ rec.type = ChangeType(rec.old, rec.new)
  BY DEF ChangeRecord
<1>4. rec.old # rec.new /\ status[t] = "active"
  BY <1>3 DEF ChangeTuple
<1> HIDE DEF rec
<1>5. n \in Nat /\ W \in Seq(LogRecord) /\ StatusWhole /\ PoolWhole
  BY <1>1, RunningFacts
<1>6. V[n + 1] = rec /\ Agree(V, W, n)
  BY <1>1, <1>2, AppendAdds DEF RecoveryInvariant, Agree
<1>7. SlotAfter(V, n, p, s) = SlotAfter(W, n, p, s) /\ SlotChanges(V, n, p, s) = SlotChanges(W, n, p, s)
  BY <1>5, <1>6, SlotAfterLocal
<1>8. rec.old = SlotAfter(V, n, p, s)
  BY <1>3, <1>5, <1>7 DEF PoolWhole
<1>9. \E b \in 1 .. n : V[b].type = "BEGIN" /\ V[b].txn = t
  <2>1. PICK b \in 1 .. n : W[b].type = "BEGIN" /\ W[b].txn = t
    BY <1>4, <1>5 DEF StatusWhole
  <2> QED
    BY <1>6, <2>1 DEF Agree
<1>10. ASSUME NEW j \in SlotChanges(V, n, p, s), V[j].txn # t
       PROVE  \E f \in 1 .. n : IsFinish(V[f], V[j].txn)
  <2>1. j \in 1 .. n /\ W[j].type \in Change /\ W[j].page = p /\ W[j].slot = s /\ V[j] = W[j]
    BY <1>6, <1>7 DEF SlotChanges, Agree
  <2> DEFINE u == W[j].txn
  <2>2. u \in Txn \ {t}
    <3>1. W[j] \in LogRecord
      BY <1>5, <2>1
    <3> QED
      BY <1>10, <2>1, <3>1, RecordFields
  <2> HIDE DEF u
  <2>3. Touches(u, p, s)
    BY <2>1 DEF Touches, ChangesOf, u
  <2>4. status[u] # "active"
    BY <2>2, <2>3 DEF ChangeTuple
  <2>5. status[u] # "none"
    BY <1>5, <2>1, <2>2 DEF StatusWhole, u
  <2>6. status[u] = "finished"
    BY <2>2, <2>4, <2>5 DEF RecoveryInvariant, LogInvariant, TypeOK
  <2>7. PICK f \in 1 .. n : IsFinish(W[f], u)
    BY <1>5, <2>2, <2>6 DEF StatusWhole, Finished
  <2> QED
    BY <1>6, <2>1, <2>7 DEF Agree, u
<1>11. (n + 1) - 1 = n
  BY <1>5
<1>12. rec.new # NoTuple => RoomAfter(V, n, p) > 0
  <2>1. RoomAfter(V, n, p) = RoomAfter(W, n, p)
    BY <1>5, <1>6, RoomAfterLocal
  <2>2. pool[p].room = RoomAfter(W, n, p)
    BY <1>5 DEF PoolWhole
  <2>3. rec.new # NoTuple => pool[p].room > 0
    BY <1>3 DEF ChangeTuple
  <2> QED
    BY <2>1, <2>2, <2>3
<1> HIDE DEF n, V, W
<1>13. ChangeWhole(V, n + 1)
  BY <1>3, <1>4, <1>6, <1>8, <1>9, <1>10, <1>11, <1>12 DEF ChangeWhole
<1> QED
  BY <1>13 DEF n, V

\* A change leaves the page it changes and every other page where the log
\* says they are.
LEMMA ChangeKeepsPool ==
    ASSUME RecoveryInvariant, ~resumed, NEW t \in Txn, NEW p \in Page, NEW s \in Slot,
           NEW new \in Tuple \cup {NoTuple}, ChangeTuple(t, p, s, new)
    PROVE  PoolWhole'
<1> DEFINE n == Len(WholeLog)
           W == WholeLog
           V == WholeLog'
           rec == ChangeRecord(t, p, s, new)
           image == [Do(pool[p], rec) EXCEPT !.page_lsn = next_lsn]
<1>1. phase = "running" /\ AppendRecord(rec)
  BY DEF ChangeTuple
<1>2. rec \in LogRecord /\ rec.type \in Change /\ rec.lsn = next_lsn
  BY <1>1, RecordsAppended DEF RecoveryInvariant, LogInvariant, AppendRecord
<1>3. /\ rec.page = p /\ rec.slot = s /\ rec.old = pool[p].slots[s]
      /\ rec.new = new /\ rec.type = ChangeType(rec.old, rec.new)
  BY DEF ChangeRecord
<1>4. rec.old # rec.new /\ (rec.new # NoTuple => pool[p].room > 0)
  BY <1>3 DEF ChangeTuple
<1>5. pool' = [pool EXCEPT ![p] = image] /\ disk' = disk /\ dirty' = dirty \cup {p}
  BY DEF ChangeTuple
<1> HIDE DEF rec
<1>6. n \in Nat /\ PoolWhole /\ next_lsn = n + 1
  BY <1>1, RunningFacts
<1>7. Len(V) = n + 1 /\ V[n + 1] = rec /\ Agree(V, W, n)
  BY <1>1, <1>2, AppendAdds DEF RecoveryInvariant, Agree
<1>8. /\ pool \in [Page -> PageImage] /\ \A q \in Page : pool[q] \in PageImage
      /\ next_lsn \in 0 .. MaxLSN
  BY <1>1, RecoveryAssumption DEF RecoveryInvariant, LogInvariant, TypeOK, AppendRecord
<1>9. /\ Do(pool[p], rec) \in PageImage
      /\ Do(pool[p], rec).room = IF new # NoTuple THEN pool[p].room - 1 ELSE pool[p].room
      /\ Do(pool[p], rec).slots = [pool[p].slots EXCEPT ![s] = new]
  <2>1. Sound(rec)
    BY <1>3, <1>4 DEF Sound
  <2>2. /\ Do(pool[p], rec).slots = [pool[p].slots EXCEPT ![rec.slot] = rec.new]
        /\ Do(pool[p], rec).room = IF rec.new # NoTuple THEN pool[p].room - 1 ELSE pool[p].room
    BY <1>2, <1>3, <1>4, <1>8, <2>1, DoEffect
  <2> QED
    BY <1>2, <1>3, <1>8, <2>2, ChangedImage
<1>10. /\ image \in PageImage /\ image.page_lsn = n + 1
       /\ image.room = IF new # NoTuple THEN pool[p].room - 1 ELSE pool[p].room
       /\ image.slots = [pool[p].slots EXCEPT ![s] = new]
  BY <1>6, <1>8, <1>9, StampImage
<1> HIDE DEF image
<1>11. ASSUME NEW q \in Page, NEW r \in Slot
       PROVE  /\ q = p /\ r = s => SlotAfter(V, n + 1, q, r) = new
              /\ ~(q = p /\ r = s) => SlotAfter(V, n + 1, q, r) = SlotAfter(W, n, q, r)
              /\ q # p => SlotChanges(V, n + 1, q, r) = SlotChanges(W, n, q, r)
              /\ \A i \in SlotChanges(V, n + 1, q, r) : i <= n + 1
  <2>1. SlotAfter(V, n, q, r) = SlotAfter(W, n, q, r) /\ SlotChanges(V, n, q, r) = SlotChanges(W, n, q, r)
    BY <1>6, <1>7, SlotAfterLocal
  <2>2. q = p /\ r = s => SlotAfter(V, n + 1, q, r) = new
    BY ZenonT(60), <1>2, <1>3, <1>6, <1>7, SlotAfterNext
  <2>3. ~(q = p /\ r = s) => /\ SlotAfter(V, n + 1, q, r) = SlotAfter(V, n, q, r)
                             /\ SlotChanges(V, n + 1, q, r) = SlotChanges(V, n, q, r)
    BY <1>3, <1>6, <1>7, SlotAfterNext
  <2>4. \A i \in SlotChanges(V, n + 1, q, r) : i <= n + 1
    BY <1>6 DEF SlotChanges
  <2> QED
    BY <2>1, <2>2, <2>3, <2>4
<1>12. ASSUME NEW q \in Page
       PROVE  /\ pool'[q].page_lsn <= n + 1 /\ disk'[q].page_lsn <= n + 1
              /\ pool'[q].room = RoomAfter(V, n + 1, q)
              /\ q \notin dirty' => pool'[q] = disk'[q]
              /\ \A r \in Slot :
                    /\ pool'[q].slots[r] = SlotAfter(V, n + 1, q, r)
                    /\ \A i \in SlotChanges(V, n + 1, q, r) : i <= pool'[q].page_lsn
  <2>1. /\ pool[q].page_lsn \in Int /\ disk[q].page_lsn \in Int
        /\ pool[q].page_lsn <= n /\ disk[q].page_lsn <= n /\ pool[q].room = RoomAfter(W, n, q)
    <3>1. pool[q] \in PageImage /\ disk[q] \in PageImage
      BY DEF RecoveryInvariant, LogInvariant, TypeOK
    <3> QED
      BY <1>6, <3>1, ImageFields, RecoveryAssumption DEF PoolWhole
  <2>2. \A r \in Slot : pool[q].slots[r] = SlotAfter(W, n, q, r)
                        /\ \A i \in SlotChanges(W, n, q, r) : i <= pool[q].page_lsn
    BY <1>6 DEF PoolWhole
  <2>3. CASE q = p
    <3>1. pool'[q] = image
      BY <1>5, <1>8, <2>3
    <3>2. image.room = RoomAfter(V, n + 1, q)
      <4>1. RoomAfter(V, n, q) = RoomAfter(W, n, q)
        BY <1>6, <1>7, RoomAfterLocal
      <4>2. RoomAfter(V, n + 1, q) =
               IF new # NoTuple THEN RoomAfter(V, n, q) - 1 ELSE RoomAfter(V, n, q)
        BY <1>2, <1>3, <1>6, <1>7, <2>3, RoomAfterNext
      <4> HIDE DEF V, W, n
      <4> QED
        BY <1>10, <2>1, <2>3, <4>1, <4>2
    <3>3. \A r \in Slot : image.slots[r] = IF r = s THEN new ELSE pool[q].slots[r]
      BY <1>8, <1>10, <2>3, ImageFields
    <3>4. pool'[q].page_lsn = n + 1 /\ pool'[q].room = RoomAfter(V, n + 1, q) /\ q \in dirty'
      BY <1>5, <1>10, <2>3, <3>1, <3>2
    <3>5. ASSUME NEW r \in Slot
          PROVE  pool'[q].slots[r] = SlotAfter(V, n + 1, q, r)
      <4>1. r = s => SlotAfter(V, n + 1, q, r) = new
        BY <1>11, <2>3
      <4>2. r # s => SlotAfter(V, n + 1, q, r) = pool[q].slots[r]
        BY <1>11, <2>2
      <4> QED
        BY <3>1, <3>3, <4>1, <4>2
    <3>6. \A r \in Slot : \A i \in SlotChanges(V, n + 1, q, r) : i <= n + 1
      BY <1>11
    <3>7. pool'[q].page_lsn <= n + 1 /\ disk'[q].page_lsn <= n + 1
      BY <1>5, <1>6, <2>1, <3>4
    <3> HIDE DEF V, W, n
    <3> QED
      BY <3>4, <3>5, <3>6, <3>7
  <2>4. CASE q # p
    <3>1. pool'[q] = pool[q]
      BY <1>5, <1>8, <2>4
    <3>2. q \notin dirty' => pool[q] = disk[q]
      BY <1>5, <1>6 DEF PoolWhole
    <3>3. pool[q].page_lsn <= n + 1 /\ disk'[q].page_lsn <= n + 1
      BY <1>5, <1>6, <2>1
    <3>4. pool[q].room = RoomAfter(V, n + 1, q)
      <4>1. RoomAfter(V, n, q) = RoomAfter(W, n, q)
        BY <1>6, <1>7, RoomAfterLocal
      <4>2. RoomAfter(V, n + 1, q) = RoomAfter(V, n, q)
        BY <1>3, <1>6, <1>7, <2>4, RoomAfterNext
      <4> QED
        BY <2>1, <4>1, <4>2
    <3> HIDE DEF V, W, n
    <3> QED
      BY <1>5, <1>11, <2>2, <2>4, <3>1, <3>2, <3>3, <3>4
  <2> QED
    BY <2>3, <2>4
<1> HIDE DEF n, W
<1> QED
  BY <1>7, <1>12 DEF PoolWhole, V

\* A change keeps the first life whole.
LEMMA ChangeKeepsLife ==
    ASSUME RecoveryInvariant, ~resumed, NEW t \in Txn, NEW p \in Page, NEW s \in Slot,
           NEW new \in Tuple \cup {NoTuple}, ChangeTuple(t, p, s, new)
    PROVE  FirstLife'
<1> DEFINE n == Len(WholeLog)
           rec == ChangeRecord(t, p, s, new)
<1>1. /\ phase = "running" /\ AppendRecord(rec) /\ status[t] = "active" /\ status' = status
      /\ disk' = disk /\ phase' = phase
  BY DEF ChangeTuple, recoveryVars
<1>2. rec \in LogRecord /\ rec.type \in Change /\ rec.lsn = next_lsn
  BY <1>1, RecordsAppended DEF RecoveryInvariant, LogInvariant, AppendRecord
<1>3. rec.txn = t
  BY DEF ChangeRecord
<1> HIDE DEF rec
<1>4. DiskWhole'
  BY <1>1, <1>2, AppendKeepsDisk
<1>5. PoolWhole'
  BY ChangeKeepsPool
<1>6. StatusWhole'
  BY <1>1, <1>2, <1>3, AppendKeepsStatus
<1>7. /\ WholeLog \in Seq(LogRecord) /\ n \in Nat /\ LogWhole(WholeLog)
      /\ next_lsn = n + 1 /\ persistent_lsn = Len(disk_log)
  BY <1>1, RunningFacts
<1>8. /\ Len(WholeLog') = n + 1 /\ WholeLog'[n + 1] = rec
      /\ \A k \in 1 .. n : WholeLog'[k] = WholeLog[k]
  BY <1>1, <1>2, AppendAdds DEF RecoveryInvariant
<1>9. ChangeWhole(WholeLog', n + 1) /\ rec.type # "BEGIN"
  BY <1>2, ChangeInOrder DEF Change
<1>10. LogWhole(WholeLog')
  BY <1>2, <1>7, <1>8, <1>9, LogWholeAppend
<1>11. next_lsn' = Len(WholeLog') + 1 /\ persistent_lsn' = Len(disk_log')
  BY <1>1, <1>7, <1>8 DEF AppendRecord
<1> QED
  BY <1>1, <1>4, <1>5, <1>6, <1>10, <1>11 DEF FirstLife, RunningWhole

\* Flushing keeps the first life whole.
LEMMA FlushKeepsLife ==
    ASSUME RecoveryInvariant, ~resumed, NEW i \in 1 .. Len(log_buffer), Flush(i)
    PROVE  FirstLife'
<1>1. /\ phase = "running" /\ FlushTo(log_buffer[i].lsn)
      /\ status' = status /\ pool' = pool /\ dirty' = dirty /\ disk' = disk /\ phase' = phase
      /\ next_lsn' = next_lsn
  BY DEF Flush, recoveryVars
<1>2. /\ Len(disk_log') = Len(disk_log) + i /\ WholeLog' = WholeLog
      /\ persistent_lsn' = log_buffer[i].lsn
  BY <1>1, FlushMoves DEF RecoveryInvariant
<1>3. /\ LogWhole(WholeLog) /\ DiskWhole /\ StatusWhole /\ PoolWhole
      /\ next_lsn = Len(WholeLog) + 1 /\ Len(disk_log) \in Nat /\ Len(log_buffer) \in Nat
      /\ Len(WholeLog) = Len(disk_log) + Len(log_buffer)
  BY <1>1, RunningFacts
<1>4. persistent_lsn' = Len(disk_log')
  <2>1. WholeLog[Len(disk_log) + i] = log_buffer[i]
    BY WholeLogIs DEF RecoveryInvariant, LogInvariant, TypeOK
  <2>2. Len(disk_log) + i \in 1 .. Len(WholeLog)
    BY <1>3
  <2>3. WholeLog[Len(disk_log) + i].lsn = Len(disk_log) + i
    BY <1>3, <2>2 DEF LogWhole
  <2> QED
    BY <1>2, <2>1, <2>3
<1>5. DiskWhole'
  BY <1>1, <1>2, <1>3 DEF DiskWhole
<1>6. StatusWhole' /\ PoolWhole'
  BY <1>1, <1>2, <1>3 DEF StatusWhole, PoolWhole
<1> QED
  BY <1>1, <1>2, <1>3, <1>4, <1>5, <1>6 DEF FirstLife, RunningWhole

\* Writing a page keeps the first life whole: it holds every logged change,
\* and no record after its stamp changes it.
LEMMA WriteKeepsLife ==
    ASSUME RecoveryInvariant, ~resumed, NEW p \in Page, WritePage(p)
    PROVE  FirstLife'
<1>1. /\ p \in dirty /\ disk' = [disk EXCEPT ![p] = pool[p]] /\ dirty' = dirty \ {p}
      /\ log_buffer' = log_buffer /\ disk_log' = disk_log /\ next_lsn' = next_lsn
      /\ persistent_lsn' = persistent_lsn /\ status' = status /\ pool' = pool /\ phase' = phase
  BY DEF WritePage, logVars, recoveryVars
<1>2. phase = "running"
  BY <1>1 DEF RecoveryInvariant, FirstLife
<1>3. /\ LogWhole(WholeLog) /\ DiskWhole /\ StatusWhole /\ PoolWhole
      /\ next_lsn = Len(WholeLog) + 1 /\ persistent_lsn = Len(disk_log)
      /\ WholeLog \in Seq(LogRecord) /\ Len(WholeLog) \in Nat
  BY <1>2, RunningFacts
<1>4. WholeLog' = WholeLog
  BY <1>1 DEF WholeLog
<1>5. \A q \in Page : disk'[q] = IF q = p THEN pool[p] ELSE disk[q]
  BY <1>1 DEF RecoveryInvariant, LogInvariant, TypeOK
<1>6. /\ pool[p].page_lsn \in Nat /\ pool[p].page_lsn <= Len(WholeLog)
      /\ pool[p].room = RoomAfter(WholeLog, Len(WholeLog), p)
      /\ \A s \in Slot :
            /\ pool[p].slots[s] = SlotAfter(WholeLog, Len(WholeLog), p, s)
            /\ \A i \in SlotChanges(WholeLog, Len(WholeLog), p, s) : i <= pool[p].page_lsn
  <2>1. pool[p] \in PageImage
    BY DEF RecoveryInvariant, LogInvariant, TypeOK
  <2> QED
    BY <1>3, <2>1, ImageFields, RecoveryAssumption DEF PoolWhole
<1>7. DiskWhole'
  <2>1. /\ pool[p].room = RoomAfter(WholeLog, pool[p].page_lsn, p)
        /\ \A s \in Slot : pool[p].slots[s] = SlotAfter(WholeLog, pool[p].page_lsn, p, s)
    BY <1>3, <1>6, RoomAfterSame, SlotAfterSame
  <2> QED
    BY <1>3, <1>4, <1>5, <2>1 DEF DiskWhole
<1>8. StatusWhole'
  BY <1>1, <1>3, <1>4 DEF StatusWhole
<1>9. PoolWhole'
  <2>1. \A q \in Page : (q \notin dirty' => pool'[q] = disk'[q]) /\ disk'[q].page_lsn <= Len(WholeLog)
    BY <1>1, <1>3, <1>5, <1>6 DEF PoolWhole
  <2> QED
    BY <1>1, <1>3, <1>4, <2>1 DEF PoolWhole
<1> QED
  BY <1>1, <1>2, <1>3, <1>4, <1>7, <1>8, <1>9 DEF FirstLife, RunningWhole

\* A page that differs from the disk and is clean exists during recovery only,
\* and once evicted it is a page recovery does not follow.
LEMMA EvictKeepsLife ==
    ASSUME RecoveryInvariant, ~resumed, NEW p \in Page, EvictPage(p)
    PROVE  FirstLife'
<1>1. /\ p \notin dirty /\ pool[p] # disk[p] /\ reread' = reread \cup {p}
      /\ pool' = [pool EXCEPT ![p] = disk[p]]
      /\ log_buffer' = log_buffer /\ disk_log' = disk_log /\ disk' = disk /\ dirty' = dirty
      /\ persistent_lsn' = persistent_lsn /\ phase' = phase /\ pos' = pos /\ active_txns' = active_txns
  BY DEF EvictPage, logVars, recoveryVars
<1>2. phase # "running" /\ phase # "crashed"
  BY <1>1, RunningFacts DEF RecoveryInvariant, FirstLife, PoolWhole
<1>3. WholeLog' = WholeLog
  BY <1>1 DEF WholeLog
<1>4. /\ LogWhole(WholeLog) /\ DiskWhole /\ log_buffer = <<>> /\ dirty = {}
      /\ persistent_lsn = Len(disk_log)
      /\ (phase = "redo" => RedoneSoFar) /\ (phase = "undo" => UndoneSoFar)
      /\ (phase = "recovered" => Restored)
  BY <1>2 DEF RecoveryInvariant, FirstLife
<1>5. DiskWhole'
  BY <1>1, <1>3, <1>4 DEF DiskWhole
<1>6. ASSUME NEW q \in Page, Followed(q)' PROVE Followed(q) /\ pool'[q] = pool[q]
  <2>1. disk'[q].page_lsn <= persistent_lsn' /\ q \notin reread'
    BY <1>6 DEF Followed
  <2>2. q # p /\ q \notin reread
    BY <1>1, <2>1
  <2>3. pool \in [Page -> PageImage]
    BY DEF RecoveryInvariant, LogInvariant, TypeOK
  <2> QED
    BY <1>1, <2>1, <2>2, <2>3 DEF Followed
<1>7. ASSUME phase = "redo" PROVE RedoneSoFar'
  <2>1. \A q \in Page : Reached(q)' = Reached(q)
    BY <1>1 DEF Reached
  <2> QED
    BY <1>1, <1>4, <1>6, <1>7, <2>1 DEF RedoneSoFar
<1>8. ASSUME phase = "undo" PROVE UndoneSoFar'
  <2>1. \A q \in Page, s \in Slot : StillDone(q, s)' = StillDone(q, s)
    BY <1>1 DEF StillDone
  <2>2. ASSUME NEW q \in Page, NEW s \in Slot, Followed(q)', RefusedSoFar(q, s) PROVE RefusedSoFar(q, s)'
    BY <1>1, <1>6, <2>1, <2>2 DEF RefusedSoFar, PutBackRefused
  <2> QED
    BY <1>1, <1>4, <1>6, <1>8, <2>1, <2>2 DEF UndoneSoFar
<1>9. ASSUME phase = "recovered" PROVE Restored'
  <2>1. \A q \in Page, s \in Slot : Expected(q, s)' = Expected(q, s)
    BY <1>1 DEF Expected, FinishedChanges
  <2>2. ASSUME NEW q \in Page, NEW s \in Slot, Followed(q)', Refused(q, s) PROVE Refused(q, s)'
    BY <1>1, <1>6, <2>1, <2>2 DEF Refused, PutBackRefused
  <2> QED
    BY <1>4, <1>6, <1>9, <2>1, <2>2 DEF Restored
<1> QED
  BY <1>1, <1>2, <1>3, <1>4, <1>5, <1>7, <1>8, <1>9 DEF FirstLife

\* A crash keeps the first life whole: the log on disk is a prefix of the log.
\* A page that is ahead of it says nothing any more.
LEMMA CrashKeepsLife ==
    ASSUME RecoveryInvariant, ~resumed, Crash
    PROVE  FirstLife'
<1>1. /\ phase' = "crashed" /\ log_buffer' = <<>> /\ pool' = disk /\ dirty' = {} /\ disk' = disk
      /\ disk_log' = disk_log /\ persistent_lsn' = persistent_lsn
  BY DEF Crash
<1>2. WholeLog' = disk_log
  BY CrashKeepsLog DEF RecoveryInvariant
<1>3. LogWhole(WholeLog) /\ DiskWhole /\ persistent_lsn = Len(disk_log)
  BY DEF RecoveryInvariant, FirstLife
<1>4. /\ WholeLog \in Seq(LogRecord) /\ disk_log \in Seq(LogRecord)
      /\ Len(disk_log) \in Nat /\ Len(WholeLog) \in Nat /\ Len(disk_log) <= Len(WholeLog)
      /\ \A k \in 1 .. Len(disk_log) : disk_log[k] = WholeLog[k]
  BY WholeLogIs DEF RecoveryInvariant, LogInvariant, TypeOK
<1>5. LogWhole(disk_log)
  BY <1>3, <1>4, LogWholePrefix
<1>6. ASSUME NEW p \in Page, disk[p].page_lsn <= Len(disk_log)
      PROVE  /\ disk[p].room = RoomAfter(disk_log, disk[p].page_lsn, p)
             /\ \A s \in Slot : disk[p].slots[s] = SlotAfter(disk_log, disk[p].page_lsn, p, s)
  <2>1. disk[p].page_lsn \in Nat
    <3>1. disk[p] \in PageImage
      BY DEF RecoveryInvariant, LogInvariant, TypeOK
    <3> QED
      BY <3>1, ImageFields, RecoveryAssumption
  <2>2. Agree(disk_log, WholeLog, disk[p].page_lsn)
    BY <1>4, <1>6, <2>1 DEF Agree
  <2>3. disk[p].page_lsn <= Len(WholeLog)
    BY <1>4, <1>6, <2>1
  <2>4. /\ RoomAfter(disk_log, disk[p].page_lsn, p) = RoomAfter(WholeLog, disk[p].page_lsn, p)
        /\ \A s \in Slot : SlotAfter(disk_log, disk[p].page_lsn, p, s) =
                           SlotAfter(WholeLog, disk[p].page_lsn, p, s)
    BY <2>1, <2>2, SlotAfterLocal, RoomAfterLocal
  <2> QED
    BY <1>3, <2>3, <2>4 DEF DiskWhole
<1>7. DiskWhole'
  BY <1>1, <1>2, <1>6 DEF DiskWhole
<1> QED
  BY <1>1, <1>2, <1>3, <1>5, <1>7 DEF FirstLife

-----------------------------------------------------------------------------
(***************************************************************************)
(* The first life: recovery                                                *)
(***************************************************************************)

\* What the first life says of the log and the disk after a crash.
LEMMA CrashedFacts ==
    ASSUME RecoveryInvariant, ~resumed, phase # "running"
    PROVE  /\ WholeLog = disk_log /\ log_buffer = <<>> /\ dirty = {}
           /\ disk_log \in Seq(LogRecord) /\ LogWhole(disk_log)
           /\ Len(disk_log) \in Nat /\ Len(disk_log) <= MaxLSN /\ MaxLSN \in Nat /\ Room \in Nat
           /\ \A p \in Page :
                 /\ disk[p] \in PageImage /\ disk[p].page_lsn \in Nat
                 /\ pool[p] \in PageImage /\ pool[p].page_lsn \in Nat /\ pool[p].room \in Nat
                 /\ Followed(p) <=> disk[p].page_lsn <= Len(disk_log) /\ p \notin reread
                 /\ disk[p].page_lsn <= Len(disk_log) =>
                       /\ disk[p].room = RoomAfter(disk_log, disk[p].page_lsn, p)
                       /\ \A s \in Slot : disk[p].slots[s] = SlotAfter(disk_log, disk[p].page_lsn, p, s)
<1>1. /\ log_buffer = <<>> /\ dirty = {} /\ LogWhole(WholeLog) /\ DiskWhole /\ LogInvariant /\ TypeOK
      /\ persistent_lsn = Len(disk_log)
  BY DEF RecoveryInvariant, FirstLife, LogInvariant
<1>2. WholeLog = disk_log /\ disk_log \in Seq(LogRecord)
  BY <1>1 DEF WholeLog, TypeOK
<1>3. Len(disk_log) \in Nat /\ Len(disk_log) <= MaxLSN /\ MaxLSN \in Nat /\ Room \in Nat
  BY <1>1, DiskLogBounded, RecoveryAssumption
<1>4. ASSUME NEW p \in Page
      PROVE  /\ disk[p] \in PageImage /\ disk[p].page_lsn \in Nat
             /\ pool[p] \in PageImage /\ pool[p].page_lsn \in Nat /\ pool[p].room \in Nat
  BY <1>1, ImageFields, RecoveryAssumption DEF TypeOK
<1>5. \A p \in Page : Followed(p) <=> disk[p].page_lsn <= Len(disk_log) /\ p \notin reread
  BY <1>1 DEF Followed
<1>6. \A p \in Page : disk[p].page_lsn <= Len(disk_log) =>
         /\ disk[p].room = RoomAfter(disk_log, disk[p].page_lsn, p)
         /\ \A s \in Slot : disk[p].slots[s] = SlotAfter(disk_log, disk[p].page_lsn, p, s)
  BY <1>1, <1>2 DEF DiskWhole
<1> QED
  BY <1>1, <1>2, <1>3, <1>4, <1>5, <1>6

\* A step of recovery keeps what the first life says of the log and the disk.
LEMMA RecoveryKeepsDisk ==
    ASSUME RecoveryInvariant, ~resumed, phase # "running", phase' \in {"redo", "undo", "recovered"},
           UNCHANGED <<logVars, disk, dirty>>,
           phase' = "redo" => RedoneSoFar',
           phase' = "undo" => UndoneSoFar',
           phase' = "recovered" => Restored'
    PROVE  FirstLife'
<1>1. /\ log_buffer' = log_buffer /\ disk_log' = disk_log /\ disk' = disk /\ dirty' = dirty
      /\ persistent_lsn' = persistent_lsn
  BY DEF logVars
<1>2. WholeLog' = WholeLog
  BY <1>1 DEF WholeLog
<1>3. /\ LogWhole(WholeLog) /\ DiskWhole /\ log_buffer = <<>> /\ dirty = {}
      /\ persistent_lsn = Len(disk_log)
  BY DEF RecoveryInvariant, FirstLife
<1>4. DiskWhole'
  BY <1>1, <1>2, <1>3 DEF DiskWhole
<1> QED
  BY <1>1, <1>2, <1>3, <1>4 DEF FirstLife

\* A step of recovery follows the same pages as before.
LEMMA FollowsSame ==
    ASSUME UNCHANGED <<logVars, disk, history>>, NEW p
    PROVE  Followed(p)' <=> Followed(p)
BY DEF Followed, logVars, history

\* analyze() starts redo() from the pages on disk; an empty log is recovered.
LEMMA AnalyzeKeepsLife ==
    ASSUME RecoveryInvariant, ~resumed, Analyze
    PROVE  FirstLife'
<1>1. /\ phase = "crashed" /\ active_txns' = Analyzed(disk_log) /\ pos' = 1
      /\ phase' = IF disk_log = <<>> THEN "recovered" ELSE "redo"
      /\ UNCHANGED <<logVars, disk, dirty, history>>
      /\ pool' = pool /\ disk' = disk /\ disk_log' = disk_log
  BY DEF Analyze, logVars
<1>2. pool = disk
  BY <1>1 DEF RecoveryInvariant, FirstLife
<1>3. Len(disk_log) \in Nat
  BY <1>1, CrashedFacts
<1>4. ASSUME NEW p \in Page, Followed(p)'
      PROVE  /\ disk[p].page_lsn \in Nat /\ disk[p].page_lsn <= Len(disk_log)
             /\ disk[p].room = RoomAfter(disk_log, disk[p].page_lsn, p)
             /\ \A s \in Slot : disk[p].slots[s] = SlotAfter(disk_log, disk[p].page_lsn, p, s)
  <2>1. Followed(p)
    BY <1>1, <1>4, FollowsSame
  <2> QED
    BY <1>1, <2>1, CrashedFacts
<1>5. RedoneSoFar'
  <2>1. active_txns' = Analyzed(disk_log')
    BY <1>1
  <2>2. ASSUME NEW p \in Page, Followed(p)'
        PROVE  /\ disk'[p].page_lsn <= pool'[p].page_lsn /\ pool'[p].page_lsn <= Reached(p)'
               /\ pool'[p].room = RoomAfter(disk_log', Reached(p)', p)
               /\ \A s \in Slot : pool'[p].slots[s] = SlotAfter(disk_log', Reached(p)', p, s)
    <3>1. Reached(p)' = disk[p].page_lsn
      BY <1>1, <1>4, <2>2 DEF Reached
    <3> QED
      BY <1>1, <1>2, <1>4, <2>2, <3>1
  <2> QED
    BY <2>1, <2>2 DEF RedoneSoFar
<1>6. ASSUME disk_log = <<>> PROVE Restored'
  <2>1. ASSUME NEW p \in Page, NEW s \in Slot, Followed(p)' PROVE pool'[p].slots[s] = NoTuple
    <3>1. disk[p].page_lsn = 0
      BY <1>4, <1>6, <2>1
    <3> QED
      BY <1>1, <1>2, <1>4, <2>1, <3>1, SlotAfterNone
  <2>2. ASSUME NEW p \in Page, NEW s \in Slot PROVE Expected(p, s)' = NoTuple
    <3>1. FinishedChanges(p, s)' = {}
      BY <1>1, <1>6 DEF FinishedChanges, SlotChanges
    <3> QED
      BY <3>1 DEF Expected, LastNew
  <2> QED
    BY <2>1, <2>2 DEF Restored
<1> QED
  BY <1>1, <1>5, <1>6, RecoveryKeepsDisk

\* Redoing a change to a page that the records before it have reached: there is
\* room, because there was when the record was written.
LEMMA RedoneSlots ==
    ASSUME NEW log \in Seq(LogRecord), LogWhole(log), NEW k \in 1 .. Len(log), log[k].type \in Change,
           NEW image \in PageImage, image.page_lsn < k,
           image.room = RoomAfter(log, k - 1, log[k].page),
           \A s \in Slot : image.slots[s] = SlotAfter(log, k - 1, log[k].page, s)
    PROVE  /\ Redone(image, log[k]).page_lsn = k
           /\ Redone(image, log[k]).room = RoomAfter(log, k, log[k].page)
           /\ \A s \in Slot : Redone(image, log[k]).slots[s] = SlotAfter(log, k, log[k].page, s)
<1> DEFINE rec == log[k]
<1>1. /\ rec \in LogRecord /\ rec.lsn = k /\ ChangeWhole(log, k)
      /\ k \in Nat /\ k - 1 \in Nat /\ (k - 1) + 1 = k
  BY DEF LogWhole
<1>2. rec.page \in Page /\ rec.slot \in Slot /\ k \in 0 .. MaxLSN /\ image.page_lsn \in Int
  BY <1>1, RecordFields, ImageFields, RecoveryAssumption
<1>3. /\ Sound(rec) /\ rec.old = SlotAfter(log, k - 1, rec.page, rec.slot)
      /\ rec.new # NoTuple => image.room > 0
  BY <1>1 DEF ChangeWhole, Sound
<1>4. /\ Do(image, rec) \in PageImage
      /\ Do(image, rec).room = IF rec.new # NoTuple THEN image.room - 1 ELSE image.room
      /\ Do(image, rec).slots = [image.slots EXCEPT ![rec.slot] = rec.new]
  <2>1. rec.type \in Change /\ image.slots[rec.slot] = rec.old
    BY <1>2, <1>3
  <2> HIDE DEF rec
  <2>2. Do(image, rec) \in PageImage
    BY <1>1, <2>1, ChangedImage
  <2>3. /\ Do(image, rec).slots = [image.slots EXCEPT ![rec.slot] = rec.new]
        /\ Do(image, rec).room = IF rec.new # NoTuple THEN image.room - 1 ELSE image.room
    BY <1>1, <1>3, <2>1, DoEffect
  <2> QED
    BY <2>2, <2>3
<1>5. Redone(image, rec) = [Do(image, rec) EXCEPT !.page_lsn = k]
  BY <1>1, <1>2 DEF Redone
<1>6. /\ Redone(image, rec).page_lsn = k /\ Redone(image, rec).room = Do(image, rec).room
      /\ Redone(image, rec).slots = Do(image, rec).slots
  BY <1>2, <1>4, <1>5, StampImage
<1>7. ASSUME NEW s \in Slot
      PROVE  Redone(image, rec).slots[s] = SlotAfter(log, k, rec.page, s)
  <2>1. Redone(image, rec).slots[s] = IF s = rec.slot THEN rec.new ELSE image.slots[s]
    BY <1>2, <1>4, <1>6, ImageFields
  <2>2. /\ s = rec.slot => SlotAfter(log, (k - 1) + 1, rec.page, s) = log[(k - 1) + 1].new
        /\ s # rec.slot => SlotAfter(log, (k - 1) + 1, rec.page, s) = SlotAfter(log, k - 1, rec.page, s)
    BY <1>1, SlotAfterNext
  <2> QED
    BY <1>1, <2>1, <2>2
<1>8. Redone(image, rec).room = RoomAfter(log, k, rec.page)
  <2>1. /\ rec.new # NoTuple => RoomAfter(log, (k - 1) + 1, rec.page) = RoomAfter(log, k - 1, rec.page) - 1
        /\ rec.new = NoTuple => RoomAfter(log, (k - 1) + 1, rec.page) = RoomAfter(log, k - 1, rec.page)
    BY <1>1, RoomAfterNext
  <2> QED
    BY <1>1, <1>4, <1>6, <2>1
<1> QED
  BY <1>6, <1>7, <1>8

\* A step of redo() brings every page it follows one record further.
LEMMA RedoKeepsLife ==
    ASSUME RecoveryInvariant, ~resumed, Redo
    PROVE  FirstLife'
<1> DEFINE rec == disk_log[pos]
<1>1. /\ phase = "redo" /\ pos <= Len(disk_log) /\ pos' = pos + 1 /\ phase' = phase
      /\ pool' = IF rec.type \in Change
                 THEN [pool EXCEPT ![rec.page] = Redone(pool[rec.page], rec)] ELSE pool
      /\ UNCHANGED <<logVars, disk, dirty, history>> /\ disk' = disk /\ disk_log' = disk_log
      /\ active_txns' = active_txns
  BY DEF Redo, logVars
<1>2. /\ disk_log \in Seq(LogRecord) /\ LogWhole(disk_log) /\ Len(disk_log) \in Nat
      /\ \A p \in Page : /\ disk[p].page_lsn \in Nat /\ pool[p] \in PageImage
                         /\ pool[p].page_lsn \in Nat /\ pool[p].room \in Nat
  BY <1>1, CrashedFacts
<1>3. pos \in 1 .. Len(disk_log) /\ pos - 1 \in Nat /\ (pos - 1) + 1 = pos
  BY <1>1, <1>2 DEF RecoveryInvariant, LogInvariant, PosInLog
<1>4. rec \in LogRecord /\ rec.lsn = pos
  BY <1>2, <1>3 DEF LogWhole
<1>5. RedoneSoFar
  BY <1>1 DEF RecoveryInvariant, FirstLife
<1>6. RedoneSoFar'
  <2> HIDE DEF rec
  <2>1. ASSUME NEW p \in Page, Followed(p)'
        PROVE  /\ disk[p].page_lsn <= pool'[p].page_lsn /\ pool'[p].page_lsn <= Reached(p)'
               /\ pool'[p].room = RoomAfter(disk_log, Reached(p)', p)
               /\ \A s \in Slot : pool'[p].slots[s] = SlotAfter(disk_log, Reached(p)', p, s)
    <3>1. /\ disk[p].page_lsn <= pool[p].page_lsn /\ pool[p].page_lsn <= Reached(p)
          /\ pool[p].room = RoomAfter(disk_log, Reached(p), p)
          /\ \A s \in Slot : pool[p].slots[s] = SlotAfter(disk_log, Reached(p), p, s)
      BY <1>1, <1>5, <2>1, FollowsSame DEF RedoneSoFar
    <3>2. CASE disk[p].page_lsn >= pos
      <4>1. Reached(p) = disk[p].page_lsn /\ Reached(p)' = disk[p].page_lsn
        BY <1>1, <1>2, <1>3, <3>2 DEF Reached
      <4>2. pool'[p] = pool[p]
        <5>1. pool[p].page_lsn >= rec.lsn
          BY <1>2, <1>3, <1>4, <3>1, <3>2
        <5>2. rec.page = p => Redone(pool[rec.page], rec) = pool[p]
          BY <5>1 DEF Redone
        <5> QED
          BY <1>1, <5>2 DEF RecoveryInvariant, LogInvariant, TypeOK
      <4> QED
        BY <3>1, <4>1, <4>2
    <3>3. CASE disk[p].page_lsn < pos
      <4>1. Reached(p) = pos - 1 /\ Reached(p)' = pos
        BY <1>1, <1>2, <1>3, <3>3 DEF Reached
      <4>2. CASE rec.type \in Change /\ rec.page = p
        <5>1. pool'[p] = Redone(pool[p], rec)
          BY <1>1, <4>2 DEF RecoveryInvariant, LogInvariant, TypeOK
        <5>2. pool[p].page_lsn < pos
          BY <1>2, <1>3, <3>1, <4>1
        <5>3. /\ Redone(pool[p], rec).page_lsn = pos
              /\ Redone(pool[p], rec).room = RoomAfter(disk_log, pos, p)
              /\ \A s \in Slot : Redone(pool[p], rec).slots[s] = SlotAfter(disk_log, pos, p, s)
          <6>1. /\ disk_log[pos].type \in Change /\ disk_log[pos].page = p
                /\ pool[p].room = RoomAfter(disk_log, pos - 1, disk_log[pos].page)
                /\ \A s \in Slot : pool[p].slots[s] = SlotAfter(disk_log, pos - 1, disk_log[pos].page, s)
            BY <3>1, <4>1, <4>2 DEF rec
          <6>2. /\ Redone(pool[p], disk_log[pos]).page_lsn = pos
                /\ Redone(pool[p], disk_log[pos]).room = RoomAfter(disk_log, pos, disk_log[pos].page)
                /\ \A s \in Slot : Redone(pool[p], disk_log[pos]).slots[s] =
                                    SlotAfter(disk_log, pos, disk_log[pos].page, s)
            BY <1>2, <1>3, <5>2, <6>1, RedoneSlots
          <6> QED
            BY <6>1, <6>2 DEF rec
        <5> QED
          BY <1>2, <1>3, <3>3, <4>1, <5>1, <5>3
      <4>3. CASE ~(rec.type \in Change /\ rec.page = p)
        <5>1. pool'[p] = pool[p]
          BY <1>1, <4>3 DEF RecoveryInvariant, LogInvariant, TypeOK
        <5>2. /\ RoomAfter(disk_log, (pos - 1) + 1, p) = RoomAfter(disk_log, pos - 1, p)
              /\ \A s \in Slot : SlotAfter(disk_log, (pos - 1) + 1, p, s) = SlotAfter(disk_log, pos - 1, p, s)
          BY <1>3, <4>3, SlotAfterNext, RoomAfterNext DEF rec
        <5>3. pool[p].page_lsn <= pos
          BY <1>2, <1>3, <3>1, <4>1
        <5> QED
          BY <1>3, <3>1, <4>1, <5>1, <5>2, <5>3
      <4> QED
        BY <4>2, <4>3
    <3> QED
      BY <1>2, <1>3, <3>2, <3>3
  <2>2. active_txns' = Analyzed(disk_log')
    BY <1>1, <1>5 DEF RedoneSoFar
  <2> QED
    BY <1>1, <2>1, <2>2 DEF RedoneSoFar
<1> HIDE DEF rec
<1> QED
  BY <1>1, <1>6, RecoveryKeepsDisk

\* The changes to a slot that undo() leaves in place once it has looked at
\* every record after k.
DoneAt(log, k, p, s) ==
    {i \in SlotChanges(log, Len(log), p, s) : i <= k \/ Finished(log, log[i].txn)}

\* undo() puts nothing back before it starts, and one tuple at most for a record.
LEMMA PutBacksNone ==
    ASSUME NEW log \in Seq(LogRecord), NEW p
    PROVE  PutBacks(log, Len(log), p) = {} /\ Cardinality(PutBacks(log, Len(log), p)) = 0
<1>1. Len(log) \in Nat
  OBVIOUS
<1>2. PutBacks(log, Len(log), p) = {}
  BY <1>1 DEF PutBacks
<1> QED
  BY <1>2, FS_EmptySet

LEMMA PutBacksNext ==
    ASSUME NEW log \in Seq(LogRecord), NEW k \in 1 .. Len(log), NEW p
    PROVE  LET here == /\ log[k].type \in Change /\ log[k].page = p /\ log[k].old # NoTuple
                       /\ ~Finished(log, log[k].txn)
           IN  /\ PutBacks(log, k, p) \subseteq PutBacks(log, k - 1, p)
               /\ Cardinality(PutBacks(log, k, p)) \in Nat
               /\ here => k \in PutBacks(log, k - 1, p)
               /\ Cardinality(PutBacks(log, k - 1, p)) =
                      Cardinality(PutBacks(log, k, p)) + (IF here THEN 1 ELSE 0)
<1> DEFINE here == /\ log[k].type \in Change /\ log[k].page = p /\ log[k].old # NoTuple
                   /\ ~Finished(log, log[k].txn)
           A == PutBacks(log, k, p)
           B == PutBacks(log, k - 1, p)
<1>1. Len(log) \in Nat /\ k \in Nat /\ k <= Len(log) /\ k >= 1
  OBVIOUS
<1>2. A \in SUBSET (k + 1 .. Len(log)) /\ k \notin A
  BY <1>1 DEF PutBacks
<1>3. IsFiniteSet(A) /\ Cardinality(A) \in Nat
  <2>1. IsFiniteSet(k + 1 .. Len(log))
    BY <1>1, FS_Interval
  <2> HIDE DEF A
  <2> QED
    BY <1>2, <2>1, FS_Subset, FS_CardinalityType
<1>4. (k - 1) + 1 = k /\ \A i \in k .. Len(log) : i = k \/ i \in k + 1 .. Len(log)
  BY <1>1
<1>5. \A i \in k + 1 .. Len(log) : i \in k .. Len(log)
  BY <1>1
<1>6. k \in k .. Len(log)
  BY <1>1
<1>7. ASSUME here PROVE B = A \cup {k}
  BY <1>4, <1>5, <1>6, <1>7 DEF PutBacks
<1>8. ASSUME ~here PROVE B = A
  BY <1>4, <1>5, <1>8 DEF PutBacks
<1> HIDE DEF A, B, here
<1>9. ASSUME here PROVE Cardinality(B) = Cardinality(A) + 1
  BY <1>2, <1>3, <1>7, <1>9, FS_AddElement
<1>10. A \subseteq B /\ (here => k \in B)
  BY <1>7, <1>8
<1>11. Cardinality(B) = Cardinality(A) + (IF here THEN 1 ELSE 0)
  BY <1>3, <1>8, <1>9
<1> QED
  BY <1>3, <1>10, <1>11 DEF A, B, here

\* When redo() is through, every page it follows holds every logged change.
LEMMA RedoEndsKeepsLife ==
    ASSUME RecoveryInvariant, ~resumed, RedoEnds
    PROVE  FirstLife'
<1> DEFINE n == Len(disk_log)
<1>1. /\ phase = "redo" /\ pos > n /\ pos' = n /\ phase' = "undo" /\ pool' = pool
      /\ UNCHANGED <<logVars, disk, dirty, history>> /\ disk_log' = disk_log
      /\ active_txns' = active_txns
  BY DEF RedoEnds, logVars
<1>2. n \in Nat
  BY <1>1, CrashedFacts
<1>3. pos = n + 1
  BY <1>1, <1>2 DEF RecoveryInvariant, LogInvariant, PosInLog
<1>4. RedoneSoFar
  BY <1>1 DEF RecoveryInvariant, FirstLife
<1>5. ASSUME NEW p \in Page, NEW s \in Slot, Followed(p)'
      PROVE  pool[p].slots[s] = SlotAfter(disk_log, n, p, s)
  <2>1. Followed(p)
    BY <1>1, <1>5, FollowsSame
  <2>2. disk[p].page_lsn \in Nat /\ disk[p].page_lsn <= n
    BY <1>1, <2>1, CrashedFacts
  <2>3. Reached(p) = n
    BY <1>2, <1>3, <2>2 DEF Reached
  <2> QED
    BY <1>4, <2>1, <2>3 DEF RedoneSoFar
<1>6. ASSUME NEW p \in Page, NEW s \in Slot
      PROVE  LastNew(disk_log', StillDone(p, s)') = SlotAfter(disk_log, n, p, s)
  <2>1. StillDone(p, s)' = DoneAt(disk_log, n, p, s)
    BY <1>1 DEF StillDone, DoneAt
  <2>2. \A i \in SlotChanges(disk_log, n, p, s) : i <= n
    BY <1>2 DEF SlotChanges
  <2>3. StillDone(p, s)' = SlotChanges(disk_log, n, p, s)
    BY <2>1, <2>2 DEF DoneAt
  <2> QED
    BY <1>1, <2>3 DEF SlotAfter
<1>8. ASSUME NEW p \in Page, Followed(p)'
      PROVE  RoomAfter(disk_log, n, p) <= pool[p].room + Cardinality(PutBacks(disk_log, n, p))
  <2>1. Followed(p)
    BY <1>1, <1>8, FollowsSame
  <2>2. disk[p].page_lsn \in Nat /\ disk[p].page_lsn <= n
    BY <1>1, <2>1, CrashedFacts
  <2>3. Reached(p) = n
    BY <1>2, <1>3, <2>2 DEF Reached
  <2>4. pool[p].room = RoomAfter(disk_log, n, p)
    BY <1>4, <2>1, <2>3 DEF RedoneSoFar
  <2>5. disk_log \in Seq(LogRecord) /\ pool[p] \in PageImage
    BY <1>1, CrashedFacts
  <2>6. pool[p].room \in Nat
    BY <2>5, ImageFields, RecoveryAssumption
  <2>7. Cardinality(PutBacks(disk_log, n, p)) = 0
    BY <2>5, PutBacksNone
  <2> QED
    BY <2>4, <2>6, <2>7
<1>7. UndoneSoFar'
  <2>1. active_txns' = Analyzed(disk_log')
    BY <1>1, <1>4 DEF RedoneSoFar
  <2> QED
    BY <1>1, <1>5, <1>6, <1>8, <2>1 DEF UndoneSoFar
<1> QED
  BY <1>1, <1>7, RecoveryKeepsDisk

\* A record undo() passes over stands for no change to take back.
LEMMA PassedOver ==
    ASSUME NEW log \in Seq(LogRecord), NEW k \in 1 .. Len(log), NEW p, NEW s,
           \/ log[k].type \notin Change \/ log[k].page # p \/ log[k].slot # s
           \/ Finished(log, log[k].txn)
    PROVE  DoneAt(log, k - 1, p, s) = DoneAt(log, k, p, s)
<1>1. Len(log) \in Nat /\ k \in Int
  OBVIOUS
<1>2. ASSUME NEW i \in SlotChanges(log, Len(log), p, s)
      PROVE  i <= k - 1 \/ Finished(log, log[i].txn) <=> i <= k \/ Finished(log, log[i].txn)
  <2>1. i \in Int /\ log[i].type \in Change /\ log[i].page = p /\ log[i].slot = s
    BY DEF SlotChanges
  <2>2. i = k => Finished(log, log[i].txn)
    BY <2>1
  <2> QED
    BY <1>1, <2>1, <2>2
<1> QED
  BY <1>2 DEF DoneAt

\* A change of an unfinished transaction is the last one its slot still has
\* when undo() comes to it, and the changes before it are all there.
LEMMA TakenBack ==
    ASSUME NEW log \in Seq(LogRecord), LogWhole(log), NEW k \in 1 .. Len(log),
           log[k].type \in Change, ~Finished(log, log[k].txn)
    PROVE  /\ LastNew(log, DoneAt(log, k, log[k].page, log[k].slot)) = log[k].new
           /\ LastNew(log, DoneAt(log, k - 1, log[k].page, log[k].slot)) = log[k].old
<1> DEFINE n == Len(log)
           p == log[k].page
           s == log[k].slot
           A == DoneAt(log, k, p, s)
<1>1. n \in Nat /\ k \in Nat /\ k - 1 \in Nat /\ k <= n
  OBVIOUS
<1>2. ASSUME NEW j \in SlotChanges(log, n, p, s), j > k PROVE ~Finished(log, log[j].txn)
  <2> SUFFICES ASSUME Finished(log, log[j].txn) PROVE FALSE
    OBVIOUS
  <2>1. j \in 1 .. n /\ log[j].type \in Change /\ log[j].page = p /\ log[j].slot = s
    BY DEF SlotChanges
  <2>2. ChangeWhole(log, j)
    BY <2>1 DEF LogWhole
  <2>3. k \in 1 .. j - 1
    BY <1>1, <1>2, <2>1
  <2>4. k \in SlotChanges(log, j - 1, log[j].page, log[j].slot)
    BY <2>1, <2>3 DEF SlotChanges
  <2>5. PICK f \in 1 .. j - 1 : IsFinish(log[f], log[k].txn)
    BY <2>2, <2>4 DEF ChangeWhole
  <2>6. f \in 1 .. n
    BY <1>1, <2>1
  <2> QED
    BY <2>5, <2>6 DEF Finished
<1>3. A \in SUBSET (1 .. n) /\ k \in A /\ \A j \in A : j <= k
  <2>1. A \in SUBSET (1 .. n) /\ k \in A
    BY <1>1 DEF DoneAt, SlotChanges
  <2>2. ASSUME NEW j \in A PROVE j <= k
    <3>1. j \in SlotChanges(log, n, p, s) /\ (j <= k \/ Finished(log, log[j].txn)) /\ j \in Int
      BY <2>1 DEF DoneAt
    <3> QED
      BY <1>1, <1>2, <3>1
  <2> QED
    BY <2>1, <2>2
<1>4. DoneAt(log, k - 1, p, s) = SlotChanges(log, k - 1, p, s)
  <2>1. ASSUME NEW j \in DoneAt(log, k - 1, p, s) PROVE j \in SlotChanges(log, k - 1, p, s)
    <3>1. /\ j \in 1 .. n /\ log[j].type \in Change /\ log[j].page = p /\ log[j].slot = s
          /\ j \in SlotChanges(log, n, p, s) /\ (j <= k - 1 \/ Finished(log, log[j].txn))
      BY DEF DoneAt, SlotChanges
    <3>2. j <= k
      BY <1>1, <1>2, <3>1
    <3>3. j # k
      BY <1>1, <3>1
    <3>4. j \in 1 .. k - 1
      BY <1>1, <3>1, <3>2, <3>3
    <3> QED
      BY <3>1, <3>4 DEF SlotChanges
  <2>2. ASSUME NEW j \in SlotChanges(log, k - 1, p, s) PROVE j \in DoneAt(log, k - 1, p, s)
    BY <1>1 DEF DoneAt, SlotChanges
  <2> QED
    BY <2>1, <2>2
<1> HIDE DEF A, n
<1>5. LastNew(log, A) = log[k].new
  BY <1>1, <1>3, LastNewIs
<1>6. ChangeWhole(log, k)
  BY DEF LogWhole
<1>7. log[k].old = SlotAfter(log, k - 1, p, s)
  BY <1>6 DEF ChangeWhole
<1> QED
  BY <1>4, <1>5, <1>7 DEF SlotAfter, A

\* Undoing a change of an unfinished transaction brings the page it changes one
\* record further back, or finds it full and leaves the slot as it is.
LEMMA UndonePage ==
    ASSUME NEW log \in Seq(LogRecord), LogWhole(log), NEW k \in 1 .. Len(log),
           log[k].type \in Change, ~Finished(log, log[k].txn), NEW image \in PageImage,
           \A s \in Slot :
              \/ image.slots[s] = LastNew(log, DoneAt(log, k, log[k].page, s))
              \/ image.room = 0 /\ LastNew(log, DoneAt(log, k, log[k].page, s)) # NoTuple
    PROVE  /\ image.room = 0 => TakeBack(image, log[k]).room = 0
           /\ \A s \in Slot :
                 \/ TakeBack(image, log[k]).slots[s] = LastNew(log, DoneAt(log, k - 1, log[k].page, s))
                 \/ /\ image.room = 0 /\ LastNew(log, DoneAt(log, k - 1, log[k].page, s)) # NoTuple
                    /\ \/ s = log[k].slot
                       \/ image.slots[s] # LastNew(log, DoneAt(log, k, log[k].page, s))
<1> DEFINE rec == log[k]
           p == rec.page
           now(s) == LastNew(log, DoneAt(log, k, p, s))
           next(s) == LastNew(log, DoneAt(log, k - 1, p, s))
<1>1. /\ rec \in LogRecord /\ rec.type \in Change /\ Sound(rec)
      /\ rec.slot \in Slot /\ rec.old \in Tuple \cup {NoTuple}
  BY RecordFields DEF LogWhole, ChangeWhole, Sound
<1>2. now(rec.slot) = rec.new /\ next(rec.slot) = rec.old
  BY TakenBack
<1>3. \A s \in Slot \ {rec.slot} : next(s) = now(s)
  BY PassedOver
<1>4. image.slots \in [Slot -> Tuple \cup {NoTuple}] /\ image.room \in Nat
  BY ImageFields, RecoveryAssumption
<1>5. \A s \in Slot : image.slots[s] = now(s) \/ (image.room = 0 /\ now(s) # NoTuple)
  OBVIOUS
<1>6. (rec.type = "INSERT" <=> rec.old = NoTuple)
  BY <1>1 DEF Sound, ChangeType
<1> HIDE DEF rec, now, next
<1>7. CASE image.room = 0
  <2>1. /\ TakeBack(image, rec).room = 0
        /\ TakeBack(image, rec).slots = IF rec.type = "INSERT"
                                        THEN [image.slots EXCEPT ![rec.slot] = NoTuple]
                                        ELSE image.slots
    BY <1>1, <1>7, TakeBackFull
  <2>2. ASSUME NEW s \in Slot
        PROVE  \/ TakeBack(image, rec).slots[s] = next(s)
               \/ next(s) # NoTuple /\ (s = rec.slot \/ image.slots[s] # now(s))
    <3>1. CASE s = rec.slot
      BY <1>2, <1>4, <1>6, <2>1, <3>1
    <3>2. CASE s # rec.slot
      <4>1. TakeBack(image, rec).slots[s] = image.slots[s] /\ next(s) = now(s)
        BY <1>3, <1>4, <2>1, <3>2
      <4> QED
        BY <1>5, <4>1
    <3> QED
      BY <3>1, <3>2
  <2> QED
    BY <1>7, <2>1, <2>2 DEF rec, now, next
<1>8. CASE image.room > 0
  <2>1. \A s \in Slot : image.slots[s] = now(s)
    BY <1>4, <1>5, <1>8
  <2>2. TakeBack(image, rec).slots = [image.slots EXCEPT ![rec.slot] = rec.old]
    BY <1>1, <1>2, <1>8, <2>1, TakeBackEffect
  <2>3. \A s \in Slot : TakeBack(image, rec).slots[s] = next(s)
    BY <1>2, <1>3, <1>4, <2>1, <2>2
  <2> QED
    BY <1>8, <2>3 DEF rec, now, next
<1> QED
  BY <1>4, <1>7, <1>8

\* A step of undo() takes back the change it looks at, if it is one of an
\* unfinished transaction.
LEMMA UndoKeepsLife ==
    ASSUME RecoveryInvariant, ~resumed, Undo
    PROVE  FirstLife'
<1> DEFINE rec == disk_log[pos]
           n == Len(disk_log)
           taken == rec.txn \in active_txns /\ rec.type \in Change
           now(p, s) == LastNew(disk_log, DoneAt(disk_log, pos, p, s))
           next(p, s) == LastNew(disk_log, DoneAt(disk_log, pos - 1, p, s))
           back(p, k) == PutBacks(disk_log, k, p)
           tried(p, s, k) == \E i \in back(p, k) : disk_log[i].slot = s /\ PutBackRefused(i)
<1>1. /\ phase = "undo" /\ pos >= 1 /\ pos' = pos - 1 /\ phase' = phase
      /\ pool' = IF taken THEN [pool EXCEPT ![rec.page] = TakeBack(pool[rec.page], rec)] ELSE pool
      /\ UNCHANGED <<logVars, disk, dirty, history>> /\ disk_log' = disk_log
      /\ active_txns' = active_txns
  BY DEF Undo, logVars
<1>2. /\ disk_log \in Seq(LogRecord) /\ LogWhole(disk_log) /\ n \in Nat
      /\ \A p \in Page : pool[p] \in PageImage
  BY <1>1, CrashedFacts
<1>3. pos \in 1 .. n
  BY <1>1, <1>2 DEF RecoveryInvariant, LogInvariant, PosInLog
<1>4. UndoneSoFar
  BY <1>1 DEF RecoveryInvariant, FirstLife
<1>5. rec.type \in Change => (taken <=> ~Finished(disk_log, rec.txn))
  BY <1>2, <1>3, <1>4, AnalyzedIs DEF UndoneSoFar
<1>6. rec \in LogRecord
  BY <1>2, <1>3
<1>7. \A p \in Page, s \in Slot :
         /\ StillDone(p, s) = DoneAt(disk_log, pos, p, s)
         /\ StillDone(p, s)' = DoneAt(disk_log, pos - 1, p, s)
  BY <1>1 DEF StillDone, DoneAt
<1>8. ASSUME NEW p \in Page, NEW s \in Slot, Followed(p)'
      PROVE  \/ pool[p].slots[s] = now(p, s)
             \/ pool[p].room = 0 /\ now(p, s) # NoTuple /\ tried(p, s, pos)
  <2>1. Followed(p)
    BY <1>1, <1>8, FollowsSame
  <2> QED
    BY <1>4, <1>7, <2>1 DEF UndoneSoFar, RefusedSoFar
<1>9. \A p, s : tried(p, s, pos) => tried(p, s, pos - 1)
  <2>1. \A p : back(p, pos) \subseteq back(p, pos - 1)
    BY <1>2, <1>3, PutBacksNext
  <2> HIDE DEF back
  <2> QED
    BY <2>1
<1>12. ASSUME NEW p \in Page, Followed(p)'
       PROVE  RoomAfter(disk_log, n, p) <= pool[p].room + Cardinality(back(p, pos))
  <2>1. Followed(p)
    BY <1>1, <1>12, FollowsSame
  <2> QED
    BY <1>4, <2>1 DEF UndoneSoFar
<1>10. ASSUME NEW p \in Page, NEW s \in Slot, Followed(p)'
       PROVE  \/ pool'[p].slots[s] = next(p, s)
              \/ pool'[p].room = 0 /\ next(p, s) # NoTuple /\ tried(p, s, pos - 1)
  <2>1. CASE taken /\ rec.page = p
    <3>1. pool'[p] = TakeBack(pool[p], rec)
      BY <1>1, <2>1 DEF RecoveryInvariant, LogInvariant, TypeOK
    <3>2. rec.type \in Change /\ ~Finished(disk_log, rec.txn)
      BY <1>5, <2>1
    <3>3. /\ pool[p].room = 0 => TakeBack(pool[p], rec).room = 0
          /\ \/ TakeBack(pool[p], rec).slots[s] = next(p, s)
             \/ /\ pool[p].room = 0 /\ next(p, s) # NoTuple
                /\ s = rec.slot \/ pool[p].slots[s] # now(p, s)
      <4>1. \A r \in Slot :
               \/ pool[p].slots[r] = LastNew(disk_log, DoneAt(disk_log, pos, disk_log[pos].page, r))
               \/ /\ pool[p].room = 0
                  /\ LastNew(disk_log, DoneAt(disk_log, pos, disk_log[pos].page, r)) # NoTuple
        BY <1>8, <1>10, <2>1
      <4> QED
        BY <1>2, <1>3, <2>1, <3>2, <4>1, UndonePage
    <3>4. s = rec.slot /\ pool[p].room = 0 /\ next(p, s) # NoTuple => tried(p, s, pos - 1)
      <4> SUFFICES ASSUME s = rec.slot, pool[p].room = 0, next(p, s) # NoTuple
                   PROVE  tried(p, s, pos - 1)
        OBVIOUS
      <4>1. next(p, s) = rec.old
        BY <1>2, <1>3, <2>1, <3>2, TakenBack
      <4>2. pos \in back(p, pos - 1) /\ Cardinality(back(p, pos)) \in Nat
        BY <1>2, <1>3, <2>1, <3>2, <4>1, PutBacksNext
      <4>3. RoomAfter(disk_log, n, p) <= Cardinality(back(p, pos))
        BY <1>10, <1>12, <4>2
      <4>4. PutBackRefused(pos)
        BY <2>1, <4>3 DEF PutBackRefused
      <4> HIDE DEF back
      <4> QED
        BY <4>2, <4>4
    <3>5. pool[p].slots[s] # now(p, s) => tried(p, s, pos - 1)
      BY <1>8, <1>9, <1>10
    <3> HIDE DEF rec, next, now, tried
    <3> QED
      BY <3>1, <3>3, <3>4, <3>5
  <2>2. CASE ~(taken /\ rec.page = p)
    <3>1. pool'[p] = pool[p]
      BY <1>1, <2>2 DEF RecoveryInvariant, LogInvariant, TypeOK
    <3>2. next(p, s) = now(p, s)
      <4>1. DoneAt(disk_log, pos - 1, p, s) = DoneAt(disk_log, pos, p, s)
        BY <1>2, <1>3, <1>5, <2>2, PassedOver
      <4> QED
        BY <4>1
    <3> HIDE DEF rec, next, now, tried, taken
    <3> QED
      BY <1>8, <1>9, <1>10, <3>1, <3>2
  <2> QED
    BY <2>1, <2>2
<1>13. ASSUME NEW p \in Page, Followed(p)'
       PROVE  RoomAfter(disk_log, n, p) <= pool'[p].room + Cardinality(back(p, pos - 1))
  <2>1. /\ RoomAfter(disk_log, n, p) <= pool[p].room + Cardinality(back(p, pos))
        /\ RoomAfter(disk_log, n, p) \in Int
    <3>1. Cardinality(Puts(disk_log, n, p)) \in Nat
      BY <1>2, PutsFinite
    <3> QED
      BY <1>12, <1>13, <3>1, RecoveryAssumption DEF RoomAfter
  <2>2. Cardinality(back(p, pos)) \in Nat /\ pool[p].room \in Nat
    BY <1>2, <1>3, PutBacksNext, ImageFields, RecoveryAssumption
  <2>3. CASE taken /\ rec.page = p
    <3>1. pool'[p] = TakeBack(pool[p], rec)
      BY <1>1, <2>3 DEF RecoveryInvariant, LogInvariant, TypeOK
    <3>2. rec.type \in Change /\ ~Finished(disk_log, rec.txn)
      BY <1>5, <2>3
    <3>3. Cardinality(back(p, pos - 1)) =
             Cardinality(back(p, pos)) + (IF rec.old # NoTuple THEN 1 ELSE 0)
      BY <1>2, <1>3, <2>3, <3>2, PutBacksNext
    <3>4. Sound(rec) /\ pool[p] \in PageImage
      BY <1>2, <1>3, <3>2 DEF LogWhole, ChangeWhole, Sound
    <3>5. pool[p].room <= pool'[p].room + (IF rec.old # NoTuple THEN 1 ELSE 0)
      BY <1>6, <3>1, <3>2, <3>4, TakeBackRoom
    <3>6. pool'[p].room \in Nat
      <4>1. pool' \in [Page -> PageImage]
        BY UndoKeepsLog DEF RecoveryInvariant, LogInvariant, TypeOK
      <4> QED
        BY <4>1, ImageFields, RecoveryAssumption
    <3>7. Cardinality(back(p, pos - 1)) \in Nat
      BY <2>2, <3>3
    <3> HIDE DEF back, rec
    <3>8. CASE rec.old # NoTuple
      BY <2>1, <2>2, <3>3, <3>5, <3>6, <3>7, <3>8
    <3>9. CASE rec.old = NoTuple
      BY <2>1, <2>2, <3>3, <3>5, <3>6, <3>7, <3>9
    <3> QED
      BY <3>8, <3>9
  <2>4. CASE ~(taken /\ rec.page = p)
    <3>1. pool'[p] = pool[p]
      BY <1>1, <2>4 DEF RecoveryInvariant, LogInvariant, TypeOK
    <3>2. \/ Cardinality(back(p, pos - 1)) = Cardinality(back(p, pos)) + 1
          \/ Cardinality(back(p, pos - 1)) = Cardinality(back(p, pos)) + 0
      BY <1>2, <1>3, PutBacksNext
    <3> HIDE DEF back, rec, taken
    <3> QED
      BY <1>2, <2>1, <2>2, <3>1, <3>2
  <2> QED
    BY <2>3, <2>4
<1> HIDE DEF rec, taken
<1>11. UndoneSoFar'
  <2>1. active_txns' = Analyzed(disk_log')
    BY <1>1, <1>4 DEF UndoneSoFar
  <2>3. \A p \in Page : Followed(p)' =>
           RoomAfter(disk_log', Len(disk_log'), p)
              <= pool'[p].room + Cardinality(PutBacks(disk_log', pos', p))
    BY <1>1, <1>13
  <2>2. ASSUME NEW p \in Page, NEW s \in Slot, Followed(p)'
        PROVE  pool'[p].slots[s] = LastNew(disk_log', StillDone(p, s)') \/ RefusedSoFar(p, s)'
    <3>1. LastNew(disk_log', StillDone(p, s)') = next(p, s)
      BY <1>1, <1>7
    <3>2. pool'[p].room = 0 /\ next(p, s) # NoTuple /\ tried(p, s, pos - 1) => RefusedSoFar(p, s)'
      BY <1>1, <3>1 DEF RefusedSoFar, PutBackRefused
    <3> HIDE DEF next, tried
    <3> QED
      BY <1>10, <2>2, <3>1, <3>2
  <2> QED
    BY <2>1, <2>2, <2>3 DEF UndoneSoFar
<1> HIDE DEF n, now, next, tried, back
<1> QED
  BY <1>1, <1>11, RecoveryKeepsDisk

\* When undo() is through, only what finished transactions did is left, but for
\* the old tuples full pages refused.
LEMMA UndoEndsKeepsLife ==
    ASSUME RecoveryInvariant, ~resumed, UndoEnds
    PROVE  FirstLife'
<1>1. /\ phase = "undo" /\ pos = 0 /\ phase' = "recovered" /\ pool' = pool
      /\ UNCHANGED <<logVars, disk, dirty, history>> /\ disk_log' = disk_log
  BY DEF UndoEnds, logVars
<1>2. UndoneSoFar
  BY <1>1 DEF RecoveryInvariant, FirstLife
<1>3. ASSUME NEW p \in Page, NEW s \in Slot, Followed(p)'
      PROVE  pool'[p].slots[s] = Expected(p, s)' \/ Refused(p, s)'
  <2>1. Followed(p)
    BY <1>1, <1>3, FollowsSame
  <2>2. FinishedChanges(p, s) = StillDone(p, s)
    BY <1>1 DEF FinishedChanges, StillDone, SlotChanges
  <2>3. Expected(p, s)' = LastNew(disk_log, StillDone(p, s)) /\ Expected(p, s)' = Expected(p, s)
    BY <1>1, <2>2 DEF Expected, FinishedChanges
  <2>4. RefusedSoFar(p, s) => Refused(p, s)'
    BY <1>1, <2>3 DEF RefusedSoFar, Refused, PutBackRefused
  <2> QED
    BY <1>1, <1>2, <2>1, <2>3, <2>4 DEF UndoneSoFar
<1>4. Restored'
  BY <1>3 DEF Restored
<1> QED
  BY <1>1, <1>4, RecoveryKeepsDisk

-----------------------------------------------------------------------------
(***************************************************************************)
(* The theorem about recovery                                              *)
(***************************************************************************)

\* Every step of the first life keeps it whole.
LEMMA StepKeepsLife ==
    ASSUME RecoveryInvariant, [Next]_vars
    PROVE  FirstLife'
<1>1. CASE resumed
  <2>1. resumed' = TRUE
    BY <1>1 DEF Next, vars, history, BeginTxn, CommitTxn, AbortTxn, FinishTxn, ChangeTuple, Flush,
                WritePage, EvictPage, Crash, Analyze, Redo, RedoEnds, Undo, UndoEnds, Resume,
                RecoveryInvariant, LogInvariant, TypeOK
  <2> QED
    BY <2>1 DEF FirstLife
<1>2. CASE ~resumed
  <2>1. ASSUME NEW t \in Txn, BeginTxn(t) PROVE FirstLife'
    BY <1>2, <2>1, MarkKeepsLife DEF BeginTxn
  <2>2. ASSUME NEW t \in Txn, CommitTxn(t) \/ AbortTxn(t) PROVE FirstLife'
    <3>1. PICK type \in {"COMMIT", "ABORT"} : FinishTxn(t, type)
      BY <2>2 DEF CommitTxn, AbortTxn
    <3>2. type \in {"BEGIN", "COMMIT", "ABORT"} /\ type # "BEGIN"
      OBVIOUS
    <3> QED
      BY <1>2, <3>1, <3>2, MarkKeepsLife DEF FinishTxn
  <2>3. CASE Resume
    BY <2>3 DEF Resume, FirstLife
  <2>4. CASE UNCHANGED vars
    <3>1. FirstLife
      BY DEF RecoveryInvariant
    <3> QED
      BY <2>4, <3>1 DEF vars, logVars, recoveryVars, history, FirstLife, WholeLog, DiskWhole,
         RunningWhole, StatusWhole, PoolWhole, RedoneSoFar, Reached, UndoneSoFar, StillDone,
         RefusedSoFar, PutBackRefused, Restored, Refused, Followed, Expected, FinishedChanges
  <2> QED
    BY <1>2, <2>1, <2>2, <2>3, <2>4, ChangeKeepsLife, FlushKeepsLife, WriteKeepsLife, EvictKeepsLife,
       CrashKeepsLife, AnalyzeKeepsLife, RedoKeepsLife, RedoEndsKeepsLife, UndoKeepsLife,
       UndoEndsKeepsLife DEF Next
<1> QED
  BY <1>1, <1>2

\* The empty database is in its first life.
LEMMA InitialLife == Init => FirstLife
<1> SUFFICES ASSUME Init PROVE FirstLife
  OBVIOUS
<1>1. WholeLog = <<>> /\ Len(WholeLog) = 0 /\ Len(disk_log) = 0
  BY DEF Init, WholeLog
<1>2. Room \in Nat
  BY RecoveryAssumption
<1>3. ASSUME NEW p \in Page
      PROVE  /\ disk[p].page_lsn = 0 /\ disk[p].room = Room /\ pool[p] = disk[p]
             /\ \A s \in Slot : disk[p].slots[s] = NoTuple
  BY DEF Init, EmptyPage
<1>4. \A p \in Page, s \in Slot : /\ SlotChanges(WholeLog, 0, p, s) = {}
                                  /\ SlotAfter(WholeLog, 0, p, s) = NoTuple
  BY SlotAfterNone
<1>5. DiskWhole
  BY <1>1, <1>2, <1>3, <1>4, RoomAfterNone DEF DiskWhole
<1>6. PoolWhole
  BY <1>1, <1>2, <1>3, <1>4, RoomAfterNone DEF PoolWhole
<1>7. StatusWhole
  BY <1>1 DEF Init, StatusWhole
<1>8. LogWhole(WholeLog)
  BY <1>1 DEF LogWhole
<1> QED
  BY <1>1, <1>5, <1>6, <1>7, <1>8 DEF Init, FirstLife, RunningWhole

\* The recovery invariant holds in every reachable state.
THEOREM RecoverySound == Spec => []RecoveryInvariant
<1>1. RecoveryInvariant /\ [Next]_vars => RecoveryInvariant'
  <2>1. RecoveryInvariant /\ [Next]_vars => LogInvariant'
    BY StepKeepsLog DEF RecoveryInvariant
  <2>2. RecoveryInvariant /\ [Next]_vars => FirstLife'
    BY StepKeepsLife
  <2> QED
    BY <2>1, <2>2 DEF RecoveryInvariant
<1>2. Init => RecoveryInvariant
  BY InitialLog, InitialLife DEF RecoveryInvariant
<1> QED
  BY <1>1, <1>2, PTL DEF Spec

\* recover() restores exactly what finished transactions left, whichever pages
\* had reached the disk and however often recovery was interrupted by another
\* crash, on pages of any size: but for a page that was written before its log
\* records, a page that was evicted during recovery, and an old tuple that
\* undo() could not put back on a full page.
THEOREM RecoveredStateAlways == Spec => []RecoveredState
<1>1. RecoveryInvariant => RecoveredState
  BY DEF RecoveryInvariant, FirstLife, RecoveredState
<1> QED
  BY <1>1, RecoverySound, PTL
=============================================================================
