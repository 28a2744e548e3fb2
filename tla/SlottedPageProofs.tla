------------------------- MODULE SlottedPageProofs --------------------------
(***************************************************************************)
(* Theorems about the slotted page: its layout is kept by every operation, *)
(* compact() reclaims exactly what live tuples do not need, and the page   *)
(* implements the list of records of RecordPage, for every body size and   *)
(* every set of tuples.                                                    *)
(*                                                                         *)
(* The three operations that store a tuple are instances of one step,      *)
(* PutStep, and are reasoned about once.  For compact(), the offset it     *)
(* computes for slot i is the end of the body less the number of bytes     *)
(* that the live slots from i on cover.                                    *)
(***************************************************************************)
EXTENDS SlottedPage, FiniteSetTheorems, SequenceTheorems,
        WellFoundedInduction, TLAPS

\* The order of the naturals as a relation.
Below == {p \in Nat \X Nat : p[1] < p[2]}

\* Every nonempty set of naturals has a least element.
LEMMA LeastNumber ==
    ASSUME NEW T \in SUBSET Nat, T # {}
    PROVE  \E m \in T : \A k \in T : m <= k
<1>1. IsWellFoundedOn(Below, Nat)
  BY NatLessThanWellFounded, Zenon DEF OpToRel, Below
<1>2. \E m \in T : \A k \in T : ~(<<k, m>> \in Below)
  BY <1>1, WFMin, Zenon
<1>3. \A k, m \in Nat : ~(<<k, m>> \in Below) => m <= k
  BY DEF Below
<1> QED
  BY <1>2, <1>3

\* The bytes that the live slots from i on cover.
LiveBytes(i) == UNION {Extent(j) : j \in {j \in i .. slot_count : Live(j)}}

LiveSlots == {i \in 1 .. slot_count : Live(i)}

\* A tuple is stored in slot at, the directory growing to m slots.
PutStep(at, m, tuple) ==
    /\ m \in Nat /\ slot_count <= m /\ at \in 1 .. m
    /\ Len(tuple) + SlotSize * (m - slot_count) <= free_space_end - free_space_start
    /\ body' = Placed(tuple)
    /\ slots' \in Seq(TupleSlot) /\ Len(slots') = m
    /\ slots'[at] = NewSlot(tuple)
    /\ \A i \in 1 .. slot_count : i # at => slots'[i] = slots[i]
    /\ \A i \in slot_count + 1 .. m : i # at => slots'[i] = EmptySlot
    /\ free_space_start' = free_space_start + SlotSize * (m - slot_count)
    /\ free_space_end' = free_space_end - Len(tuple)
    /\ tuple_count' = IF Live(at) THEN tuple_count ELSE tuple_count + 1

-----------------------------------------------------------------------------
(***************************************************************************)
(* Storing a tuple                                                         *)
(***************************************************************************)

\* A stored tuple has at least one byte.
LEMMA TupleLength ==
    ASSUME NEW tuple \in Tuple
    PROVE  /\ tuple \in Seq(0 .. 255) /\ Len(tuple) \in Nat \ {0}
           /\ [k \in 1 .. Len(tuple) |-> tuple[k]] = tuple
<1>1. tuple \in Seq(0 .. 255) /\ tuple # <<>>
  BY LayoutAssumption, Zenon
<1> QED
  BY <1>1, EmptySeq

\* The fields of a slot.
LEMMA SlotFields ==
    ASSUME PageInvariant, NEW i \in 1 .. slot_count
    PROVE  slots[i].offset \in Nat /\ slots[i].length \in Nat /\ slots[i].deleted \in BOOLEAN
<1>1. slots[i] \in TupleSlot
  BY DEF PageInvariant, TypeOK, slot_count
<1> QED
  BY <1>1 DEF TupleSlot

\* The space a step with room for d new slots leaves.
LEMMA RoomLeft ==
    ASSUME TypeOK, Layout, NEW d \in Nat, NEW tuple \in Tuple,
           Len(tuple) + SlotSize * d <= free_space_end - free_space_start
    PROVE  /\ SlotSize * d \in Nat
           /\ free_space_end - Len(tuple) \in Nat
           /\ free_space_start + SlotSize * d \in Nat
           /\ free_space_start + SlotSize * d <= free_space_end - Len(tuple)
           /\ free_space_start + SlotSize * d = HeaderSize + SlotSize * (slot_count + d)
           /\ free_space_end - Len(tuple) <= BodySize
<1>1. slot_count \in Nat /\ Len(tuple) \in Nat
  BY TupleLength DEF TypeOK, slot_count
<1>2. SlotSize \in Nat /\ HeaderSize \in Nat /\ BodySize \in Nat
  BY LayoutAssumption
<1>3. SlotSize * d \in Nat
  BY <1>2
<1>4. SlotSize * (slot_count + d) = SlotSize * slot_count + SlotSize * d
  BY <1>1, <1>2
<1>5. SlotSize * slot_count \in Nat
  BY <1>1, <1>2
<1>6. /\ free_space_start = HeaderSize + SlotSize * slot_count
      /\ free_space_end <= BodySize
      /\ free_space_start \in Nat /\ free_space_end \in Nat
  BY DEF TypeOK, Layout
<1> QED
  BY <1>1, <1>2, <1>3, <1>4, <1>5, <1>6

\* A live slot keeps its bytes and its place when a tuple is put elsewhere.
LEMMA PutElsewhere ==
    ASSUME PageInvariant, NEW at, NEW m, NEW tuple \in Tuple, PutStep(at, m, tuple),
           NEW i \in 1 .. slot_count, i # at
    PROVE  /\ i \in 1 .. slot_count' /\ slots'[i] = slots[i] /\ Extent(i)' = Extent(i)
           /\ Live(i)' <=> Live(i)
           /\ Live(i) => Bytes(i)' = Bytes(i)
<1>1. slot_count \in Nat /\ i \in 1 .. slot_count' /\ slots'[i] = slots[i]
  BY DEF PutStep, PageInvariant, TypeOK, slot_count
<1>2. (Live(i)' <=> Live(i)) /\ Extent(i)' = Extent(i)
  BY <1>1 DEF Live, Extent
<1>3. ASSUME Live(i) PROVE Bytes(i)' = Bytes(i)
  <2>1. slots[i].offset \in Nat /\ slots[i].length \in Nat
    BY SlotFields
  <2>2. Extent(i) \subseteq free_space_end .. BodySize - 1
    BY <1>3 DEF PageInvariant, Layout
  <2>3. BodySize \in Nat /\ free_space_end \in Nat /\ DOMAIN body = 0 .. BodySize - 1
    BY LayoutAssumption DEF PageInvariant, TypeOK
  <2>4. ASSUME NEW k \in 1 .. slots[i].length
        PROVE  body'[slots[i].offset + k - 1] = body[slots[i].offset + k - 1]
    <3>1. slots[i].offset + k - 1 \in Extent(i)
      BY <2>1 DEF Extent
    <3>2. slots[i].offset + k - 1 \in DOMAIN body /\ slots[i].offset + k - 1 >= free_space_end
      BY <2>1, <2>2, <2>3, <3>1
    <3>3. body' = Placed(tuple)
      BY DEF PutStep
    <3> QED
      BY <2>1, <2>3, <3>2, <3>3 DEF Placed
  <2> QED
    BY <1>1, <2>4 DEF Bytes
<1> QED
  BY <1>1, <1>2, <1>3

\* The slot that is put holds the tuple, in the space the step took.
LEMMA PutHere ==
    ASSUME PageInvariant, NEW at, NEW m, NEW tuple \in Tuple, PutStep(at, m, tuple)
    PROVE  /\ at \in 1 .. slot_count' /\ Live(at)' /\ Bytes(at)' = tuple
           /\ Extent(at)' = free_space_end' .. free_space_end - 1
<1>1. at \in 1 .. slot_count' /\ slots'[at] = NewSlot(tuple)
  BY DEF PutStep, slot_count
<1>2. /\ slots'[at].offset = free_space_end - Len(tuple)
      /\ slots'[at].length = Len(tuple) /\ slots'[at].deleted = FALSE
  BY <1>1 DEF NewSlot
<1>3. /\ Len(tuple) \in Nat /\ free_space_end \in Nat /\ free_space_end - Len(tuple) \in Nat
      /\ free_space_end <= BodySize /\ free_space_end' = free_space_end - Len(tuple)
  <2>1. m - slot_count \in Nat /\ slot_count \in Nat
    BY DEF PutStep, PageInvariant, TypeOK, slot_count
  <2>2. free_space_end - Len(tuple) \in Nat
    BY <2>1, RoomLeft DEF PageInvariant, PutStep
  <2> QED
    BY <2>2, TupleLength DEF PageInvariant, TypeOK, Layout, PutStep
<1>4. Extent(at)' = free_space_end' .. free_space_end - 1
  BY <1>2, <1>3 DEF Extent
<1>5. ASSUME NEW k \in 1 .. Len(tuple)
      PROVE  body'[free_space_end - Len(tuple) + k - 1] = tuple[k]
  <2>1. BodySize \in Nat /\ DOMAIN body = 0 .. BodySize - 1 /\ body' = Placed(tuple)
    BY LayoutAssumption DEF PageInvariant, TypeOK, PutStep
  <2>2. free_space_end - Len(tuple) + k - 1 \in DOMAIN body
    BY <1>3, <2>1
  <2> QED
    BY <1>3, <2>1, <2>2 DEF Placed
<1>6. Bytes(at)' = [k \in 1 .. Len(tuple) |-> tuple[k]]
  BY <1>2, <1>5 DEF Bytes
<1> QED
  BY <1>1, <1>2, <1>4, <1>6, TupleLength DEF Live, slot_count

\* Slots that the directory gains, other than the one put, are deleted.
LEMMA PutBeyond ==
    ASSUME PageInvariant, NEW at, NEW m, NEW tuple \in Tuple, PutStep(at, m, tuple),
           NEW i \in 1 .. slot_count', i # at, i > slot_count
    PROVE  ~Live(i)' /\ slots'[i].deleted
<1>1. slot_count \in Nat /\ i \in slot_count + 1 .. m
  BY DEF PutStep, PageInvariant, TypeOK, slot_count
<1>2. slots'[i] = EmptySlot
  BY <1>1 DEF PutStep
<1> QED
  BY <1>2 DEF Live, EmptySlot

\* Storing a tuple keeps the layout and every stored tuple.
LEMMA PutKeepsInvariant ==
    ASSUME PageInvariant, NEW at, NEW m, NEW tuple \in Tuple, PutStep(at, m, tuple)
    PROVE  PageInvariant'
<1>1. /\ slot_count \in Nat /\ m \in Nat /\ m - slot_count \in Nat /\ slot_count' = m
      /\ tuple_count \in Nat /\ free_space_end \in Nat /\ BodySize \in Nat
  BY LayoutAssumption DEF PutStep, PageInvariant, TypeOK, slot_count
<1>2. /\ free_space_end' \in Nat /\ free_space_start' \in Nat
      /\ free_space_start' <= free_space_end' /\ free_space_end' <= BodySize
      /\ free_space_start' = HeaderSize + SlotSize * slot_count'
      /\ free_space_end' <= free_space_end
  <2>1. slot_count + (m - slot_count) = m
    BY <1>1
  <2>2. Len(tuple) \in Nat
    BY TupleLength
  <2> QED
    BY <1>1, <2>1, <2>2, RoomLeft DEF PageInvariant, PutStep
<1>3. TypeOK'
  <2>1. DOMAIN body' = 0 .. BodySize - 1
    BY DEF PageInvariant, TypeOK, PutStep, Placed
  <2>2. tuple_count' \in Nat /\ slots' \in Seq(TupleSlot)
    BY <1>1 DEF PutStep
  <2> QED
    BY <1>2, <2>1, <2>2 DEF TypeOK
<1>4. ASSUME NEW i \in 1 .. slot_count', Live(i)', i # at
      PROVE  i \in 1 .. slot_count /\ Live(i)
  <2>1. i \in 1 .. slot_count
    BY <1>1, <1>4, PutBeyond
  <2> QED
    BY <1>4, <2>1, PutElsewhere
<1>5. ASSUME NEW i \in 1 .. slot_count', Live(i)'
      PROVE  (Extent(i) \subseteq free_space_end .. BodySize - 1)'
  <2>1. CASE i = at
    BY <1>1, <1>2, <2>1, PutHere DEF PageInvariant, Layout
  <2>2. CASE i # at
    <3>1. Extent(i)' = Extent(i) /\ Extent(i) \subseteq free_space_end .. BodySize - 1
      BY <1>4, <1>5, <2>2, PutElsewhere DEF PageInvariant, Layout
    <3> QED
      BY <1>1, <1>2, <3>1
  <2> QED
    BY <2>1, <2>2
<1>6. ASSUME NEW i \in 1 .. slot_count', NEW j \in 1 .. slot_count', Live(i)', Live(j)', i # j
      PROVE  (Extent(i) \cap Extent(j) = {})'
  <2>1. ASSUME NEW k \in 1 .. slot_count', Live(k)', k # at
        PROVE  Extent(k)' \cap Extent(at)' = {}
    <3>1. Extent(k)' \subseteq free_space_end .. BodySize - 1
      BY <1>4, <2>1, PutElsewhere DEF PageInvariant, Layout
    <3>2. Extent(at)' = free_space_end' .. free_space_end - 1
      BY PutHere
    <3> QED
      BY <1>1, <1>2, <3>1, <3>2
  <2>2. CASE i = at
    BY <1>6, <2>1, <2>2
  <2>3. CASE j = at
    BY <1>6, <2>1, <2>3
  <2>4. CASE i # at /\ j # at
    <3>1. Extent(i)' = Extent(i) /\ Extent(j)' = Extent(j) /\ Extent(i) \cap Extent(j) = {}
      BY <1>4, <1>6, <2>4, PutElsewhere DEF PageInvariant, Layout
    <3> QED
      BY <3>1
  <2> QED
    BY <2>2, <2>3, <2>4
<1>7. tuple_count' = Cardinality({i \in 1 .. slot_count : Live(i)})'
  <2>1. IsFiniteSet(LiveSlots)
    <3>1. IsFiniteSet(1 .. slot_count) /\ LiveSlots \in SUBSET (1 .. slot_count)
      BY <1>1, FS_Interval DEF LiveSlots
    <3> QED
      BY <3>1, FS_Subset
  <2>2. LiveSlots' = LiveSlots \cup {at}
    <3>1. ASSUME NEW i \in LiveSlots' PROVE i \in LiveSlots \cup {at}
      BY <1>4, <3>1 DEF LiveSlots
    <3>2. ASSUME NEW i \in LiveSlots PROVE i \in LiveSlots'
      <4>1. i \in 1 .. slot_count /\ Live(i)
        BY <3>2 DEF LiveSlots
      <4>2. i \in 1 .. slot_count' /\ Live(i)'
        BY <4>1, PutElsewhere, PutHere
      <4> QED
        BY <4>2 DEF LiveSlots
    <3>3. at \in LiveSlots'
      BY PutHere DEF LiveSlots
    <3> QED
      BY <3>1, <3>2, <3>3
  <2>3. at \in LiveSlots <=> Live(at)
    BY DEF LiveSlots, Live
  <2>4. tuple_count = Cardinality(LiveSlots)
    BY DEF PageInvariant, Layout, LiveSlots
  <2>5. Cardinality(LiveSlots') = IF at \in LiveSlots THEN tuple_count ELSE tuple_count + 1
    BY <2>1, <2>2, <2>4, FS_AddElement
  <2> QED
    BY <2>3, <2>5 DEF PutStep, LiveSlots
<1>8. Layout'
  BY <1>2, <1>5, <1>6, <1>7 DEF Layout
<1>9. TuplesWhole'
  <2> SUFFICES ASSUME NEW i \in 1 .. slot_count', Live(i)'
               PROVE  Bytes(i)' \in Tuple
    BY DEF TuplesWhole
  <2>1. CASE i = at
    BY <2>1, PutHere
  <2>2. CASE i # at
    BY <1>4, <2>2, PutElsewhere DEF PageInvariant, TuplesWhole
  <2> QED
    BY <2>1, <2>2
<1> QED
  BY <1>3, <1>8, <1>9 DEF PageInvariant

\* insertTuple puts the tuple into the first deleted slot or a new one.
LEMMA InsertPuts ==
    ASSUME PageInvariant, NEW tuple \in Tuple, InsertTuple(tuple)
    PROVE  \E at \in 1 .. slot_count + 1 :
              /\ PutStep(at, IF at > slot_count THEN slot_count + 1 ELSE slot_count, tuple)
              /\ at <= slot_count => slots[at].deleted
              /\ \A j \in 1 .. at - 1 : ~slots[j].deleted
<1> DEFINE deleted == {i \in 1 .. slot_count : slots[i].deleted}
<1>1. slot_count \in Nat /\ slots \in Seq(TupleSlot) /\ SlotSize \in Nat
  BY LayoutAssumption DEF PageInvariant, TypeOK, slot_count
<1>2. NewSlot(tuple) \in TupleSlot
  <2>1. Len(tuple) \in Nat /\ \E d \in Nat : Len(tuple) + SlotSize * d <= free_space_end - free_space_start
    BY TupleLength DEF InsertTuple, Fits
  <2>2. free_space_end - Len(tuple) \in Nat
    BY <2>1, RoomLeft DEF PageInvariant
  <2> QED
    BY <2>1, <2>2 DEF NewSlot, TupleSlot
<1>3. CASE deleted # {}
  <2> DEFINE at == CHOOSE i \in deleted : \A j \in deleted : i <= j
  <2>1. deleted \in SUBSET Nat
    BY <1>1
  <2>2. at \in deleted /\ \A j \in deleted : at <= j
    BY <1>3, <2>1, LeastNumber
  <2> HIDE DEF at
  <2>3. at \in 1 .. slot_count /\ slots[at].deleted
    BY <2>2
  <2>4. \A j \in 1 .. at - 1 : ~slots[j].deleted
    BY <1>1, <2>2, <2>3
  <2>5. /\ Fits(tuple, 0) /\ body' = Placed(tuple)
        /\ slots' = [slots EXCEPT ![at] = NewSlot(tuple)]
        /\ free_space_start' = free_space_start
        /\ free_space_end' = free_space_end - Len(tuple)
        /\ tuple_count' = tuple_count + 1
    BY <1>3 DEF InsertTuple, at
  <2>6. slots' \in Seq(TupleSlot) /\ Len(slots') = slot_count
    BY <1>1, <1>2, <2>3, <2>5 DEF slot_count
  <2>7. slots'[at] = NewSlot(tuple) /\ \A i \in 1 .. slot_count : i # at => slots'[i] = slots[i]
    BY <1>1, <2>3, <2>5 DEF slot_count
  <2>8. free_space_start \in Nat /\ SlotSize * (slot_count - slot_count) = 0
    BY <1>1 DEF PageInvariant, TypeOK
  <2>9. Len(tuple) + SlotSize * (slot_count - slot_count) <= free_space_end - free_space_start
    BY <1>1, <2>5, <2>8 DEF Fits
  <2>10. PutStep(at, slot_count, tuple)
    <3>1. ~Live(at)
      BY <2>3 DEF Live
    <3>2. \A i \in slot_count + 1 .. slot_count : FALSE
      BY <1>1
    <3>3. free_space_start' = free_space_start + SlotSize * (slot_count - slot_count)
      BY <2>5, <2>8
    <3> QED
      BY <1>1, <2>3, <2>5, <2>6, <2>7, <2>9, <3>1, <3>2, <3>3 DEF PutStep
  <2> QED
    BY <1>1, <2>3, <2>4, <2>10
<1>4. CASE deleted = {}
  <2> DEFINE at == slot_count + 1
  <2>1. /\ Fits(tuple, 1) /\ body' = Placed(tuple)
        /\ slots' = Append(slots, NewSlot(tuple))
        /\ free_space_start' = free_space_start + SlotSize
        /\ free_space_end' = free_space_end - Len(tuple)
        /\ tuple_count' = tuple_count + 1
    BY <1>4 DEF InsertTuple
  <2>2. /\ slots' \in Seq(TupleSlot) /\ Len(slots') = at /\ slots'[at] = NewSlot(tuple)
        /\ \A i \in 1 .. slot_count : i # at => slots'[i] = slots[i]
    BY <1>1, <1>2, <2>1 DEF slot_count
  <2>3. SlotSize * (at - slot_count) = SlotSize /\ SlotSize * 1 = SlotSize
    BY <1>1
  <2>4. Len(tuple) + SlotSize * (at - slot_count) <= free_space_end - free_space_start
    BY <2>1, <2>3 DEF Fits
  <2>5. ~Live(at)
    BY <1>1 DEF Live
  <2>6. PutStep(at, at, tuple)
    <3>1. at \in Nat /\ slot_count <= at /\ at \in 1 .. at
      BY <1>1
    <3>2. \A i \in slot_count + 1 .. at : i = at
      BY <1>1
    <3>3. free_space_start' = free_space_start + SlotSize * (at - slot_count)
      BY <2>1, <2>3
    <3> HIDE DEF at
    <3> QED
      BY <2>1, <2>2, <2>4, <2>5, <3>1, <3>2, <3>3 DEF PutStep
  <2>7. \A j \in 1 .. at - 1 : ~slots[j].deleted
    BY <1>1, <1>4
  <2> QED
    BY <1>1, <2>6, <2>7
<1> QED
  BY <1>3, <1>4

\* insertTupleAtSlot puts the tuple into the slot it names.
LEMMA InsertAtPuts ==
    ASSUME PageInvariant, NEW at \in 1 .. MaxSlots, NEW tuple \in Tuple,
           InsertTupleAtSlot(at, tuple)
    PROVE  PutStep(at, IF at > slot_count THEN at ELSE slot_count, tuple)
<1> DEFINE new_slots == Max2(at - slot_count, 0)
           m == slot_count + new_slots
<1>1. slot_count \in Nat /\ at \in Nat \ {0} /\ slots \in Seq(TupleSlot) /\ SlotSize \in Nat
  BY LayoutAssumption DEF PageInvariant, TypeOK, slot_count
<1>2. /\ m = (IF at > slot_count THEN at ELSE slot_count) /\ m - slot_count = new_slots
      /\ new_slots \in Nat
  BY <1>1 DEF Max2
<1>3. /\ Len(tuple) + SlotSize * new_slots <= free_space_end - free_space_start
      /\ body' = Placed(tuple)
      /\ slots' = [i \in 1 .. m |->
                      IF i = at THEN NewSlot(tuple)
                      ELSE IF i <= slot_count THEN slots[i] ELSE EmptySlot]
      /\ free_space_start' = free_space_start + SlotSize * new_slots
      /\ free_space_end' = free_space_end - Len(tuple)
      /\ tuple_count' = IF Live(at) THEN tuple_count ELSE tuple_count + 1
  BY DEF InsertTupleAtSlot, Fits
<1> HIDE DEF m, new_slots
<1>4. NewSlot(tuple) \in TupleSlot
  <2>1. Len(tuple) \in Nat
    BY TupleLength
  <2>2. free_space_end - Len(tuple) \in Nat
    BY <1>2, <1>3, RoomLeft DEF PageInvariant
  <2> QED
    BY <2>1, <2>2 DEF NewSlot, TupleSlot
<1>5. EmptySlot \in TupleSlot
  BY DEF EmptySlot, TupleSlot
<1>6. m \in Nat /\ at \in 1 .. m /\ slot_count <= m
  BY <1>1, <1>2
<1>7. slots' \in Seq(TupleSlot) /\ Len(slots') = m
  <2>1. slots' \in [1 .. m -> TupleSlot]
    BY <1>1, <1>3, <1>4, <1>5, <1>6 DEF slot_count
  <2> QED
    BY <1>6, <2>1, SeqDef
<1>8. /\ slots'[at] = NewSlot(tuple)
      /\ \A i \in 1 .. slot_count : i # at => slots'[i] = slots[i]
      /\ \A i \in slot_count + 1 .. m : i # at => slots'[i] = EmptySlot
  BY <1>1, <1>3, <1>6
<1> QED
  BY <1>2, <1>3, <1>6, <1>7, <1>8 DEF PutStep

\* updateTuple puts the new image into the slot it names.
LEMMA UpdatePuts ==
    ASSUME PageInvariant, NEW i \in 1 .. slot_count, NEW tuple \in Tuple, UpdateTuple(i, tuple)
    PROVE  PutStep(i, slot_count, tuple) /\ Live(i)
<1>1. slot_count \in Nat /\ slots \in Seq(TupleSlot) /\ SlotSize \in Nat
  BY LayoutAssumption DEF PageInvariant, TypeOK, slot_count
<1>2. /\ Live(i) /\ Fits(tuple, 0) /\ body' = Placed(tuple)
      /\ slots' = [slots EXCEPT ![i] = NewSlot(tuple)]
      /\ free_space_start' = free_space_start
      /\ free_space_end' = free_space_end - Len(tuple)
      /\ tuple_count' = tuple_count
  BY DEF UpdateTuple
<1>3. free_space_start \in Nat /\ SlotSize * (slot_count - slot_count) = 0
  BY <1>1 DEF PageInvariant, TypeOK
<1>4. Len(tuple) + SlotSize * (slot_count - slot_count) <= free_space_end - free_space_start
  BY <1>1, <1>2, <1>3 DEF Fits
<1>5. NewSlot(tuple) \in TupleSlot
  <2>1. Len(tuple) \in Nat /\ slot_count - slot_count \in Nat
    BY <1>1, TupleLength
  <2>2. free_space_end - Len(tuple) \in Nat
    BY <2>1, <1>4, RoomLeft DEF PageInvariant
  <2> QED
    BY <2>1, <2>2 DEF NewSlot, TupleSlot
<1>6. /\ slots' \in Seq(TupleSlot) /\ Len(slots') = slot_count
      /\ slots'[i] = NewSlot(tuple) /\ \A j \in 1 .. slot_count : j # i => slots'[j] = slots[j]
  BY <1>1, <1>2, <1>5 DEF slot_count
<1>7. \A j \in slot_count + 1 .. slot_count : FALSE
  BY <1>1
<1>8. free_space_start' = free_space_start + SlotSize * (slot_count - slot_count)
  BY <1>2, <1>3
<1> QED
  BY <1>1, <1>2, <1>4, <1>6, <1>7, <1>8 DEF PutStep

-----------------------------------------------------------------------------
(***************************************************************************)
(* Deleting a tuple                                                        *)
(***************************************************************************)

\* deleteTuple changes the flag of its slot and nothing else.
LEMMA DeleteMarks ==
    ASSUME PageInvariant, NEW i \in 1 .. slot_count, DeleteTuple(i)
    PROVE  /\ slot_count' = slot_count /\ body' = body /\ slots' \in Seq(TupleSlot)
           /\ Live(i) /\ ~Live(i)' /\ slots'[i].deleted
           /\ \A j \in 1 .. slot_count : j # i =>
                 slots'[j] = slots[j] /\ (Live(j)' <=> Live(j)) /\ Bytes(j)' = Bytes(j)
                                      /\ Extent(j)' = Extent(j)
<1>1. slot_count \in Nat /\ slots \in Seq(TupleSlot)
  BY DEF PageInvariant, TypeOK, slot_count
<1> DEFINE gone == [slots[i] EXCEPT !.deleted = TRUE]
<1>2. Live(i) /\ slots' = [slots EXCEPT ![i] = gone] /\ body' = body
  BY DEF DeleteTuple
<1>3. gone \in TupleSlot /\ gone.deleted
  <2>1. slots[i] \in TupleSlot
    BY <1>1 DEF slot_count
  <2> QED
    BY <2>1 DEF TupleSlot
<1> HIDE DEF gone
<1>4. slots' \in Seq(TupleSlot) /\ slot_count' = slot_count /\ slots'[i] = gone
  BY <1>1, <1>2, <1>3 DEF slot_count
<1>5. \A j \in 1 .. slot_count : j # i => slots'[j] = slots[j]
  BY <1>1, <1>2 DEF slot_count
<1>6. ASSUME NEW j \in 1 .. slot_count, j # i
      PROVE  (Live(j)' <=> Live(j)) /\ Bytes(j)' = Bytes(j) /\ Extent(j)' = Extent(j)
  BY <1>2, <1>4, <1>5, <1>6 DEF Live, Bytes, Extent
<1>7. ~Live(i)'
  BY <1>3, <1>4 DEF Live
<1> QED
  BY <1>2, <1>3, <1>4, <1>5, <1>6, <1>7

\* Deleting a tuple keeps the layout and every other tuple.
LEMMA DeleteKeepsInvariant ==
    ASSUME PageInvariant, NEW i \in 1 .. slot_count, DeleteTuple(i)
    PROVE  PageInvariant'
<1>1. slot_count \in Nat /\ tuple_count \in Nat
  BY DEF PageInvariant, TypeOK, slot_count
<1>2. /\ free_space_start' = free_space_start /\ free_space_end' = free_space_end
      /\ body' = body /\ tuple_count' = tuple_count - 1
  BY DEF DeleteTuple
<1>3. ASSUME NEW j \in 1 .. slot_count', Live(j)'
      PROVE  /\ j \in 1 .. slot_count /\ j # i /\ Live(j)
             /\ Extent(j)' = Extent(j) /\ Bytes(j)' = Bytes(j)
  BY <1>3, DeleteMarks
<1>4. IsFiniteSet(LiveSlots) /\ i \in LiveSlots /\ tuple_count = Cardinality(LiveSlots)
  <2>1. IsFiniteSet(1 .. slot_count) /\ LiveSlots \in SUBSET (1 .. slot_count)
    BY <1>1, FS_Interval DEF LiveSlots
  <2>2. IsFiniteSet(LiveSlots)
    BY <2>1, FS_Subset
  <2> QED
    BY <2>2, DeleteMarks DEF LiveSlots, PageInvariant, Layout
<1>5. LiveSlots' = LiveSlots \ {i}
  BY DeleteMarks DEF LiveSlots
<1>6. tuple_count' = Cardinality(LiveSlots')
  BY <1>2, <1>4, <1>5, FS_RemoveElement
<1>7. tuple_count' \in Nat
  <2>1. IsFiniteSet(LiveSlots')
    BY <1>4, <1>5, FS_RemoveElement
  <2> QED
    BY <1>6, <2>1, FS_CardinalityType
<1>8. TypeOK'
  BY <1>2, <1>7, DeleteMarks DEF PageInvariant, TypeOK
<1>9. Layout'
  <2>1. /\ (free_space_start = HeaderSize + SlotSize * slot_count)'
        /\ (free_space_start <= free_space_end)' /\ (free_space_end <= BodySize)'
    BY <1>2, DeleteMarks DEF PageInvariant, Layout
  <2>2. ASSUME NEW j \in 1 .. slot_count', Live(j)'
        PROVE  (Extent(j) \subseteq free_space_end .. BodySize - 1)'
    BY <1>2, <1>3, <2>2 DEF PageInvariant, Layout
  <2>3. ASSUME NEW j \in 1 .. slot_count', NEW k \in 1 .. slot_count', Live(j)', Live(k)', j # k
        PROVE  (Extent(j) \cap Extent(k) = {})'
    BY <1>3, <2>3 DEF PageInvariant, Layout
  <2> QED
    BY <1>6, <2>1, <2>2, <2>3 DEF Layout, LiveSlots
<1>10. TuplesWhole'
  BY <1>3 DEF PageInvariant, TuplesWhole
<1> QED
  BY <1>8, <1>9, <1>10 DEF PageInvariant

-----------------------------------------------------------------------------
(***************************************************************************)
(* Compaction                                                              *)
(***************************************************************************)

\* The bytes of the live slots from i on: a finite part of the tuple area.
LEMMA LiveBytesFinite ==
    ASSUME PageInvariant, NEW i \in Nat
    PROVE  /\ LiveBytes(i) \in SUBSET (free_space_end .. BodySize - 1)
           /\ IsFiniteSet(LiveBytes(i)) /\ Cardinality(LiveBytes(i)) \in Nat
           /\ Cardinality(LiveBytes(i)) <= BodySize - free_space_end
<1>1. /\ slot_count \in Nat /\ free_space_end \in Nat /\ BodySize \in Nat
      /\ free_space_end <= BodySize
  BY LayoutAssumption DEF PageInvariant, TypeOK, Layout, slot_count
<1>2. LiveBytes(i) \in SUBSET (free_space_end .. BodySize - 1)
  <2>1. ASSUME NEW j \in i .. slot_count, Live(j)
        PROVE  Extent(j) \subseteq free_space_end .. BodySize - 1
    BY <2>1 DEF PageInvariant, Layout, Live
  <2> QED
    BY <2>1 DEF LiveBytes
<1>3. /\ IsFiniteSet(free_space_end .. BodySize - 1)
      /\ Cardinality(free_space_end .. BodySize - 1) = BodySize - free_space_end
  <2>1. BodySize - 1 \in Int /\ free_space_end \in Int
    BY <1>1
  <2>2. /\ IsFiniteSet(free_space_end .. BodySize - 1)
        /\ Cardinality(free_space_end .. BodySize - 1) =
              IF free_space_end > BodySize - 1 THEN 0 ELSE BodySize - 1 - free_space_end + 1
    BY <2>1, FS_Interval, Zenon
  <2> QED
    BY <1>1, <2>2
<1>4. IsFiniteSet(LiveBytes(i)) /\ Cardinality(LiveBytes(i)) <= BodySize - free_space_end
  BY <1>2, <1>3, FS_Subset
<1> QED
  BY <1>2, <1>4, FS_CardinalityType

\* The live slots from i on cover what those after i cover and, if slot i is
\* live, as many more bytes as its tuple has.
LEMMA LiveBytesStep ==
    ASSUME PageInvariant, NEW i \in 1 .. slot_count
    PROVE  Cardinality(LiveBytes(i)) =
              IF slots[i].deleted THEN Cardinality(LiveBytes(i + 1))
              ELSE Cardinality(LiveBytes(i + 1)) + slots[i].length
<1>1. slot_count \in Nat /\ i \in Nat /\ i + 1 \in Nat
  BY DEF PageInvariant, TypeOK, slot_count
<1>2. slots[i].offset \in Nat /\ slots[i].length \in Nat
  BY SlotFields
<1> DEFINE from(k) == {j \in k .. slot_count : Live(j)}
<1>3. CASE slots[i].deleted
  <2>1. from(i) = from(i + 1)
    <3>1. ~Live(i)
      BY <1>3 DEF Live
    <3> QED
      BY <1>1, <3>1
  <2>2. LiveBytes(i) = LiveBytes(i + 1)
    BY <2>1 DEF LiveBytes
  <2> QED
    BY <1>3, <2>2
<1>4. CASE ~slots[i].deleted
  <2>1. Live(i)
    BY <1>4 DEF Live
  <2>2. from(i) = from(i + 1) \cup {i}
    BY <1>1, <2>1
  <2>3. LiveBytes(i) = LiveBytes(i + 1) \cup Extent(i)
    BY <2>2 DEF LiveBytes
  <2>4. LiveBytes(i + 1) \cap Extent(i) = {}
    <3>1. ASSUME NEW j \in from(i + 1) PROVE Extent(j) \cap Extent(i) = {}
      <4>1. j \in 1 .. slot_count /\ Live(j) /\ i # j
        BY <1>1, <3>1
      <4> QED
        BY <2>1, <4>1 DEF PageInvariant, Layout
    <3> QED
      BY <3>1 DEF LiveBytes
  <2>5. IsFiniteSet(Extent(i)) /\ Cardinality(Extent(i)) = slots[i].length
    <3> DEFINE a == slots[i].offset
               b == slots[i].offset + slots[i].length - 1
    <3>1. a \in Int /\ b \in Int /\ (a > b <=> slots[i].length = 0)
      BY <1>2
    <3>2. IsFiniteSet(a .. b) /\ Cardinality(a .. b) = IF a > b THEN 0 ELSE b - a + 1
      <4> HIDE DEF a, b
      <4> QED
        BY <3>1, FS_Interval, Zenon
    <3> QED
      BY <1>2, <3>1, <3>2 DEF Extent
  <2>6. IsFiniteSet(LiveBytes(i + 1)) /\ Cardinality(LiveBytes(i + 1)) \in Nat
    BY <1>1, LiveBytesFinite
  <2>7. Cardinality(LiveBytes(i)) = Cardinality(LiveBytes(i + 1)) + slots[i].length
    <3>1. Cardinality(LiveBytes(i + 1) \cup Extent(i)) =
             Cardinality(LiveBytes(i + 1)) + Cardinality(Extent(i))
                - Cardinality(LiveBytes(i + 1) \cap Extent(i))
      BY <2>5, <2>6, FS_Union, Zenon
    <3>2. Cardinality(LiveBytes(i + 1) \cap Extent(i)) = 0
      BY <2>4, FS_EmptySet, Zenon
    <3> QED
      BY <1>2, <2>3, <2>5, <2>6, <3>1, <3>2
  <2> QED
    BY <1>4, <2>7
<1> QED
  BY <1>3, <1>4

\* What compact() computes as the place of slot i.
LEMMA PackedOffsets ==
    ASSUME PageInvariant
    PROVE  \A i \in 1 .. slot_count + 1 :
              PackedOffset[i] = BodySize - Cardinality(LiveBytes(i))
<1> DEFINE S == 1 .. slot_count + 1
           g == [i \in S |-> BodySize - Cardinality(LiveBytes(i))]
           step(f) == [i \in S |->
                IF i = slot_count + 1 THEN BodySize
                ELSE IF slots[i].deleted THEN f[i + 1] ELSE f[i + 1] - slots[i].length]
<1>1. slot_count \in Nat /\ BodySize \in Nat /\ \A i \in S : i \in Nat /\ i + 1 \in Nat
  BY LayoutAssumption DEF PageInvariant, TypeOK, slot_count
<1>2. LiveBytes(slot_count + 1) = {}
  BY <1>1 DEF LiveBytes
<1>3. g = step(g)
  <2>1. ASSUME NEW i \in S PROVE g[i] = step(g)[i]
    <3>1. CASE i = slot_count + 1
      BY <1>1, <1>2, <3>1, FS_EmptySet
    <3>2. CASE i # slot_count + 1
      <4>1. i \in 1 .. slot_count /\ i + 1 \in S
        BY <1>1, <3>2
      <4>2. Cardinality(LiveBytes(i + 1)) \in Nat /\ slots[i].length \in Nat
        BY <1>1, <4>1, LiveBytesFinite, SlotFields
      <4> QED
        BY <1>1, <3>2, <4>1, <4>2, LiveBytesStep
    <3> QED
      BY <3>1, <3>2
  <2> QED
    BY <2>1
<1>4. PackedOffset = CHOOSE f : f = step(f)
  BY DEF PackedOffset
<1>5. PackedOffset = step(PackedOffset)
  <2> HIDE DEF g, step
  <2> QED
    BY <1>3, <1>4
<1> DEFINE bad == {d \in Nat : d <= slot_count /\ PackedOffset[slot_count + 1 - d] # g[slot_count + 1 - d]}
<1>6. bad = {}
  <2> SUFFICES ASSUME bad # {} PROVE FALSE
    OBVIOUS
  <2>1. PICK d \in bad : \A k \in bad : d <= k
    BY LeastNumber
  <2>2. d \in Nat /\ d <= slot_count
    OBVIOUS
  <2> DEFINE i == slot_count + 1 - d
  <2>3. i \in S /\ PackedOffset[i] # g[i]
    BY <1>1, <2>1, <2>2
  <2>4. d # 0
    <3>1. PackedOffset[slot_count + 1] = step(PackedOffset)[slot_count + 1]
      BY <1>5
    <3>2. g[slot_count + 1] = step(g)[slot_count + 1]
      BY <1>3
    <3>3. PackedOffset[slot_count + 1] = g[slot_count + 1]
      BY <1>1, <3>1, <3>2
    <3> QED
      BY <1>1, <2>3, <3>3
  <2>5. d - 1 \notin bad
    BY <2>1, <2>2, <2>4
  <2>6. i # slot_count + 1 /\ i + 1 \in S /\ PackedOffset[i + 1] = g[i + 1]
    BY <1>1, <2>2, <2>4, <2>5
  <2>7. PackedOffset[i] = step(PackedOffset)[i] /\ g[i] = step(g)[i]
    BY <1>3, <1>5
  <2> HIDE DEF i, g
  <2>8. step(PackedOffset)[i] = step(g)[i]
    BY <2>3, <2>6
  <2> QED
    BY <2>3, <2>7, <2>8
<1>7. ASSUME NEW i \in S PROVE PackedOffset[i] = g[i]
  <2>1. slot_count + 1 - i \in Nat /\ slot_count + 1 - i <= slot_count
    BY <1>1
  <2>2. slot_count + 1 - (slot_count + 1 - i) = i
    BY <1>1
  <2> HIDE DEF g
  <2> QED
    BY <1>6, <2>1, <2>2
<1> QED
  BY <1>7

\* The places compact() chooses: within the tuple area, in slot order, each
\* ending where the next begins.
LEMMA PackedPlaces ==
    ASSUME PageInvariant
    PROVE  /\ \A i \in 1 .. slot_count + 1 :
                 PackedOffset[i] \in Nat /\ free_space_end <= PackedOffset[i] /\ PackedOffset[i] <= BodySize
           /\ \A i, j \in 1 .. slot_count + 1 : i <= j => PackedOffset[i] <= PackedOffset[j]
           /\ \A i \in 1 .. slot_count : Live(i) =>
                 PackedOffset[i] + slots[i].length = PackedOffset[i + 1]
<1>1. slot_count \in Nat /\ BodySize \in Nat /\ free_space_end \in Nat
  BY LayoutAssumption DEF PageInvariant, TypeOK, slot_count
<1>2. ASSUME NEW i \in 1 .. slot_count + 1
      PROVE  PackedOffset[i] \in Nat /\ free_space_end <= PackedOffset[i] /\ PackedOffset[i] <= BodySize
  <2>1. i \in Nat
    BY <1>1
  <2>2. Cardinality(LiveBytes(i)) \in Nat /\ Cardinality(LiveBytes(i)) <= BodySize - free_space_end
    BY <2>1, LiveBytesFinite
  <2>3. PackedOffset[i] = BodySize - Cardinality(LiveBytes(i))
    BY PackedOffsets
  <2> QED
    BY <1>1, <2>2, <2>3
<1>3. ASSUME NEW i \in 1 .. slot_count + 1, NEW j \in 1 .. slot_count + 1, i <= j
      PROVE  PackedOffset[i] <= PackedOffset[j]
  <2>1. i \in Nat /\ j \in Nat
    BY <1>1
  <2>2. LiveBytes(j) \in SUBSET LiveBytes(i)
    <3>1. \A k \in j .. slot_count : k \in i .. slot_count
      BY <1>1, <1>3, <2>1
    <3> QED
      BY <3>1 DEF LiveBytes
  <2>3. /\ IsFiniteSet(LiveBytes(i)) /\ Cardinality(LiveBytes(i)) \in Nat
        /\ Cardinality(LiveBytes(j)) \in Nat
    BY <2>1, LiveBytesFinite
  <2>4. Cardinality(LiveBytes(j)) <= Cardinality(LiveBytes(i))
    BY <2>2, <2>3, FS_Subset, Zenon
  <2>5. /\ PackedOffset[i] = BodySize - Cardinality(LiveBytes(i))
        /\ PackedOffset[j] = BodySize - Cardinality(LiveBytes(j))
    BY PackedOffsets
  <2> QED
    BY <1>1, <2>3, <2>4, <2>5
<1>4. ASSUME NEW i \in 1 .. slot_count, Live(i)
      PROVE  PackedOffset[i] + slots[i].length = PackedOffset[i + 1]
  <2>1. i \in 1 .. slot_count + 1 /\ i + 1 \in 1 .. slot_count + 1 /\ i + 1 \in Nat
    BY <1>1
  <2>2. /\ PackedOffset[i] = BodySize - Cardinality(LiveBytes(i))
        /\ PackedOffset[i + 1] = BodySize - Cardinality(LiveBytes(i + 1))
    BY <2>1, PackedOffsets
  <2>3. Cardinality(LiveBytes(i)) = Cardinality(LiveBytes(i + 1)) + slots[i].length
    BY <1>4, LiveBytesStep DEF Live
  <2>4. Cardinality(LiveBytes(i + 1)) \in Nat /\ slots[i].length \in Nat
    BY <2>1, LiveBytesFinite, SlotFields
  <2> QED
    BY <1>1, <2>2, <2>3, <2>4
<1> QED
  BY <1>2, <1>3, <1>4

\* compact() moves the live tuples to their places and changes no byte of them.
LEMMA CompactMoves ==
    ASSUME PageInvariant, Compact
    PROVE  /\ slot_count' = slot_count /\ slots' \in Seq(TupleSlot)
           /\ free_space_end' = PackedOffset[1]
           /\ \A i \in 1 .. slot_count :
                 /\ Live(i)' <=> Live(i)
                 /\ slots'[i].deleted = slots[i].deleted
                 /\ Live(i) => /\ slots'[i].offset = PackedOffset[i]
                               /\ slots'[i].length = slots[i].length
                               /\ Bytes(i)' = Bytes(i)
<1> DEFINE at == PackedOffset
<1>1. slot_count \in Nat /\ slots \in Seq(TupleSlot) /\ BodySize \in Nat /\ free_space_end \in Nat
  BY LayoutAssumption DEF PageInvariant, TypeOK, slot_count
<1>2. /\ body' = Packed(at) /\ free_space_end' = at[1]
      /\ slots' = [i \in 1 .. slot_count |->
                      IF slots[i].deleted THEN slots[i] ELSE [slots[i] EXCEPT !.offset = at[i]]]
  BY DEF Compact
<1>3. /\ \A i \in 1 .. slot_count + 1 : at[i] \in Nat /\ free_space_end <= at[i] /\ at[i] <= BodySize
      /\ \A i, j \in 1 .. slot_count + 1 : i <= j => at[i] <= at[j]
      /\ \A i \in 1 .. slot_count : Live(i) => at[i] + slots[i].length = at[i + 1]
  BY PackedPlaces
<1> HIDE DEF at
<1>4. ASSUME NEW i \in 1 .. slot_count
      PROVE  /\ [slots[i] EXCEPT !.offset = at[i]] \in TupleSlot
             /\ [slots[i] EXCEPT !.offset = at[i]].offset = at[i]
             /\ [slots[i] EXCEPT !.offset = at[i]].length = slots[i].length
             /\ [slots[i] EXCEPT !.offset = at[i]].deleted = slots[i].deleted
  <2>1. slots[i] \in TupleSlot
    BY <1>1 DEF slot_count
  <2>2. at[i] \in Nat
    BY <1>1, <1>3
  <2> QED
    BY <2>1, <2>2 DEF TupleSlot
<1>5. slots' \in Seq(TupleSlot) /\ slot_count' = slot_count
  <2>1. slots' \in [1 .. slot_count -> TupleSlot]
    BY <1>1, <1>2, <1>4 DEF slot_count
  <2> QED
    BY <1>1, <2>1 DEF slot_count
<1>6. ASSUME NEW i \in 1 .. slot_count
      PROVE  /\ slots'[i].deleted = slots[i].deleted
             /\ ~slots[i].deleted => /\ slots'[i].offset = at[i]
                                     /\ slots'[i].length = slots[i].length
  <2>1. CASE slots[i].deleted
    BY <1>2, <2>1
  <2>2. CASE ~slots[i].deleted
    <3>1. slots'[i] = [slots[i] EXCEPT !.offset = at[i]]
      BY <1>2, <2>2
    <3> QED
      BY <1>4, <2>2, <3>1
  <2> QED
    BY <2>1, <2>2
<1>7. ASSUME NEW i \in 1 .. slot_count PROVE Live(i)' <=> Live(i)
  BY <1>5, <1>6 DEF Live
<1>8. ASSUME NEW i \in 1 .. slot_count, Live(i) PROVE Bytes(i)' = Bytes(i)
  <2>1. slots[i].length \in Nat /\ slots[i].offset \in Nat
    BY SlotFields
  <2>2. slots'[i].offset = at[i] /\ slots'[i].length = slots[i].length
    BY <1>6, <1>8 DEF Live
  <2>3. /\ at[i] \in Nat /\ at[i + 1] \in Nat /\ at[i] + slots[i].length = at[i + 1]
        /\ at[i + 1] <= BodySize
    <3>1. i \in 1 .. slot_count + 1 /\ i + 1 \in 1 .. slot_count + 1
      BY <1>1
    <3> QED
      BY <1>3, <1>8, <3>1
  <2>4. ASSUME NEW k \in 1 .. slots[i].length
        PROVE  body'[at[i] + k - 1] = body[slots[i].offset + k - 1]
    <3> DEFINE b == at[i] + k - 1
               owner == {j \in 1 .. slot_count :
                            Live(j) /\ at[j] <= b /\ b < at[j] + slots[j].length}
    <3>1. b \in DOMAIN body /\ at[i] <= b /\ b < at[i] + slots[i].length /\ b \in Nat
      <4>1. at[i] <= b /\ b < at[i] + slots[i].length /\ b \in Nat
        BY <2>1, <2>3
      <4>2. b \in 0 .. BodySize - 1
        BY <1>1, <2>3, <4>1
      <4> QED
        BY <4>1, <4>2 DEF PageInvariant, TypeOK
    <3>2. i \in owner
      BY <1>8, <3>1
    <3>3. ASSUME NEW j \in owner PROVE j = i
      <4>1. /\ j \in 1 .. slot_count + 1 /\ j + 1 \in 1 .. slot_count + 1
            /\ i \in 1 .. slot_count + 1 /\ i + 1 \in 1 .. slot_count + 1
            /\ i \in Nat /\ j \in Nat
        BY <1>1
      <4>2. /\ at[j] <= b /\ b < at[j + 1] /\ at[i] <= b /\ b < at[i + 1]
            /\ at[j] \in Nat /\ at[j + 1] \in Nat
        BY <1>3, <2>3, <3>1, <3>3, <4>1
      <4>3. j + 1 <= i => at[j + 1] <= at[i]
        BY <1>3, <4>1
      <4>4. i + 1 <= j => at[i + 1] <= at[j]
        BY <1>3, <4>1
      <4> HIDE DEF b
      <4> QED
        BY <2>3, <3>1, <4>1, <4>2, <4>3, <4>4
    <3>4. owner = {i} /\ (CHOOSE j \in owner : TRUE) = i
      <4>1. owner = {i}
        BY <3>2, <3>3
      <4> HIDE DEF owner
      <4> QED
        BY <4>1
    <3>5. body'[b] = body[slots[i].offset + b - at[i]]
      <4>1. Packed(at)[b] = IF owner = {} THEN body[b]
                            ELSE body[slots[CHOOSE j \in owner : TRUE].offset + b
                                        - at[CHOOSE j \in owner : TRUE]]
        BY <3>1 DEF Packed
      <4> HIDE DEF owner, b
      <4> QED
        BY <1>2, <3>4, <4>1
    <3>6. slots[i].offset + b - at[i] = slots[i].offset + k - 1
      BY <2>1, <2>3
    <3> HIDE DEF owner
    <3> QED
      BY <3>5, <3>6
  <2> QED
    BY <2>2, <2>4 DEF Bytes
<1> QED
  BY <1>2, <1>5, <1>6, <1>7, <1>8 DEF at, Live

\* Compaction keeps the layout and every tuple.
LEMMA CompactKeepsInvariant ==
    ASSUME PageInvariant, Compact
    PROVE  PageInvariant'
<1>1. /\ slot_count \in Nat /\ BodySize \in Nat /\ free_space_end \in Nat
      /\ free_space_start \in Nat /\ free_space_start <= free_space_end
  BY LayoutAssumption DEF PageInvariant, TypeOK, Layout, slot_count
<1>2. free_space_start' = free_space_start /\ tuple_count' = tuple_count
  BY DEF Compact
<1>3. /\ free_space_end' \in Nat /\ free_space_start' <= free_space_end'
      /\ free_space_end' <= BodySize
  <2>1. 1 \in 1 .. slot_count + 1
    BY <1>1
  <2> QED
    BY <1>1, <1>2, <2>1, PackedPlaces, CompactMoves
<1>4. DOMAIN body' = 0 .. BodySize - 1
  BY DEF Compact, Packed, PageInvariant, TypeOK
<1>5. TypeOK'
  BY <1>2, <1>3, <1>4, CompactMoves DEF PageInvariant, TypeOK
<1>6. ASSUME NEW i \in 1 .. slot_count', Live(i)'
      PROVE  /\ i \in 1 .. slot_count /\ Live(i) /\ Bytes(i)' = Bytes(i)
             /\ PackedOffset[i] \in Nat /\ PackedOffset[i + 1] \in Nat
             /\ free_space_end' <= PackedOffset[i] /\ PackedOffset[i + 1] <= BodySize
             /\ Extent(i)' = PackedOffset[i] .. PackedOffset[i + 1] - 1
  <2>1. i \in 1 .. slot_count /\ Live(i)
    BY <1>6, CompactMoves
  <2>2. i \in 1 .. slot_count + 1 /\ i + 1 \in 1 .. slot_count + 1 /\ 1 \in 1 .. slot_count + 1
        /\ 1 <= i
    BY <1>1, <2>1
  <2>3. Extent(i)' = PackedOffset[i] .. PackedOffset[i] + slots[i].length - 1
    BY <2>1, CompactMoves DEF Extent
  <2>4. Bytes(i)' = Bytes(i) /\ free_space_end' = PackedOffset[1]
    BY <2>1, CompactMoves
  <2>5. PackedOffset[1] <= PackedOffset[i]
    BY <2>2, PackedPlaces
  <2>6. /\ PackedOffset[i] \in Nat /\ PackedOffset[i + 1] \in Nat /\ PackedOffset[i + 1] <= BodySize
        /\ PackedOffset[i] + slots[i].length = PackedOffset[i + 1]
    BY <2>1, <2>2, PackedPlaces
  <2>7. Extent(i)' = PackedOffset[i] .. PackedOffset[i + 1] - 1
    <3>1. i \in Nat /\ slots[i].length \in Nat
      BY <1>1, <2>1, SlotFields
    <3> QED
      BY <2>3, <2>6, <3>1
  <2> QED
    BY <2>1, <2>4, <2>5, <2>6, <2>7, Zenon
<1>7. ASSUME NEW i \in 1 .. slot_count', Live(i)'
      PROVE  (Extent(i) \subseteq free_space_end .. BodySize - 1)'
  BY <1>1, <1>3, <1>6, <1>7
<1>8. ASSUME NEW i \in 1 .. slot_count', NEW j \in 1 .. slot_count', Live(i)', Live(j)', i # j
      PROVE  (Extent(i) \cap Extent(j) = {})'
  <2>1. ASSUME NEW k \in 1 .. slot_count', NEW l \in 1 .. slot_count', Live(k)', Live(l)', k < l
        PROVE  Extent(k)' \cap Extent(l)' = {}
    <3>1. k + 1 \in 1 .. slot_count + 1 /\ l \in 1 .. slot_count + 1 /\ k + 1 <= l
      BY <1>1, <1>6, <2>1
    <3>2. PackedOffset[k + 1] <= PackedOffset[l]
      BY <3>1, PackedPlaces
    <3> QED
      BY SMTT(40), <1>6, <2>1, <3>2
  <2>2. i \in Nat /\ j \in Nat
    BY <1>1, <1>6, <1>8
  <2>3. CASE i < j
    BY <1>8, <2>1, <2>3
  <2>4. CASE j < i
    BY <1>8, <2>1, <2>4
  <2> QED
    BY <1>8, <2>2, <2>3, <2>4
<1>9. LiveSlots' = LiveSlots
  BY CompactMoves DEF LiveSlots
<1>10. Layout'
  <2>1. (free_space_start = HeaderSize + SlotSize * slot_count)'
    BY <1>2, CompactMoves DEF PageInvariant, Layout
  <2>2. (tuple_count = Cardinality({i \in 1 .. slot_count : Live(i)}))'
    BY <1>2, <1>9 DEF PageInvariant, Layout, LiveSlots
  <2> QED
    BY <1>3, <1>7, <1>8, <2>1, <2>2 DEF Layout
<1>11. TuplesWhole'
  BY <1>6 DEF PageInvariant, TuplesWhole
<1> QED
  BY <1>5, <1>10, <1>11 DEF PageInvariant

-----------------------------------------------------------------------------
(***************************************************************************)
(* The theorems                                                            *)
(***************************************************************************)

\* Every step keeps the invariant.
LEMMA StepKeepsInvariant ==
    ASSUME PageInvariant, [Next]_vars
    PROVE  PageInvariant'
<1>1. CASE \E tuple \in Tuple : InsertTuple(tuple)
  BY <1>1, InsertPuts, PutKeepsInvariant
<1>2. CASE \E at \in 1 .. MaxSlots, tuple \in Tuple : InsertTupleAtSlot(at, tuple)
  BY <1>2, InsertAtPuts, PutKeepsInvariant
<1>3. CASE \E i \in 1 .. slot_count, tuple \in Tuple : UpdateTuple(i, tuple)
  BY <1>3, UpdatePuts, PutKeepsInvariant
<1>4. CASE \E i \in 1 .. slot_count : DeleteTuple(i)
  BY <1>4, DeleteKeepsInvariant
<1>5. CASE Compact
  BY <1>5, CompactKeepsInvariant
<1>6. CASE UNCHANGED vars
  BY <1>6 DEF vars, PageInvariant, TypeOK, Layout, TuplesWhole, Live, Extent, Bytes, slot_count
<1> QED
  BY <1>1, <1>2, <1>3, <1>4, <1>5, <1>6 DEF Next

\* An initialised page satisfies the invariant.
LEMMA InitialPage == Init => PageInvariant
<1> SUFFICES ASSUME Init PROVE PageInvariant
  OBVIOUS
<1>1. slots = <<>> /\ slot_count = 0 /\ 1 .. slot_count = {}
  BY DEF Init, slot_count
<1>2. {i \in 1 .. slot_count : Live(i)} = {}
  BY <1>1
<1>3. HeaderSize \in Nat /\ SlotSize \in Nat /\ SlotSize * 0 = 0 /\ BodySize \in Nat
      /\ HeaderSize <= BodySize
  BY LayoutAssumption
<1>4. TypeOK
  BY <1>1, <1>3 DEF Init, TypeOK
<1>5. Cardinality({i \in 1 .. slot_count : Live(i)}) = 0
  BY <1>2, FS_EmptySet
<1>6. Layout
  BY <1>1, <1>3, <1>5 DEF Init, Layout
<1> QED
  BY <1>1, <1>4, <1>6 DEF PageInvariant, TuplesWhole

\* The inductive invariant of the slotted page holds in every reachable state.
THEOREM PageSound == Spec => []PageInvariant
<1>1. Init => PageInvariant
  BY InitialPage
<1>2. PageInvariant /\ [Next]_vars => PageInvariant'
  BY StepKeepsInvariant
<1> QED
  BY <1>1, <1>2, PTL DEF Spec

\* The directory and the tuples never overlap, no two live tuples share a
\* byte, and tuple_count counts them, whatever mix of insertTuple,
\* insertTupleAtSlot, updateTuple, deleteTuple and compact() ran.
THEOREM LayoutAlways == Spec => []Layout
<1>1. PageInvariant => Layout
  BY DEF PageInvariant
<1> QED
  BY <1>1, PageSound, PTL

\* compact() leaves exactly the bytes of live tuples in use and never takes
\* free space away.
THEOREM CompactReclaimsAlways == Spec => CompactReclaims
<1>1. ASSUME PageInvariant, Compact
      PROVE  /\ free_space_end' >= free_space_end
             /\ BodySize - free_space_end' =
                   Cardinality(UNION {Extent(i) : i \in {i \in 1 .. slot_count : Live(i)}})
  <2>1. 1 \in 1 .. slot_count + 1 /\ 1 \in Nat /\ BodySize \in Nat /\ free_space_end \in Nat
    BY <1>1, LayoutAssumption DEF PageInvariant, TypeOK, slot_count
  <2>2. free_space_end' = PackedOffset[1] /\ PackedOffset[1] \in Nat
        /\ free_space_end <= PackedOffset[1]
    BY <1>1, <2>1, CompactMoves, PackedPlaces
  <2>3. PackedOffset[1] = BodySize - Cardinality(LiveBytes(1))
    BY <1>1, <2>1, PackedOffsets
  <2>4. Cardinality(LiveBytes(1)) \in Nat
    BY <1>1, <2>1, LiveBytesFinite
  <2>5. LiveBytes(1) = UNION {Extent(i) : i \in {i \in 1 .. slot_count : Live(i)}}
    BY DEF LiveBytes
  <2>6. free_space_end' >= free_space_end /\ BodySize - free_space_end' = Cardinality(LiveBytes(1))
    BY <2>1, <2>2, <2>3, <2>4
  <2> QED
    BY <2>5, <2>6, Zenon
<1> DEFINE Reclaims == Compact => /\ free_space_end' >= free_space_end
                                  /\ BodySize - free_space_end' =
                                        Cardinality(UNION {Extent(i) : i \in {i \in 1 .. slot_count : Live(i)}})
<1>2. PageInvariant => [Reclaims]_vars
  BY <1>1
<1> QED
  BY <1>2, PageSound, PTL DEF CompactReclaims, Reclaims

-----------------------------------------------------------------------------
(***************************************************************************)
(* The refinement of RecordPage.                                           *)
(***************************************************************************)

\* What callers read: one entry per slot, and no entry of a live slot can be
\* taken for an empty one.
LEMMA ContentsOf ==
    ASSUME PageInvariant
    PROVE  /\ slot_count \in Nat /\ Len(Contents) = slot_count /\ DOMAIN Contents = 1 .. slot_count
           /\ \A i \in 1 .. slot_count :
                 /\ slots[i].deleted => Contents[i] = NoTuple
                 /\ ~slots[i].deleted => Contents[i] = Bytes(i) /\ Contents[i] # NoTuple
<1>1. slot_count \in Nat
  BY DEF PageInvariant, TypeOK, slot_count
<1>2. DOMAIN Contents = 1 .. slot_count
  BY DEF Contents
<1>3. Len(Contents) = slot_count
  BY <1>1 DEF Contents
<1>4. ASSUME NEW i \in 1 .. slot_count, ~slots[i].deleted
      PROVE  Contents[i] = Bytes(i) /\ Contents[i] # NoTuple
  <2>1. Contents[i] = Bytes(i) /\ Live(i)
    BY <1>4 DEF Contents, Live
  <2>2. Bytes(i) \in Tuple
    BY <2>1 DEF PageInvariant, TuplesWhole
  <2> QED
    BY <2>1, <2>2, LayoutAssumption
<1>5. ASSUME NEW i \in 1 .. slot_count, slots[i].deleted
      PROVE  Contents[i] = NoTuple
  BY <1>5 DEF Contents
<1> QED
  BY <1>1, <1>2, <1>3, <1>4, <1>5

\* Storing a tuple changes the entry of its slot and adds empty ones.
LEMMA PutContents ==
    ASSUME PageInvariant, NEW at, NEW m, NEW tuple \in Tuple, PutStep(at, m, tuple),
           m = IF at > slot_count THEN at ELSE slot_count
    PROVE  Contents' = Records!PutAt(at, tuple)
<1> DEFINE put == [j \in 1 .. m |-> IF j = at THEN tuple
                                    ELSE IF j <= slot_count THEN Contents[j] ELSE NoTuple]
<1>1. /\ slot_count \in Nat /\ m \in Nat /\ at \in 1 .. m /\ slot_count <= m /\ slot_count' = m
      /\ Len(Contents) = slot_count
  BY ContentsOf DEF PutStep, slot_count
<1>2. Records!PutAt(at, tuple) = put
  BY <1>1 DEF Records!PutAt
<1>3. ASSUME NEW j \in 1 .. m
      PROVE  (IF slots'[j].deleted THEN NoTuple ELSE Bytes(j)') = put[j]
  <2>1. CASE j = at
    <3>1. ~slots'[at].deleted /\ Bytes(at)' = tuple
      BY PutHere DEF Live
    <3> QED
      BY <2>1, <3>1
  <2>2. CASE j # at /\ j <= slot_count
    <3>1. j \in 1 .. slot_count
      BY <1>1, <2>2
    <3>2. slots'[j] = slots[j] /\ (Live(j) => Bytes(j)' = Bytes(j))
      BY <2>2, <3>1, PutElsewhere
    <3>3. Contents[j] = IF slots[j].deleted THEN NoTuple ELSE Bytes(j)
      BY <3>1 DEF Contents
    <3> QED
      BY <2>2, <3>1, <3>2, <3>3 DEF Live
  <2>3. CASE j # at /\ j > slot_count
    <3>1. slots'[j].deleted
      BY <1>1, <2>3, PutBeyond
    <3>2. ~(j <= slot_count)
      BY <1>1, <2>3
    <3> QED
      BY <2>3, <3>1, <3>2
  <2> QED
    BY <1>1, <2>1, <2>2, <2>3
<1>4. Contents' = [j \in 1 .. m |-> IF slots'[j].deleted THEN NoTuple ELSE Bytes(j)']
  BY <1>1 DEF Contents
<1>5. put = [j \in 1 .. m |-> put[j]]
  OBVIOUS
<1> HIDE DEF put
<1> QED
  BY <1>2, <1>3, <1>4, <1>5

\* Every step of the slotted page is a step of the list of records, or is not
\* visible to callers.
LEMMA StepRefines ==
    ASSUME PageInvariant, [Next]_vars
    PROVE  [Records!Next]_Contents
<1>1. slot_count \in Nat /\ Len(Contents) = slot_count
  BY ContentsOf
<1>2. ASSUME NEW tuple \in Tuple, InsertTuple(tuple)
      PROVE  Records!Next
  <2>1. PICK at \in 1 .. slot_count + 1 :
              /\ PutStep(at, IF at > slot_count THEN slot_count + 1 ELSE slot_count, tuple)
              /\ at <= slot_count => slots[at].deleted
              /\ \A j \in 1 .. at - 1 : ~slots[j].deleted
    BY <1>2, InsertPuts
  <2>2. PutStep(at, IF at > slot_count THEN at ELSE slot_count, tuple)
    <3>1. at > slot_count => at = slot_count + 1
      BY <1>1
    <3> QED
      BY <2>1, <3>1
  <2>3. Contents' = Records!PutAt(at, tuple)
    BY <2>2, PutContents
  <2>4. Records!FirstFree(at)
    <3>1. at <= slot_count => Contents[at] = NoTuple
      BY <1>1, <2>1, ContentsOf
    <3>2. \A j \in 1 .. at - 1 : Contents[j] # NoTuple
      <4>1. \A j \in 1 .. at - 1 : j \in 1 .. slot_count
        BY <1>1
      <4> QED
        BY <2>1, <4>1, ContentsOf
    <3> QED
      BY <1>1, <3>1, <3>2 DEF Records!FirstFree
  <2>5. Records!Insert(at, tuple) /\ at \in 1 .. Len(Contents) + 1
    BY <1>1, <2>3, <2>4 DEF Records!Insert
  <2> QED
    BY <2>5 DEF Records!Next
<1>3. ASSUME NEW at \in 1 .. MaxSlots, NEW tuple \in Tuple, InsertTupleAtSlot(at, tuple)
      PROVE  Records!Next
  <2>1. PutStep(at, IF at > slot_count THEN at ELSE slot_count, tuple)
    BY <1>3, InsertAtPuts
  <2>2. Contents' = Records!PutAt(at, tuple)
    BY <2>1, PutContents
  <2>3. at \in 1 .. Len(Contents')
    <3>1. PageInvariant'
      BY <2>1, PutKeepsInvariant
    <3>2. slot_count' \in Nat
      BY <3>1 DEF PageInvariant, TypeOK, slot_count
    <3>3. Len(Contents') = slot_count'
      BY <3>2 DEF Contents
    <3> QED
      BY <2>1, <3>3, PutHere
  <2> QED
    BY <2>2, <2>3 DEF Records!Next, Records!InsertAt
<1>4. ASSUME NEW i \in 1 .. slot_count, NEW tuple \in Tuple, UpdateTuple(i, tuple)
      PROVE  Records!Next
  <2>1. PutStep(i, slot_count, tuple) /\ Live(i)
    BY <1>4, UpdatePuts
  <2>2. slot_count = IF i > slot_count THEN i ELSE slot_count
    BY <1>1
  <2>3. Contents' = Records!PutAt(i, tuple)
    BY <2>1, <2>2, PutContents
  <2>4. Contents' = [j \in 1 .. slot_count |-> IF j = i THEN tuple ELSE Contents[j]]
    BY <1>1, <2>3 DEF Records!PutAt
  <2>5. Contents' = [Contents EXCEPT ![i] = tuple]
    BY <2>4 DEF Contents
  <2>6. Contents[i] # NoTuple
    BY <2>1, ContentsOf DEF Live
  <2> QED
    BY <1>1, <2>5, <2>6 DEF Records!Next, Records!Update
<1>5. ASSUME NEW i \in 1 .. slot_count, DeleteTuple(i)
      PROVE  Records!Next
  <2>1. Contents[i] # NoTuple
    BY <1>5, DeleteMarks, ContentsOf DEF Live
  <2>2. Contents' = [j \in 1 .. slot_count |-> IF slots'[j].deleted THEN NoTuple ELSE Bytes(j)']
    BY <1>5, DeleteMarks DEF Contents
  <2>3. ASSUME NEW j \in 1 .. slot_count
        PROVE  (IF slots'[j].deleted THEN NoTuple ELSE Bytes(j)') = IF j = i THEN NoTuple ELSE Contents[j]
    BY <1>5, DeleteMarks DEF Contents
  <2>4. Contents' = [j \in 1 .. slot_count |-> IF j = i THEN NoTuple ELSE Contents[j]]
    BY <2>2, <2>3
  <2>5. Contents' = [Contents EXCEPT ![i] = NoTuple]
    BY <2>4 DEF Contents
  <2> QED
    BY <1>1, <2>1, <2>5 DEF Records!Next, Records!Delete
<1>6. ASSUME Compact
      PROVE  Contents' = Contents
  <2>1. ASSUME NEW j \in 1 .. slot_count
        PROVE  (IF slots'[j].deleted THEN NoTuple ELSE Bytes(j)') = Contents[j]
    BY <1>6, CompactMoves DEF Contents, Live
  <2>2. Contents' = [j \in 1 .. slot_count |-> IF slots'[j].deleted THEN NoTuple ELSE Bytes(j)']
    BY <1>6, CompactMoves DEF Contents
  <2>3. Contents = [j \in 1 .. slot_count |-> Contents[j]]
    BY DEF Contents
  <2> QED
    BY <2>1, <2>2, <2>3
<1>7. CASE UNCHANGED vars
  BY <1>7 DEF vars, Contents, Bytes, slot_count
<1> QED
  BY <1>2, <1>3, <1>4, <1>5, <1>6, <1>7 DEF Next

\* The slotted page implements the list of records it promises its callers.
THEOREM ImplementsRecordsAlways == Spec => ImplementsRecords
<1>1. Init => Records!Init
  BY DEF Init, Records!Init, Contents, slot_count
<1>2. PageInvariant /\ [Next]_vars => [Records!Next]_Contents
  BY StepRefines
<1> QED
  BY <1>1, <1>2, PageSound, PTL DEF Spec, ImplementsRecords, Records!Spec
=============================================================================
