----------------------------- MODULE SlottedPage -----------------------------
(***************************************************************************)
(* The slotted page (src/src/storage/slotted_page.cpp): a body of bytes    *)
(* with a header, a slot directory that grows upwards behind it, and       *)
(* tuples that grow downwards from the end.  Slots are numbered from 0 in  *)
(* the code and from 1 here.  The header and the directory are kept as     *)
(* variables of their own; the bytes they occupy are those below           *)
(* free_space_start, which no tuple may touch.                             *)
(*                                                                         *)
(* All sizes are below 2^16, so the casts to uint16_t lose nothing: the    *)
(* space checks compare full sizes before any of them.                     *)
(***************************************************************************)
EXTENDS Integers, Sequences, FiniteSets

CONSTANTS
    BodySize,       \* Page::kBodySize
    HeaderSize,     \* SlottedPageHeader::kSize
    SlotSize,       \* TupleSlot::kSize
    MaxSlots,       \* bound on the slots callers name
    Tuple,          \* the tuples callers store: non-empty sequences of bytes
    NoTuple

ASSUME LayoutAssumption ==
    /\ HeaderSize \in Nat /\ SlotSize \in Nat \ {0} /\ MaxSlots \in Nat
    /\ BodySize \in Nat /\ HeaderSize <= BodySize
    /\ NoTuple \notin Tuple
    /\ Tuple \subseteq Seq(0 .. 255) /\ <<>> \notin Tuple

TupleSlot == [offset : Nat, length : Nat, deleted : BOOLEAN]

VARIABLES
    slots,              \* the slot directory
    tuple_count,
    free_space_start,
    free_space_end,
    body                \* the bytes of the page

vars == <<slots, tuple_count, free_space_start, free_space_end, body>>

slot_count == Len(slots)

Live(i) == i \in 1 .. slot_count /\ ~slots[i].deleted

TypeOK ==
    /\ slots \in Seq(TupleSlot)
    /\ tuple_count \in Nat /\ free_space_start \in Nat /\ free_space_end \in Nat
    /\ DOMAIN body = 0 .. BodySize - 1

\* readTuple of a live slot.
Bytes(i) == [k \in 1 .. slots[i].length |-> body[slots[i].offset + k - 1]]

\* The slots as callers see them through readTuple.
Contents == [i \in 1 .. slot_count |-> IF slots[i].deleted THEN NoTuple ELSE Bytes(i)]

Max2(a, b) == IF a > b THEN a ELSE b

-----------------------------------------------------------------------------
\* initialize()
Init ==
    /\ slots = <<>>
    /\ tuple_count = 0
    /\ free_space_start = HeaderSize
    /\ free_space_end = BodySize
    /\ body = [k \in 0 .. BodySize - 1 |-> 0]

\* The tuple's bytes, written at the high end of the free space.
Placed(tuple) ==
    LET at == free_space_end - Len(tuple)
    IN  [k \in DOMAIN body |-> IF at <= k /\ k < free_space_end THEN tuple[k - at + 1] ELSE body[k]]

NewSlot(tuple) ==
    [offset |-> free_space_end - Len(tuple), length |-> Len(tuple), deleted |-> FALSE]

EmptySlot == [offset |-> 0, length |-> 0, deleted |-> TRUE]

\* Mutant of Fits: the new directory entries are not counted.
FitsTupleOnly(tuple, new_slots) == Len(tuple) <= free_space_end - free_space_start

Fits(tuple, new_slots) ==
    Len(tuple) + SlotSize * new_slots <= free_space_end - free_space_start

\* The first deleted slot, else a new one at the end of the directory.
InsertTuple(tuple) ==
    LET deleted == {i \in 1 .. slot_count : slots[i].deleted}
        reuse == deleted # {}
        at == IF reuse THEN CHOOSE i \in deleted : \A j \in deleted : i <= j ELSE slot_count + 1
    IN  /\ Fits(tuple, IF reuse THEN 0 ELSE 1)
        /\ body' = Placed(tuple)
        /\ slots' = IF reuse THEN [slots EXCEPT ![at] = NewSlot(tuple)]
                             ELSE Append(slots, NewSlot(tuple))
        /\ free_space_start' = IF reuse THEN free_space_start ELSE free_space_start + SlotSize
        /\ free_space_end' = free_space_end - Len(tuple)
        /\ tuple_count' = tuple_count + 1

\* Recovery's insertion at a given slot; the directory is extended with
\* deleted slots up to it.
InsertTupleAtSlot(at, tuple) ==
    LET new_slots == Max2(at - slot_count, 0)
    IN  /\ Fits(tuple, new_slots)
        /\ body' = Placed(tuple)
        /\ slots' = [i \in 1 .. slot_count + new_slots |->
                        IF i = at THEN NewSlot(tuple)
                        ELSE IF i <= slot_count THEN slots[i] ELSE EmptySlot]
        /\ free_space_start' = free_space_start + SlotSize * new_slots
        /\ free_space_end' = free_space_end - Len(tuple)
        /\ tuple_count' = IF Live(at) THEN tuple_count ELSE tuple_count + 1

\* The new image takes fresh space; the old one's is lost until compact().
UpdateTuple(i, tuple) ==
    /\ Live(i)
    /\ Fits(tuple, 0)
    /\ body' = Placed(tuple)
    /\ slots' = [slots EXCEPT ![i] = NewSlot(tuple)]
    /\ free_space_end' = free_space_end - Len(tuple)
    /\ UNCHANGED <<tuple_count, free_space_start>>

DeleteTuple(i) ==
    /\ Live(i)
    /\ slots' = [slots EXCEPT ![i].deleted = TRUE]
    /\ tuple_count' = tuple_count - 1
    /\ UNCHANGED <<free_space_start, free_space_end, body>>

\* Mutant of PackedOffset: deleted tuples keep their space.
PackedOffsetAll ==
    LET at[i \in 1 .. slot_count + 1] ==
            IF i = slot_count + 1 THEN BodySize ELSE at[i + 1] - slots[i].length
    IN  at

(***************************************************************************)
(* compact() walks the slots from the last to the first and packs the live *)
(* tuples downwards from the end of the body, through a scratch buffer.    *)
(* PackedOffset[i] is write_ptr after slot i has been placed.              *)
(***************************************************************************)
PackedOffset ==
    LET at[i \in 1 .. slot_count + 1] ==
            IF i = slot_count + 1 THEN BodySize
            ELSE IF slots[i].deleted THEN at[i + 1] ELSE at[i + 1] - slots[i].length
    IN  at

\* Mutant of Packed: the tuples are moved within the body, last slot first,
\* without the scratch buffer.
PackedInPlace(at) ==
    LET move[i \in 1 .. slot_count + 1] ==
            IF i = slot_count + 1 THEN body
            ELSE IF slots[i].deleted THEN move[i + 1]
            ELSE [k \in DOMAIN body |->
                    IF at[i] <= k /\ k < at[i] + slots[i].length
                    THEN move[i + 1][slots[i].offset + k - at[i]] ELSE move[i + 1][k]]
    IN  move[1]

\* The compacted body: scratch where tuples were packed, unchanged below.
Packed(at) ==
    [k \in DOMAIN body |->
        LET owner == {i \in 1 .. slot_count : Live(i) /\ at[i] <= k /\ k < at[i] + slots[i].length}
        IN  IF owner = {} THEN body[k]
            ELSE LET i == CHOOSE i \in owner : TRUE IN body[slots[i].offset + k - at[i]]]

Compact ==
    LET at == PackedOffset
    IN  /\ body' = Packed(at)
        /\ slots' = [i \in 1 .. slot_count |->
                        IF slots[i].deleted THEN slots[i] ELSE [slots[i] EXCEPT !.offset = at[i]]]
        /\ free_space_end' = at[1]
        /\ UNCHANGED <<tuple_count, free_space_start>>

Next ==
    \/ \E tuple \in Tuple : InsertTuple(tuple)
    \/ \E at \in 1 .. MaxSlots, tuple \in Tuple : InsertTupleAtSlot(at, tuple)
    \/ \E i \in 1 .. slot_count, tuple \in Tuple : UpdateTuple(i, tuple)
    \/ \E i \in 1 .. slot_count : DeleteTuple(i)
    \/ Compact

Spec == Init /\ [][Next]_vars

-----------------------------------------------------------------------------
(***************************************************************************)
(* Properties                                                              *)
(***************************************************************************)

\* The bytes a live slot points at.
Extent(i) == slots[i].offset .. slots[i].offset + slots[i].length - 1

\* The directory and the tuples keep apart: free_space_start is the end of the
\* directory and does not pass free_space_end, the live tuples lie between
\* free_space_end and the end of the body without overlapping, and tuple_count
\* counts them; after any mix of inserts into reused slots, recovery inserts
\* that skip slots, updates that strand space, deletes and compactions.
Layout ==
    /\ free_space_start = HeaderSize + SlotSize * slot_count
    /\ free_space_start <= free_space_end /\ free_space_end <= BodySize
    /\ \A i \in 1 .. slot_count : Live(i) => Extent(i) \subseteq free_space_end .. BodySize - 1
    /\ \A i, j \in 1 .. slot_count : Live(i) /\ Live(j) /\ i # j => Extent(i) \cap Extent(j) = {}
    /\ tuple_count = Cardinality({i \in 1 .. slot_count : Live(i)})

\* Every live slot points at the bytes of a tuple that was stored.
TuplesWhole == \A i \in 1 .. slot_count : Live(i) => Bytes(i) \in Tuple

\* What every operation keeps and needs: the inductive invariant.
PageInvariant == TypeOK /\ Layout /\ TuplesWhole

\* compact() frees whatever live tuples do not need and never takes space away.
CompactReclaims ==
    [][Compact => /\ free_space_end' >= free_space_end
                  /\ BodySize - free_space_end' =
                        Cardinality(UNION {Extent(i) : i \in {i \in 1 .. slot_count : Live(i)}})]_vars

\* The page implements the list of records it promises: every operation
\* changes what callers read in the slot it names and nowhere else, and
\* compaction changes nothing they can read.
Records == INSTANCE RecordPage WITH records <- Contents

ImplementsRecords == Records!Spec
=============================================================================
