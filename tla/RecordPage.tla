----------------------------- MODULE RecordPage -----------------------------
(***************************************************************************)
(* What SlottedPage promises its callers (src/include/storage/             *)
(* slotted_page.hpp): a numbered list of slots, each empty or holding a    *)
(* tuple.  Slot numbers are stable, an insertion takes the first empty     *)
(* slot or adds one, and nothing but the operation on a slot changes it.   *)
(* How much fits is left open: any operation may be refused.               *)
(***************************************************************************)
EXTENDS Naturals, Sequences

CONSTANTS Tuple, NoTuple

VARIABLE records

\* The first empty slot, or the one after the last.
FirstFree(i) ==
    /\ i \in 1 .. Len(records) + 1
    /\ i <= Len(records) => records[i] = NoTuple
    /\ \A j \in 1 .. i - 1 : records[j] # NoTuple

\* The list with slot i holding tuple, extended with empty slots up to i.
PutAt(i, tuple) ==
    [j \in 1 .. IF i > Len(records) THEN i ELSE Len(records) |->
        IF j = i THEN tuple ELSE IF j <= Len(records) THEN records[j] ELSE NoTuple]

Init == records = <<>>

Insert(i, tuple) == FirstFree(i) /\ records' = PutAt(i, tuple)

InsertAt(i, tuple) == records' = PutAt(i, tuple)

Update(i, tuple) ==
    /\ i \in 1 .. Len(records) /\ records[i] # NoTuple
    /\ records' = [records EXCEPT ![i] = tuple]

Delete(i) ==
    /\ i \in 1 .. Len(records) /\ records[i] # NoTuple
    /\ records' = [records EXCEPT ![i] = NoTuple]

Next ==
    \/ \E i \in 1 .. Len(records) + 1, tuple \in Tuple : Insert(i, tuple)
    \/ \E i \in 1 .. Len(records'), tuple \in Tuple : InsertAt(i, tuple)
    \/ \E i \in 1 .. Len(records), tuple \in Tuple : Update(i, tuple)
    \/ \E i \in 1 .. Len(records) : Delete(i)

Spec == Init /\ [][Next]_records
=============================================================================
