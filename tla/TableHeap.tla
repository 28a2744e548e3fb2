----------------------------- MODULE TableHeap -----------------------------
(***************************************************************************)
(* One table's heap file: TableHeap and HeapIterator (src/src/storage).    *)
(* The heap is a list of slotted pages linked on disk.  Every executor     *)
(* opens a TableHeap object of its own on the table's first page, and      *)
(* iterators stay open while tuples are inserted and deleted.  The objects *)
(* take no latch, so each call is one step; it reads and writes the file   *)
(* directly, past the buffer pool, and any of its disk calls may fail.  A  *)
(* failed write leaves the old or the new page.  A crash between two       *)
(* writes of a call leaves the disk as the failure of the second does.     *)
(*                                                                         *)
(* A page is its slots (the records of SlottedPage), the free bytes left,  *)
(* and its links.  Nothing compacts a heap page: a deleted tuple frees its *)
(* slot but not its bytes.  A zeroed page is RawPage: as a slotted page it *)
(* is full, and its next page id is 0, the page of the database metadata.  *)
(* What a walk finds beyond it depends on the bytes there, so no call that *)
(* walks into a raw page is modelled.                                      *)
(***************************************************************************)
EXTENDS Integers, Sequences, FiniteSets, FiniteSetsExt

CONSTANTS
    Heap,           \* the TableHeap objects
    Iter,           \* the HeapIterator objects
    Tuple,          \* tuples, each standing for its size in bytes
    NoTuple,        \* a deleted slot
    Capacity,       \* bytes of an empty page
    SlotSize,       \* TupleSlot::kSize
    MaxPages,       \* bound on the pages allocated
    MaxFailures,    \* bound on the disk calls that fail
    NoPage,         \* kInvalidPageId
    RawPage         \* a page allocated and not initialised

PageId == 1 .. MaxPages

HeapPage == [slots : Seq(Tuple \cup {NoTuple}), free : 0 .. Capacity,
             prev : PageId \cup {NoPage}, next : PageId \cup {NoPage}]

ASSUME HeapAssumption ==
    /\ Tuple \subseteq Nat \ {0} /\ NoTuple \notin Tuple
    /\ Capacity \in Nat /\ SlotSize \in Nat \ {0} /\ MaxPages \in Nat
    /\ MaxFailures \in Nat
    /\ NoPage \notin PageId /\ RawPage \notin HeapPage

VARIABLES
    disk,           \* the pages of the file
    page_count,     \* DiskManager::page_count_, page 0 left out
    failures,       \* the disk calls that have failed
    first,          \* first_page_id_, the same in all objects; NoPage: no heap yet
    heaps,          \* the counters of each open TableHeap
    iters,          \* the iterators
    stored,         \* history: the tuples acknowledged and not deleted
    outdated,       \* history: objects whose heap changed behind their counters
    scans           \* history: what each iterator has returned, returned again
                    \* and must return, and whether a read error ended it

diskVars == <<disk, page_count, failures>>
vars == <<diskVars, first, heaps, iters, stored, outdated, scans>>

-----------------------------------------------------------------------------
Closed == [open |-> FALSE]

\* An iterator is current_page_id_, current_slot_id_ and cached_page_; at the
\* end there is no page.
AtEnd == [page |-> NoPage]

RID == PageId \X Nat

TypeOK ==
    /\ disk \in [PageId -> HeapPage \cup {RawPage}]
    /\ page_count \in 0 .. MaxPages /\ failures \in 0 .. MaxFailures
    /\ first \in PageId \cup {NoPage}
    /\ heaps \in [Heap -> {Closed} \cup [open : {TRUE}, pages : Nat, tuples : Int]]
    /\ iters \in [Iter -> {AtEnd} \cup [page : PageId, slot : Nat, cached : HeapPage]]
    /\ DOMAIN stored \subseteq RID /\ \A rid \in DOMAIN stored : stored[rid] \in Tuple
    /\ outdated \subseteq Heap
    /\ scans \in [Iter -> [seen : SUBSET RID, again : SUBSET RID,
                          must : SUBSET RID, cut : BOOLEAN]]

LiveSlots(image) == {i \in 1 .. Len(image.slots) : image.slots[i] # NoTuple}
FreeSlots(image) == (1 .. Len(image.slots)) \ LiveSlots(image)

(***************************************************************************)
(* SlottedPage: initialize, isFull, insertTuple and deleteTuple.           *)
(***************************************************************************)
EmptyPage(prev) == [slots |-> <<>>, free |-> Capacity, prev |-> prev, next |-> NoPage]

\* isFull, and the test of insertTuple, which is the same.
Fits(image, tuple) ==
    tuple + (IF FreeSlots(image) = {} THEN SlotSize ELSE 0) <= image.free

\* The slot insertTuple takes: the first deleted one, else a new one.
SlotFor(image) ==
    IF FreeSlots(image) = {} THEN Len(image.slots) + 1 ELSE Min(FreeSlots(image))

\* Mutant of WithTuple: a tuple always goes to the first slot.
WithTupleFirstSlot(image, tuple) ==
    [image EXCEPT !.slots = IF @ = <<>> THEN <<tuple>> ELSE [@ EXCEPT ![1] = tuple],
                  !.free = @ - tuple]

WithTuple(image, tuple) ==
    IF FreeSlots(image) = {}
    THEN [image EXCEPT !.slots = Append(@, tuple), !.free = @ - tuple - SlotSize]
    ELSE [image EXCEPT !.slots[SlotFor(image)] = tuple, !.free = @ - tuple]

WithoutTuple(image, slot) == [image EXCEPT !.slots[slot] = NoTuple]

\* The page after p, if p is a page of the heap.
NextPage(p) == IF p = NoPage \/ disk[p] = RawPage THEN NoPage ELSE disk[p].next

\* The pages from p along the next pointers, up to the last or a raw one.
Path(p) ==
    LET at[i \in 1 .. MaxPages] == IF i = 1 THEN p ELSE NextPage(at[i - 1])
    IN  [i \in 1 .. Cardinality({k \in 1 .. MaxPages : at[k] # NoPage}) |-> at[i]]

Intact(path) == \A i \in 1 .. Len(path) : disk[path[i]] # RawPage

-----------------------------------------------------------------------------
Init ==
    /\ disk = [p \in PageId |-> RawPage]
    /\ page_count = 0 /\ failures = 0
    /\ first = NoPage
    /\ heaps = [h \in Heap |-> Closed]
    /\ iters = [i \in Iter |-> AtEnd]
    /\ stored = <<>>
    /\ outdated = {}
    /\ scans = [i \in Iter |-> [seen |-> {}, again |-> {}, must |-> {}, cut |-> FALSE]]

\* DiskManager::allocatePage; the number is used up even if the call fails.
Allocate ==
    /\ page_count < MaxPages
    /\ page_count' = page_count + 1

NewPageId == page_count + 1

\* A disk call fails.
Failure ==
    /\ failures < MaxFailures
    /\ failures' = failures + 1

\* The disk after a write of page p that is reported as failed.
FailedWrite(d, p, image) == {d, [d EXCEPT ![p] = image]}

Create(h) ==
    /\ first = NoPage
    /\ Allocate
    /\ disk' = [disk EXCEPT ![NewPageId] = EmptyPage(NoPage)]
    /\ first' = NewPageId
    /\ heaps' = [heaps EXCEPT ![h] = [open |-> TRUE, pages |-> 1, tuples |-> 0]]
    /\ UNCHANGED <<failures, iters, stored, outdated, scans>>

\* The page that could not be allocated or written is leaked.
CreateFails ==
    /\ first = NoPage
    /\ Allocate
    /\ Failure
    /\ disk' \in FailedWrite(disk, NewPageId, EmptyPage(NoPage))
    /\ UNCHANGED <<first, heaps, iters, stored, outdated, scans>>

\* Mutant of LiveTuples: deleted slots are counted too.
AllSlots(path) ==
    Cardinality(UNION {{i} \X (1 .. Len(disk[path[i]].slots)) : i \in 1 .. Len(path)})

LiveTuples(path) ==
    Cardinality(UNION {{i} \X LiveSlots(disk[path[i]]) : i \in 1 .. Len(path)})

\* open and bootstrapMetadata; a failed read leaves no object.
Open(h) ==
    /\ first # NoPage
    /\ LET path == Path(first)
       IN  /\ Intact(path)
           /\ heaps' = [heaps EXCEPT ![h] =
                          [open |-> TRUE, pages |-> Len(path), tuples |-> LiveTuples(path)]]
    /\ outdated' = outdated \ {h}
    /\ UNCHANGED <<diskVars, first, iters, stored, scans>>

\* The page of the heap that insertTuple stops at: the first with room.
HasRoom(path, i, tuple) ==
    /\ i \in 1 .. Len(path)
    /\ Intact(SubSeq(path, 1, i))
    /\ Fits(disk[path[i]], tuple)
    /\ \A j \in 1 .. i - 1 : ~Fits(disk[path[j]], tuple)

\* A tuple has been acknowledged at rid; the other objects do not know.
Acknowledge(h, rid, tuple) ==
    /\ stored' = [r \in DOMAIN stored \cup {rid} |-> IF r = rid THEN tuple ELSE stored[r]]
    /\ outdated' = outdated \cup (Heap \ {h})

InsertTuple(h, tuple) ==
    /\ heaps[h].open
    /\ LET path == Path(first)
       IN  \E i \in 1 .. Len(path) :
              /\ HasRoom(path, i, tuple)
              /\ disk' = [disk EXCEPT ![path[i]] = WithTuple(@, tuple)]
              /\ Acknowledge(h, <<path[i], SlotFor(disk[path[i]])>>, tuple)
    /\ heaps' = [heaps EXCEPT ![h].tuples = @ + 1]
    /\ UNCHANGED <<page_count, failures, first, iters, scans>>

\* No counter is reliable once a write has failed.
Doubt == outdated' = Heap

InsertTupleFails(h, tuple) ==
    /\ heaps[h].open
    /\ LET path == Path(first)
       IN  \E i \in 1 .. Len(path) :
              /\ HasRoom(path, i, tuple)
              /\ disk' = [disk EXCEPT ![path[i]] = WithTuple(@, tuple)]
    /\ Failure /\ Doubt
    /\ UNCHANGED <<page_count, first, heaps, iters, stored, scans>>

\* No page has room: the heap must grow behind its last page.
MustGrow(h, tuple) ==
    /\ heaps[h].open
    /\ LET path == Path(first)
       IN  Intact(path) /\ \A i \in 1 .. Len(path) : ~Fits(disk[path[i]], tuple)
    /\ Allocate

LastPage == LET path == Path(first) IN path[Len(path)]

\* Mutant of Linked: the page that follows is linked from the first page.
LinkedToFirst(new) == [disk EXCEPT ![first].next = new]

\* The old last page points at the new one.
Linked(new) == [disk EXCEPT ![LastPage].next = new]

\* The link is written first, the new page with its tuple second.
InsertGrows(h, tuple) ==
    /\ MustGrow(h, tuple)
    /\ Fits(EmptyPage(LastPage), tuple)
    /\ disk' = [Linked(NewPageId) EXCEPT ![NewPageId] =
                  WithTuple(EmptyPage(LastPage), tuple)]
    /\ Acknowledge(h, <<NewPageId, 1>>, tuple)
    /\ heaps' = [heaps EXCEPT ![h].pages = @ + 1, ![h].tuples = @ + 1]
    /\ UNCHANGED <<failures, first, iters, scans>>

\* The tuple does not fit into an empty page either: the call returns after
\* it has linked the page it allocated and not initialised.
InsertTooLarge(h, tuple) ==
    /\ MustGrow(h, tuple)
    /\ ~Fits(EmptyPage(LastPage), tuple)
    /\ disk' = Linked(NewPageId)
    /\ Doubt
    /\ UNCHANGED <<failures, first, heaps, iters, stored, scans>>

\* A disk call fails: the allocation, the write of the link, or the write of
\* the new page once the link is written.
InsertGrowFails(h, tuple) ==
    /\ MustGrow(h, tuple)
    /\ Failure
    /\ LET linked == Linked(NewPageId)
       IN  \/ disk' \in {disk, linked}
           \/ /\ Fits(EmptyPage(LastPage), tuple)
              /\ disk' = [linked EXCEPT ![NewPageId] = WithTuple(EmptyPage(LastPage), tuple)]
    /\ Doubt
    /\ UNCHANGED <<first, heaps, iters, stored, scans>>

\* The tuple at rid is gone, or may be: no iterator must return it any more.
Retract(rid) ==
    /\ stored' = [r \in DOMAIN stored \ {rid} |-> stored[r]]
    /\ scans' = [i \in Iter |-> [scans[i] EXCEPT !.must = @ \ {rid}]]

Deletes(h, p, slot) ==
    /\ heaps[h].open
    /\ p <= page_count
    /\ disk[p] # RawPage
    /\ slot \in LiveSlots(disk[p])
    /\ disk' = [disk EXCEPT ![p] = WithoutTuple(@, slot)]
    /\ Retract(<<p, slot>>)
    /\ UNCHANGED <<page_count, first, iters>>

DeleteTuple(h, p, slot) ==
    /\ Deletes(h, p, slot)
    /\ heaps' = [heaps EXCEPT ![h].tuples = @ - 1]
    /\ outdated' = outdated \cup (Heap \ {h})
    /\ UNCHANGED failures

\* The write fails, after the page has reached the disk.
DeleteTupleFails(h, p, slot) == Deletes(h, p, slot) /\ Failure /\ Doubt /\ UNCHANGED heaps

(***************************************************************************)
(* HeapIterator                                                            *)
(***************************************************************************)
\* The scan returns the tuple at rid.
Returns(scan, rid) ==
    [scan EXCEPT !.again = @ \cup ({rid} \cap scan.seen), !.seen = @ \cup {rid}]

\* The iterator stands on a tuple, which it returns.
StandsOn(i, page, slot, cached, scan) ==
    /\ iters' = [iters EXCEPT ![i] = [page |-> page, slot |-> slot, cached |-> cached]]
    /\ scans' = [scans EXCEPT ![i] = Returns(scan, <<page, slot>>)]

Ends(i, scan) ==
    /\ iters' = [iters EXCEPT ![i] = AtEnd]
    /\ scans' = [scans EXCEPT ![i] = scan]

\* advanceToNextValid onto page p: the first page from p that has a tuple is
\* loaded, and the iterator stands on its first one.  A page that cannot be
\* read ends the iteration.
MovesOn(i, p, scan) ==
    LET path == Path(p)
        good == {k \in 1 .. Len(path) : disk[path[k]] # RawPage /\ LiveSlots(disk[path[k]]) # {}}
    IN  \/ /\ good # {}
           /\ LET q == path[Min(good)] IN StandsOn(i, q, Min(LiveSlots(disk[q])), disk[q], scan)
           /\ UNCHANGED failures
        \/ good = {} /\ Intact(path) /\ Ends(i, scan) /\ UNCHANGED failures
        \/ path # <<>> /\ Failure /\ Ends(i, [scan EXCEPT !.cut = TRUE])

Begin(i) ==
    /\ first # NoPage
    /\ iters[i] = AtEnd
    /\ MovesOn(i, first, [seen |-> {}, again |-> {}, must |-> DOMAIN stored, cut |-> FALSE])
    /\ UNCHANGED <<disk, page_count, first, heaps, stored, outdated>>

\* Mutant of Later: the search goes on behind the next slot.
LaterSkipping(it) == {k \in LiveSlots(it.cached) : k > it.slot + 1}

\* The tuples behind the iterator's in its copy of the page.
Later(it) == {k \in LiveSlots(it.cached) : k > it.slot}

\* operator++
Advance(i) ==
    /\ iters[i] # AtEnd
    /\ LET it == iters[i]
       IN  \/ /\ Later(it) # {}
              /\ StandsOn(i, it.page, Min(Later(it)), it.cached, scans[i])
              /\ UNCHANGED failures
           \/ /\ Later(it) = {}
              /\ MovesOn(i, it.cached.next, scans[i])
    /\ UNCHANGED <<disk, page_count, first, heaps, stored, outdated>>

Next ==
    \/ CreateFails
    \/ \E h \in Heap :
          \/ Create(h) \/ Open(h)
          \/ \E tuple \in Tuple :
                \/ InsertTuple(h, tuple) \/ InsertTupleFails(h, tuple)
                \/ InsertGrows(h, tuple) \/ InsertTooLarge(h, tuple) \/ InsertGrowFails(h, tuple)
          \/ \E p \in PageId : disk[p] # RawPage /\ \E slot \in LiveSlots(disk[p]) :
                DeleteTuple(h, p, slot) \/ DeleteTupleFails(h, p, slot)
    \/ \E i \in Iter : Begin(i) \/ Advance(i)

Spec == Init /\ [][Next]_vars

-----------------------------------------------------------------------------
(***************************************************************************)
(* Properties                                                              *)
(***************************************************************************)

\* readTuple returns every acknowledged tuple until it is deleted, whatever
\* other objects insert, delete, reuse or fail to write.
StoredReadable ==
    \A rid \in DOMAIN stored :
        /\ disk[rid[1]] # RawPage
        /\ rid[2] \in LiveSlots(disk[rid[1]])
        /\ disk[rid[1]].slots[rid[2]] = stored[rid]

\* The links form one list in both directions: from the first page it visits
\* every initialised page of the heap once and ends, unless a growth that
\* failed after its first write has left a raw page at its end.
ChainSound ==
    first # NoPage =>
        LET path == Path(first)
            linked == {path[k] : k \in 1 .. Len(path)}
        IN  /\ Cardinality(linked) = Len(path)
            /\ \A rid \in DOMAIN stored : rid[1] \in linked
            /\ \A k \in 1 .. Len(path) : disk[path[k]] = RawPage => k = Len(path)
            /\ \A k \in 1 .. Len(path) : disk[path[k]] # RawPage =>
                  disk[path[k]].prev = IF k = 1 THEN NoPage ELSE path[k - 1]

\* A scan that is not cut short by a read error returns every tuple that was
\* there when it began and was not deleted while it ran, unchanged, although it
\* works on copies of pages that inserts and deletes go past.  And no scan
\* returns a place twice, with the tuple it knows or with one put there since.
ScanComplete ==
    \A i \in Iter :
        /\ scans[i].again = {}
        /\ IF iters[i] = AtEnd THEN scans[i].cut \/ scans[i].must \subseteq scans[i].seen
           ELSE LET it == iters[i]
                IN  <<it.page, it.slot>> \in scans[i].must =>
                       it.cached.slots[it.slot] = stored[<<it.page, it.slot>>]

\* Where the heap holds tuples.
LiveRIDs ==
    {rid \in PageId \X (1 .. Capacity) :
        disk[rid[1]] # RawPage /\ rid[2] \in LiveSlots(disk[rid[1]])}

\* getPageCount and getTupleCount are right for an object that made all the
\* changes since it was opened, as long as no write failed.
CountsExact ==
    \A h \in Heap \ outdated : heaps[h].open =>
        /\ heaps[h].pages = Len(Path(first))
        /\ heaps[h].tuples = Cardinality(LiveRIDs)

\* What the proofs need besides.  The links lead through pages that were
\* allocated one after the other, back again, and to every page with a slot.
PagesChained ==
    LET path == Path(first)
    IN  /\ path \in Seq(PageId)
        /\ IF path = <<>> THEN first = NoPage
           ELSE first = path[1] /\ NextPage(path[Len(path)]) = NoPage
        /\ \A k \in 1 .. Len(path) : path[k] <= page_count
        /\ \A j, k \in 1 .. Len(path) : j < k => path[j] < path[k]
        /\ \A k \in 1 .. Len(path) - 1 : NextPage(path[k]) = path[k + 1]
        /\ \A k \in 1 .. Len(path) : disk[path[k]] # RawPage =>
              disk[path[k]].prev = IF k = 1 THEN NoPage ELSE path[k - 1]
        /\ \A p \in PageId : disk[p] # RawPage =>
              /\ p <= page_count
              /\ Len(disk[p].slots) <= Capacity - disk[p].free
              /\ disk[p].slots = <<>> \/ \E k \in 1 .. Len(path) : p = path[k]

\* The place rid comes before that of the iterator, or is it.
Passed(it, rid) == rid[1] < it.page \/ (rid[1] = it.page /\ rid[2] <= it.slot)

\* A tuple that a scan still owes its caller lies ahead of the iterator: behind
\* its slot in the copy of its page, or on a page that this copy leads to.  What
\* it has returned lies at the iterator's place or before.
ScansSound ==
    \A i \in Iter :
        LET it == iters[i]
            must == scans[i].must
        IN  /\ must \subseteq DOMAIN stored /\ scans[i].again = {}
            /\ it = AtEnd => scans[i].cut \/ must \subseteq scans[i].seen
            /\ it # AtEnd =>
                  /\ \E k \in 1 .. Len(Path(first)) : it.page = Path(first)[k]
                  /\ disk[it.page] # RawPage /\ it.slot \in LiveSlots(it.cached)
                  /\ it.cached.next \in {NoPage, disk[it.page].next}
                  /\ \A rid \in scans[i].seen : Passed(it, rid)
                  /\ \A rid \in must : rid[1] = it.page =>
                        rid[2] \in LiveSlots(it.cached) /\ it.cached.slots[rid[2]] = stored[rid]
                  /\ \A rid \in must \ scans[i].seen :
                        \/ rid[1] = it.page /\ rid[2] > it.slot
                        \/ rid[1] > it.page /\ it.cached.next # NoPage

HeapInvariant ==
    /\ TypeOK /\ PagesChained /\ StoredReadable /\ ScansSound /\ CountsExact
    /\ \A h \in Heap : heaps[h].open => first # NoPage
=============================================================================
