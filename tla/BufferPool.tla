----------------------------- MODULE BufferPool -----------------------------
(***************************************************************************)
(* The page cache: BufferPoolManager with its BufferFrames, its            *)
(* LRUKReplacer and the page guards that pin frames, on top of the         *)
(* DiskManager (src/src/buffer, src/src/storage/disk_manager.cpp).         *)
(*                                                                         *)
(* None of these classes takes a latch, so each call is one step.  What    *)
(* makes them hard is the order of calls: several guards on one page,      *)
(* eviction between two of them, a write that fails inside an eviction,    *)
(* and page 0, which the disk manager rewrites behind the pool's back each *)
(* time it allocates a page.                                               *)
(*                                                                         *)
(* A page is abstracted to a value of Data, one of them the zeroed page,   *)
(* and the page count that DatabaseMetadata keeps in the first bytes of    *)
(* page 0 (meaningless in the others).  A frame is valid iff it holds a    *)
(* page.                                                                   *)
(***************************************************************************)
EXTENDS Integers, FiniteSets, Sequences, Subsequences

CONSTANTS
    PoolSize,   \* pool_size_
    MaxPages,   \* bound: the file never grows beyond this many pages
    Data,       \* what a page can hold
    ZeroPage,   \* the contents of the cleared page
    Guards,     \* the guard variables of the callers
    Writable,   \* the pages the callers write through a WritePageGuard
    Failing,    \* whether reads and writes of the file may fail
    NoPage,     \* kInvalidPageId
    NoFrame     \* absence from page_table_

Frames == 0 .. PoolSize - 1

PageId == 0 .. MaxPages - 1

ASSUME PoolAssumption ==
    /\ PoolSize \in Nat \ {0}
    /\ MaxPages \in Nat \ {0}
    /\ ZeroPage \in Data
    /\ Writable \subseteq PageId
    /\ Failing \in BOOLEAN
    /\ IsFiniteSet(Guards)
    /\ NoPage \notin PageId
    /\ NoFrame \notin Frames

\* The K of the replacer that the pool constructs.
K == 2

Page == [count : 0 .. MaxPages, data : Data]

\* Page::clear().
Cleared == [count |-> 0, data |-> ZeroPage]

BufferFrame == [page : PageId \cup {NoPage}, pin : Nat, dirty : BOOLEAN, content : Page]

\* BufferFrame::invalidate().
Invalidated == [page |-> NoPage, pin |-> 0, dirty |-> FALSE, content |-> Cleared]

\* BufferFrame::reset(), followed by what is read into the page.
Loaded(p, content) == [page |-> p, pin |-> 1, dirty |-> FALSE, content |-> content]

\* BasicPageGuard; page is NoPage when the guard is empty or moved from.
PageGuard == [page : PageId \cup {NoPage}, frame : Frames \cup {NoFrame}, dirty : BOOLEAN]

EmptyGuard == [page |-> NoPage, frame |-> NoFrame, dirty |-> FALSE]

VARIABLES
    frames,      \* frames_
    page_table,  \* page_table_
    accesses,    \* the replacer's retained accesses of all frames, oldest first
    evictable,   \* the frames whose is_evictable_ is set
    curr_size,   \* LRUKReplacer::curr_size_
    guards,      \* the callers' page guards
    disk,        \* the pages of the file; {} where the file has none
    page_count   \* DiskManager::page_count_

vars == <<frames, page_table, accesses, evictable, curr_size, guards, disk, page_count>>

TypeOK ==
    /\ frames \in [Frames -> BufferFrame]
    /\ page_table \in [PageId -> Frames \cup {NoFrame}]
    /\ accesses \in Seq(Frames)
    /\ evictable \subseteq Frames
    /\ curr_size \in Nat
    /\ guards \in [Guards -> PageGuard]
    /\ disk \in [PageId -> {{}} \cup {{c} : c \in Page}]
    /\ page_count \in 0 .. MaxPages

(***************************************************************************)
(* LRUKReplacer.  Timestamps are unique and only ever compared, so the     *)
(* model keeps the accesses in one sequence: a frame's history_ is the     *)
(* subsequence of its occurrences.                                         *)
(***************************************************************************)
HistorySize(f) == Cardinality({i \in DOMAIN accesses : accesses[i] = f})

Tracked(f) == \E i \in DOMAIN accesses : accesses[i] = f

\* history_.front()
Earliest(f) == CHOOSE i \in DOMAIN accesses :
    accesses[i] = f /\ \A j \in DOMAIN accesses : accesses[j] = f => i <= j

Forget(f) == Pick(accesses, {i \in 1 .. Len(accesses) : accesses[i] # f})

RecordAccess(f) ==
    IF HistorySize(f) < K
    THEN Append(accesses, f)
    ELSE Append(Pick(accesses, 1 .. Len(accesses) \ {Earliest(f)}), f)

\* Mutant of Beats: least recently used, whatever the number of accesses.
BeatsByAge(i, best) == Earliest(i) < Earliest(best)

\* The comparison of the loop: does frame i replace the best candidate so far?
Beats(i, best) ==
    LET inf(f) == HistorySize(f) < K
    IN  \/ inf(i) /\ ~inf(best)
        \/ inf(i) = inf(best) /\ Earliest(i) < Earliest(best)

Candidate(f) == f \in evictable /\ Tracked(f)

\* evict(): best[n] is the best candidate among the first n frames.
Evict ==
    LET best[n \in 0 .. PoolSize] ==
            IF n = 0 THEN NoFrame
            ELSE LET i == n - 1
                 IN  IF Candidate(i) /\ (best[i] = NoFrame \/ Beats(i, best[i])) THEN i ELSE best[i]
    IN  best[PoolSize]

-----------------------------------------------------------------------------
Valid(f) == frames[f].page # NoPage

Init ==
    /\ frames = [f \in Frames |-> Invalidated]
    /\ page_table = [p \in PageId |-> NoFrame]
    /\ accesses = <<>>
    /\ evictable = {}
    /\ curr_size = 0
    /\ guards = [g \in Guards |-> EmptyGuard]
    /\ disk = [p \in PageId |-> IF p = 0 THEN {[count |-> 1, data |-> ZeroPage]} ELSE {}]
    /\ page_count = 1

(***************************************************************************)
(* DiskManager::writePage.  The stream accepts the page, or fails after    *)
(* having overwritten some of it.                                          *)
(***************************************************************************)
Written(d, p, content) == [d EXCEPT ![p] = {content}]

TornWrite(d, p, content) ==
    {[d EXCEPT ![p] = {[count |-> c, data |-> x]}] :
        c \in {content.count} \cup {old.count : old \in d[p]}, x \in Data}

(***************************************************************************)
(* findFreeFrame: the lowest invalid frame, else the replacer's victim,    *)
(* which is flushed if dirty, taken out of the page table and forgotten by *)
(* the replacer.  FreeFrame(f) says that the call returns f once the       *)
(* flush, if there is one, has succeeded.                                  *)
(***************************************************************************)
NoInvalidFrame == \A f \in Frames : Valid(f)

Victim(f) == NoInvalidFrame /\ f = Evict /\ f # NoFrame

FreeFrame(f) ==
    \/ ~Valid(f) /\ \A g \in Frames : g < f => Valid(g)
    \/ Victim(f)

\* The disk after the victim's flush.
FlushVictim(f) ==
    IF frames[f].dirty THEN Written(disk, frames[f].page, frames[f].content) ELSE disk

\* page_table_ after the victim's entry is erased.
EraseVictim(f) ==
    [p \in PageId |-> IF p = frames[f].page THEN NoFrame ELSE page_table[p]]

\* LRUKReplacer::remove; a frame without history is left alone.
RemoveFrame(f) ==
    /\ evictable' = evictable \ {f}
    /\ curr_size' = IF Tracked(f) THEN curr_size - 1 ELSE curr_size

\* The replacer once the frame has been emptied, loaded and pinned by its new page.
LoadFrame(f) == accesses' = Append(Forget(f), f)

\* setEvictable; a frame without history is left alone.
SetEvictable(f, b) ==
    IF ~Tracked(f) \/ (f \in evictable) = b
    THEN UNCHANGED <<evictable, curr_size>>
    ELSE /\ evictable' = IF b THEN evictable \cup {f} ELSE evictable \ {f}
         /\ curr_size' = IF b THEN curr_size + 1 ELSE curr_size - 1

\* BasicPageGuard(this, frame, false).
Guard(g, f, p) == guards' = [guards EXCEPT ![g] = [page |-> p, frame |-> f, dirty |-> FALSE]]

\* Mutant of FetchHit: setEvictable(frame_id, false) is missing.
FetchHitStaysEvictable(g, p) ==
    /\ guards[g] = EmptyGuard
    /\ page_table[p] # NoFrame
    /\ LET f == page_table[p]
       IN  /\ frames' = [frames EXCEPT ![f].pin = @ + 1]
           /\ accesses' = RecordAccess(f)
           /\ Guard(g, f, p)
    /\ UNCHANGED <<page_table, evictable, curr_size, disk, page_count>>

(***************************************************************************)
(* fetchPageRead and fetchPageWrite on an empty guard.  They begin by      *)
(* dropping the guard, which is the Drop step below.                       *)
(***************************************************************************)
FetchHit(g, p) ==
    /\ guards[g] = EmptyGuard
    /\ page_table[p] # NoFrame
    /\ LET f == page_table[p]
       IN  /\ frames' = [frames EXCEPT ![f].pin = @ + 1]
           /\ accesses' = RecordAccess(f)
           /\ IF f \in evictable
              THEN evictable' = evictable \ {f} /\ curr_size' = curr_size - 1
              ELSE UNCHANGED <<evictable, curr_size>>
           /\ Guard(g, f, p)
    /\ UNCHANGED <<page_table, disk, page_count>>

\* readPage succeeds on page p of the file d.
Readable(d, p) == p < page_count /\ d[p] # {}

FetchMiss(g, p, f) ==
    /\ guards[g] = EmptyGuard
    /\ page_table[p] = NoFrame
    /\ FreeFrame(f)
    /\ disk' = FlushVictim(f)
    /\ Readable(disk', p)
    /\ frames' = [frames EXCEPT ![f] = Loaded(p, CHOOSE c \in disk'[p] : TRUE)]
    /\ page_table' = [EraseVictim(f) EXCEPT ![p] = f]
    /\ LoadFrame(f)
    /\ RemoveFrame(f)
    /\ Guard(g, f, p)
    /\ UNCHANGED page_count

\* Mutant of FetchFails: the frame reset for the page is not invalidated.
FetchFailsKeepsFrame(g, p, f) ==
    /\ guards[g] = EmptyGuard
    /\ page_table[p] = NoFrame
    /\ FreeFrame(f)
    /\ disk' = FlushVictim(f)
    /\ Failing \/ ~Readable(disk', p)
    /\ frames' = [frames EXCEPT ![f] = Loaded(p, Cleared)]
    /\ page_table' = EraseVictim(f)
    /\ accesses' = Forget(f)
    /\ RemoveFrame(f)
    /\ UNCHANGED <<guards, page_count>>

\* readPage fails: the victim is gone and the frame is invalidated.
FetchFails(g, p, f) ==
    /\ guards[g] = EmptyGuard
    /\ page_table[p] = NoFrame
    /\ FreeFrame(f)
    /\ disk' = FlushVictim(f)
    /\ Failing \/ ~Readable(disk', p)
    /\ frames' = [frames EXCEPT ![f] = Invalidated]
    /\ page_table' = EraseVictim(f)
    /\ accesses' = Forget(f)
    /\ RemoveFrame(f)
    /\ UNCHANGED <<guards, page_count>>

\* The flush of a dirty victim fails, in fetchPage or in newPage.
EvictionFails(f) ==
    /\ Failing
    /\ Victim(f)
    /\ frames[f].dirty
    /\ disk' \in TornWrite(disk, frames[f].page, frames[f].content)
    /\ UNCHANGED <<frames, page_table, accesses, evictable, curr_size, guards, page_count>>

(***************************************************************************)
(* newPageGuard.  allocatePage counts the page before it extends the file, *)
(* and then rewrites the metadata of page 0 on disk; a gap that a failed   *)
(* allocation left in the file reads as zeroes once the file grows past    *)
(* it.  Errors of the metadata update are ignored.                         *)
(***************************************************************************)
Extended(d, p) ==
    [q \in PageId |-> IF q = p \/ (q < p /\ d[q] = {}) THEN {Cleared} ELSE d[q]]

CountUpdated(d, n) == [d EXCEPT ![0] = {[c EXCEPT !.count = n] : c \in @}]

NewPage(g, f) ==
    /\ guards[g] = EmptyGuard
    /\ page_count < MaxPages
    /\ FreeFrame(f)
    /\ page_count' = page_count + 1
    /\ \/ disk' = CountUpdated(Extended(FlushVictim(f), page_count), page_count')
       \/ Failing /\ disk' = Extended(FlushVictim(f), page_count)
    /\ frames' = [frames EXCEPT ![f] = Loaded(page_count, Cleared)]
    /\ page_table' = [EraseVictim(f) EXCEPT ![page_count] = f]
    /\ LoadFrame(f)
    /\ RemoveFrame(f)
    /\ Guard(g, f, page_count)

\* The file cannot be extended: the page number stays counted, and a frame
\* emptied for the page stays empty.
NewPageFails(g, f) ==
    /\ guards[g] = EmptyGuard
    /\ Failing
    /\ page_count < MaxPages
    /\ FreeFrame(f)
    /\ page_count' = page_count + 1
    /\ disk' = FlushVictim(f)
    /\ frames' = [frames EXCEPT ![f] = Invalidated]
    /\ page_table' = EraseVictim(f)
    /\ accesses' = Forget(f)
    /\ RemoveFrame(f)
    /\ UNCHANGED guards

(***************************************************************************)
(* A caller changes the page through pageMut and marks the guard dirty.    *)
(* The mark is the guard's own until it is dropped.                        *)
(***************************************************************************)
Write(g, x) ==
    /\ guards[g].page \in Writable
    /\ frames' = [frames EXCEPT ![guards[g].frame].content.data = x]
    /\ guards' = [guards EXCEPT ![g].dirty = TRUE]
    /\ UNCHANGED <<page_table, accesses, evictable, curr_size, disk, page_count>>

\* Mutant of Unpinned: the last guard's mark replaces the frame's.
UnpinnedOverwriting(frame, dirty) ==
    [frame EXCEPT !.pin = IF @ > 0 THEN @ - 1 ELSE @, !.dirty = dirty]

\* BufferFrame::unpin
Unpinned(frame, dirty) ==
    [frame EXCEPT !.pin = IF @ > 0 THEN @ - 1 ELSE @, !.dirty = @ \/ dirty]

\* BasicPageGuard::drop: unpinPage, whose errors are ignored.
Drop(g) ==
    /\ guards[g] # EmptyGuard
    /\ LET f == page_table[guards[g].page]
       IN  IF f = NoFrame \/ frames[f].pin <= 0
           THEN UNCHANGED <<frames, evictable, curr_size>>
           ELSE /\ frames' = [frames EXCEPT ![f] = Unpinned(@, guards[g].dirty)]
                /\ IF frames'[f].pin = 0
                   THEN SetEvictable(f, TRUE)
                   ELSE UNCHANGED <<evictable, curr_size>>
    /\ guards' = [guards EXCEPT ![g] = EmptyGuard]
    /\ UNCHANGED <<page_table, accesses, disk, page_count>>

\* BasicPageGuard's move: h, dropped before, takes over what g owned.
Move(g, h) ==
    /\ guards[g] # EmptyGuard
    /\ guards[h] = EmptyGuard
    /\ guards' = [guards EXCEPT ![h] = guards[g], ![g] = EmptyGuard]
    /\ UNCHANGED <<frames, page_table, accesses, evictable, curr_size, disk, page_count>>

(***************************************************************************)
(* flushPage and flushAllPages.                                            *)
(***************************************************************************)
FlushPage(p) ==
    LET f == page_table[p]
    IN  /\ f # NoFrame
        /\ Valid(f)
        /\ frames[f].dirty
        /\ disk' = Written(disk, p, frames[f].content)
        /\ frames' = [frames EXCEPT ![f].dirty = FALSE]
        /\ UNCHANGED <<page_table, accesses, evictable, curr_size, guards, page_count>>

\* Mutant of FlushPageFails: the frame is marked clean whatever writePage says.
FlushPageFailsClean(p) ==
    LET f == page_table[p]
    IN  /\ Failing
        /\ f # NoFrame
        /\ frames[f].dirty
        /\ disk' \in TornWrite(disk, p, frames[f].content)
        /\ frames' = [frames EXCEPT ![f].dirty = FALSE]
        /\ UNCHANGED <<page_table, accesses, evictable, curr_size, guards, page_count>>

FlushPageFails(p) ==
    LET f == page_table[p]
    IN  /\ Failing
        /\ f # NoFrame
        /\ Valid(f)
        /\ frames[f].dirty
        /\ disk' \in TornWrite(disk, p, frames[f].content)
        /\ UNCHANGED <<frames, page_table, accesses, evictable, curr_size, guards, page_count>>

\* The frames below n that flushAllPages writes.
DirtyBelow(n) == {f \in Frames : f < n /\ Valid(f) /\ frames[f].dirty}

\* The file after those frames are written.
FlushedBelow(n) ==
    [p \in PageId |->
        IF \E f \in DirtyBelow(n) : frames[f].page = p
        THEN {frames[f].content : f \in {f \in DirtyBelow(n) : frames[f].page = p}}
        ELSE disk[p]]

CleanedBelow(n) ==
    [f \in Frames |-> IF f \in DirtyBelow(n) THEN [frames[f] EXCEPT !.dirty = FALSE] ELSE frames[f]]

FlushAllPages ==
    /\ DirtyBelow(PoolSize) # {}
    /\ disk' = FlushedBelow(PoolSize)
    /\ frames' = CleanedBelow(PoolSize)
    /\ UNCHANGED <<page_table, accesses, evictable, curr_size, guards, page_count>>

\* flushAllPages stops at the first frame whose write fails.
FlushAllPagesFails(n) ==
    /\ Failing
    /\ n \in DirtyBelow(PoolSize)
    /\ disk' \in TornWrite(FlushedBelow(n), frames[n].page, frames[n].content)
    /\ frames' = CleanedBelow(n)
    /\ UNCHANGED <<page_table, accesses, evictable, curr_size, guards, page_count>>

(***************************************************************************)
(* The end of the process and its next start: ~BufferPoolManager flushes,  *)
(* ignoring errors, the file is closed and opened again, page_count_ is    *)
(* read from page 0 and a new pool is constructed.                         *)
(***************************************************************************)
Reopen ==
    /\ \A g \in Guards : guards[g] = EmptyGuard
    /\ page_count' = (CHOOSE c \in disk'[0] : TRUE).count
    /\ frames' = [f \in Frames |-> Invalidated]
    /\ page_table' = [p \in PageId |-> NoFrame]
    /\ accesses' = <<>>
    /\ evictable' = {}
    /\ curr_size' = 0
    /\ UNCHANGED guards

Restart == disk' = FlushedBelow(PoolSize) /\ Reopen

RestartFails(n) ==
    /\ Failing
    /\ n \in DirtyBelow(PoolSize)
    /\ disk' \in TornWrite(FlushedBelow(n), frames[n].page, frames[n].content)
    /\ Reopen

Next ==
    \/ \E g \in Guards, p \in PageId : FetchHit(g, p)
    \/ \E g \in Guards, p \in PageId, f \in Frames : FetchMiss(g, p, f)
    \/ \E g \in Guards, p \in PageId, f \in Frames : FetchFails(g, p, f)
    \/ \E f \in Frames : EvictionFails(f)
    \/ \E g \in Guards, f \in Frames : NewPage(g, f)
    \/ \E g \in Guards, f \in Frames : NewPageFails(g, f)
    \/ \E g \in Guards, x \in Data : Write(g, x)
    \/ \E g \in Guards : Drop(g)
    \/ \E g, h \in Guards : Move(g, h)
    \/ \E p \in PageId : FlushPage(p)
    \/ \E p \in PageId : FlushPageFails(p)
    \/ FlushAllPages
    \/ \E n \in Frames : FlushAllPagesFails(n)
    \/ Restart
    \/ \E n \in Frames : RestartFails(n)

Spec == Init /\ [][Next]_vars

-----------------------------------------------------------------------------
(***************************************************************************)
(* Properties                                                              *)
(***************************************************************************)

\* The page table and the frames agree in both directions, whatever fails in
\* between: no page is cached in two frames, which would let two guards write
\* two copies of it, and no entry leads to a frame that was emptied or reused
\* (findFreeFrame, fetchPage and newPage with their error returns).
TableMatchesFrames ==
    /\ \A p \in PageId : page_table[p] # NoFrame => frames[page_table[p]].page = p
    /\ \A f \in Frames : Valid(f) => page_table[frames[f].page] = f

\* A live guard still looks at the page it was made for, and the pin count of
\* a frame is the number of guards on it: no eviction, failed fetch, move or
\* drop in any order takes a page away from a guard or leaves a pin behind.
PinsMatchGuards ==
    /\ TableMatchesFrames
    /\ \A g \in Guards : guards[g] # EmptyGuard =>
           frames[guards[g].frame].page = guards[g].page
    /\ \A f \in Frames : frames[f].pin = Cardinality({g \in Guards : guards[g].frame = f})

\* The replacer's books: the evictable frames, their number, the tracked ones.
ReplacerAgrees ==
    /\ evictable = {f \in Frames : Valid(f) /\ frames[f].pin = 0}
    /\ curr_size = Cardinality(evictable)
    /\ \A f \in Frames : Tracked(f) <=> Valid(f)

\* The replacer offers exactly the cached pages nobody has pinned, and its
\* size counts them, so BufferPoolFull is returned only when every frame is
\* pinned (setEvictable and remove against pin, unpin and invalidate).
EvictableWhenUnpinned ==
    /\ ReplacerAgrees
    /\ NoInvalidFrame /\ (\E f \in Frames : frames[f].pin = 0) => Evict # NoFrame

\* A guard is empty, or it has a page and a frame.
GuardsWhole ==
    \A g \in Guards : guards[g] = EmptyGuard \/ (guards[g].page # NoPage /\ guards[g].frame # NoFrame)

\* The replacer keeps at most K accesses of a frame.
HistoryBounded == \A f \in Frames : HistorySize(f) <= K

\* A cached page is a page of the file, and below the page count.
CachedPagesExist ==
    /\ disk[0] # {}
    /\ \A f \in Frames : Valid(f) => frames[f].page < page_count /\ disk[frames[f].page] # {}

\* The victim has the largest backward K-distance: no evictable frame that
\* lacks K accesses is passed over for one that has them, and among equals the
\* one whose K-th last access (first, if it lacks K) is oldest goes first
\* (the comment of LRUKReplacer, for the loop of evict and the trimming of
\* recordAccess).
VictimIsOldest ==
    \A f \in Frames \cap evictable :
        Evict # NoFrame /\ f # Evict =>
            /\ HistorySize(Evict) <= K /\ HistorySize(f) <= K
            /\ HistorySize(Evict) >= K => HistorySize(f) >= K
            /\ (HistorySize(Evict) >= K <=> HistorySize(f) >= K) => Earliest(Evict) < Earliest(f)

\* What a clean frame shows, no unfinished writer holding it, is what the file
\* holds: evicting it without a write loses nothing.  Page 0's count is left
\* out, the disk manager updates it in the file only.
CleanMatchesDisk ==
    \A f \in Frames :
        Valid(f) /\ ~frames[f].dirty /\ (\A g \in Guards : guards[g].frame = f => ~guards[g].dirty)
            => \E c \in disk[frames[f].page] : c.data = frames[f].content.data

\* The invariant the proofs use: together the parts are inductive.
PoolInvariant ==
    /\ TypeOK /\ GuardsWhole /\ PinsMatchGuards
    /\ ReplacerAgrees /\ HistoryBounded
    /\ CachedPagesExist /\ CleanMatchesDisk

\* While no caller writes page 0, no frame and no guard has it dirty, and the
\* count that the file keeps there is the disk manager's.
CountOnFile ==
    /\ \A f \in Frames : frames[f].page = 0 => ~frames[f].dirty
    /\ \A g \in Guards : guards[g].page = 0 => ~guards[g].dirty
    /\ ~Failing => \A c \in disk[0] : c.count = page_count

\* What a reader of page p is shown: the cached copy, else the file; nothing
\* if p is beyond the page count.
Current(p) ==
    IF page_table[p] # NoFrame
    THEN {frames[page_table[p]].content.data}
    ELSE {c.data : c \in IF p < page_count THEN disk[p] ELSE {}}

\* What its readers may be shown before it is written again: the cached copy,
\* and the file's if the cached one may be dropped without being written.
Copies(p) ==
    LET f == page_table[p]
        settled == \A g \in Guards : guards[g].frame = f => ~guards[g].dirty
    IN  IF f = NoFrame THEN disk[p]
        ELSE {frames[f].content} \cup IF ~frames[f].dirty /\ settled THEN disk[p] ELSE {}

\* A restart with a file that may fail can lose pages: the destructor of the
\* pool ignores the errors of its last flush.
LossyRestart == Failing /\ (Restart \/ \E n \in Frames : RestartFails(n))

\* No step but a write through a guard on that page changes what readers of an
\* existing page see: evictions, flushes that fail half way, failed reads,
\* new pages in reused frames and, if the file works, restarts lose no
\* completed write.
NoLostWrite ==
    [][\A p \in PageId :
          Current(p) # {} /\ Current(p)' # Current(p) =>
              LossyRestart \/ \E g \in Guards : guards[g].page = p /\ guards'[g].dirty]_vars
=============================================================================
