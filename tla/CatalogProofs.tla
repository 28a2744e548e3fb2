---------------------------- MODULE CatalogProofs ----------------------------
(***************************************************************************)
(* Proofs about Catalog, for every set of names, number of tables, size of *)
(* the pool, size of the file and set of readers.                          *)
(*                                                                         *)
(* The pool keeps its own invariant, by the lemmas of BufferPoolProofs:    *)
(* for all pages but page 0, which a save that overflows writes and does   *)
(* not mark.  Of page 0 the proofs follow the copies that LoadFromDisk may *)
(* be shown: only saveToDisk makes new ones, and allocations of others     *)
(* change no more than their counts.                                       *)
(***************************************************************************)
EXTENDS Catalog, Integers, FiniteSetTheorems, SequenceTheorems,
        WellFoundedInduction, TLAPS

BP == INSTANCE BufferPoolProofs
         WITH Data <- Image, ZeroPage <- EmptyImage, Writable <- {0}, Failing <- FALSE

\* The pages that are not the catalog's.
Others == 1 .. MaxPages - 1

-----------------------------------------------------------------------------
(* The pool. *)

\* The assumptions of the pool hold of the constants it is given.
LEMMA PoolConstants ==
    /\ PoolSize \in Nat \ {0} /\ MaxPages \in Nat \ {0}
    /\ EmptyImage \in Image
    /\ {0} \subseteq BP!PageId
    /\ FALSE \in BOOLEAN
    /\ BP!IsFiniteSet(Guards)
    /\ NoPage \notin BP!PageId /\ NoFrame \notin BP!Frames
    /\ 0 \in BP!PageId \ Others /\ Others \subseteq BP!PageId
<1>1. EmptyImage \in Image
  <2>1. NoTables \in [{} -> TableInfo] /\ {} \in SUBSET Name /\ 0 \in TableId
    BY CatalogAssumption DEF NoTables, TableId
  <2> QED
    BY <2>1 DEF EmptyImage, Image
<1>2. BP!IsFiniteSet(Guards)
  <2>1. IsFiniteSet({"heap_guard"} \cup {"index_guard"} \cup {"guard"})
    BY FS_Singleton, FS_Union
  <2>2. IsFiniteSet(({"heap_guard"} \cup {"index_guard"} \cup {"guard"}) \cup Reader)
    BY <2>1, CatalogAssumption, FS_Union
  <2>3. ({"heap_guard"} \cup {"index_guard"} \cup {"guard"}) \cup Reader = Guards
    BY DEF Guards
  <2>4. IsFiniteSet(Guards)
    BY <2>2, <2>3
  <2> QED
    BY <2>4 DEF IsFiniteSet, BP!IsFiniteSet
<1> QED
  BY <1>1, <1>2, CatalogAssumption DEF BP!PageId, BP!Frames, Others

\* The module with the proofs speaks of the same pool.
LEMMA SamePool ==
    /\ Pool!Frames = BP!Frames /\ Pool!PageId = BP!PageId /\ Pool!EmptyGuard = BP!EmptyGuard
    /\ \A p : Pool!Copies(p) = BP!Copies(p)
    /\ \A p : Pool!Copies(p)' = BP!Copies(p)'
BY DEF Pool!Frames, BP!Frames, Pool!PageId, BP!PageId, Pool!EmptyGuard, BP!EmptyGuard,
       Pool!Copies, BP!Copies

\* And of the same numbers.
LEMMA SameCardinality ==
    ASSUME NEW S
    PROVE  Pool!Cardinality(S) = BP!Cardinality(S)
BY DEF Pool!Cardinality, BP!Cardinality

\* And of the same replacer.
LEMMA SameReplacer ==
    /\ \A f : Pool!HistorySize(f) = BP!HistorySize(f) /\ Pool!Earliest(f) = BP!Earliest(f)
    /\ \A f : Pool!Tracked(f) <=> BP!Tracked(f)
    /\ \A f : Pool!Forget(f) = BP!Forget(f) /\ Pool!RecordAccess(f) = BP!RecordAccess(f)
    /\ Pool!Evict = BP!Evict
<1>1. \A f : Pool!HistorySize(f) = BP!HistorySize(f) /\ Pool!Earliest(f) = BP!Earliest(f)
  <2>1. ASSUME NEW f
        PROVE  Pool!HistorySize(f) = BP!HistorySize(f)
    BY SameCardinality DEF Pool!HistorySize, BP!HistorySize
  <2>2. ASSUME NEW f
        PROVE  Pool!Earliest(f) = BP!Earliest(f)
    BY DEF Pool!Earliest, BP!Earliest
  <2> QED
    BY <2>1, <2>2
<1>2. \A f : Pool!Tracked(f) <=> BP!Tracked(f)
  BY DEF Pool!Tracked, BP!Tracked
<1>3. ASSUME NEW s, NEW keep
      PROVE  Pool!Pick(s, keep) = BP!Pick(s, keep)
  <2>1. ASSUME NEW i
        PROVE  Pool!Rank(keep, i) = BP!Rank(keep, i)
    BY SameCardinality DEF Pool!Rank, BP!Rank
  <2>2. ASSUME NEW k
        PROVE  (CHOOSE i \in keep : Pool!Rank(keep, i) = k) = (CHOOSE i \in keep : BP!Rank(keep, i) = k)
    BY <2>1
  <2>3. Pool!Cardinality(keep) = BP!Cardinality(keep)
    BY SameCardinality
  <2> DEFINE D == 1 .. BP!Cardinality(keep)
  <2>4. /\ Pool!Pick(s, keep) = [k \in D |-> Pool!Pick(s, keep)[k]]
        /\ \A k \in D : Pool!Pick(s, keep)[k] = s[CHOOSE i \in keep : Pool!Rank(keep, i) = k]
    BY <2>3 DEF Pool!Pick
  <2>5. /\ BP!Pick(s, keep) = [k \in D |-> BP!Pick(s, keep)[k]]
        /\ \A k \in D : BP!Pick(s, keep)[k] = s[CHOOSE i \in keep : BP!Rank(keep, i) = k]
    BY DEF BP!Pick
  <2>6. ASSUME NEW k \in D
        PROVE  Pool!Pick(s, keep)[k] = BP!Pick(s, keep)[k]
    <3>1. Pool!Pick(s, keep)[k] = s[CHOOSE i \in keep : Pool!Rank(keep, i) = k]
      BY <2>4
    <3>2. BP!Pick(s, keep)[k] = s[CHOOSE i \in keep : BP!Rank(keep, i) = k]
      BY <2>5
    <3> QED
      BY <2>2, <3>1, <3>2, Zenon
  <2> HIDE DEF D
  <2> QED
    BY <2>4, <2>5, <2>6
<1>4. \A f : Pool!Forget(f) = BP!Forget(f)
  BY <1>3 DEF Pool!Forget, BP!Forget
<1>5. \A f : Pool!RecordAccess(f) = BP!RecordAccess(f)
  BY <1>1, <1>3 DEF Pool!RecordAccess, BP!RecordAccess, Pool!K, BP!K
<1>6. Pool!Evict = BP!Evict
  <2>1. \A f : Pool!Candidate(f) <=> BP!Candidate(f)
    BY <1>2 DEF Pool!Candidate, BP!Candidate
  <2>2. \A f, h : Pool!Beats(f, h) <=> BP!Beats(f, h)
    BY <1>1 DEF Pool!Beats, BP!Beats, Pool!K, BP!K
  <2> QED
    BY <2>1, <2>2 DEF Pool!Evict, BP!Evict
<1> QED
  BY <1>1, <1>2, <1>4, <1>5, <1>6

\* And of the same calls.
LEMMA SameCalls ==
    ASSUME NEW g, NEW p, NEW f, NEW x
    PROVE  /\ Pool!Init <=> BP!Init
           /\ Pool!FetchHit(g, p) <=> BP!FetchHit(g, p)
           /\ Pool!FetchMiss(g, p, f) <=> BP!FetchMiss(g, p, f)
           /\ Pool!NewPage(g, f) <=> BP!NewPage(g, f)
           /\ Pool!Write(g, x) <=> BP!Write(g, x)
           /\ Pool!Drop(g) <=> BP!Drop(g)
           /\ Pool!FlushAllPages <=> BP!FlushAllPages
           /\ Pool!Restart <=> BP!Restart
<1>1. Pool!Init <=> BP!Init
  BY SamePool DEF Pool!Init, BP!Init, Pool!Invalidated, BP!Invalidated, Pool!Cleared, BP!Cleared
<1>2. Pool!FetchHit(g, p) <=> BP!FetchHit(g, p)
  BY SamePool, SameReplacer DEF Pool!FetchHit, BP!FetchHit, Pool!Guard, BP!Guard
<1>3. Pool!FreeFrame(f) <=> BP!FreeFrame(f)
  BY SamePool, SameReplacer
     DEF Pool!FreeFrame, BP!FreeFrame, Pool!Valid, BP!Valid, Pool!Victim, BP!Victim,
         Pool!NoInvalidFrame, BP!NoInvalidFrame
<1>4. Pool!FlushVictim(f) = BP!FlushVictim(f) /\ Pool!EraseVictim(f) = BP!EraseVictim(f)
  BY SamePool
     DEF Pool!FlushVictim, BP!FlushVictim, Pool!Written, BP!Written, Pool!EraseVictim, BP!EraseVictim
<1>5. (Pool!LoadFrame(f) <=> BP!LoadFrame(f)) /\ (Pool!RemoveFrame(f) <=> BP!RemoveFrame(f))
  BY SameReplacer DEF Pool!LoadFrame, BP!LoadFrame, Pool!RemoveFrame, BP!RemoveFrame
<1>6. Pool!FetchMiss(g, p, f) <=> BP!FetchMiss(g, p, f)
  BY <1>3, <1>4, <1>5, SamePool
     DEF Pool!FetchMiss, BP!FetchMiss, Pool!Readable, BP!Readable, Pool!Loaded, BP!Loaded,
         Pool!Guard, BP!Guard
<1>7. Pool!NewPage(g, f) <=> BP!NewPage(g, f)
  <2>1. Pool!Extended(Pool!FlushVictim(f), page_count) = BP!Extended(BP!FlushVictim(f), page_count)
    BY <1>4, SamePool DEF Pool!Extended, BP!Extended, Pool!Cleared, BP!Cleared
  <2>2. ASSUME NEW d, NEW n
        PROVE  Pool!CountUpdated(d, n) = BP!CountUpdated(d, n)
    BY DEF Pool!CountUpdated, BP!CountUpdated
  <2>3. Pool!Loaded(page_count, Pool!Cleared) = BP!Loaded(page_count, BP!Cleared)
    BY DEF Pool!Loaded, BP!Loaded, Pool!Cleared, BP!Cleared
  <2> QED
    BY <1>3, <1>4, <1>5, <2>1, <2>2, <2>3, SamePool
       DEF Pool!NewPage, BP!NewPage, Pool!Guard, BP!Guard
<1>8. Pool!Write(g, x) <=> BP!Write(g, x)
  BY DEF Pool!Write, BP!Write
<1>9. Pool!Drop(g) <=> BP!Drop(g)
  BY SamePool, SameReplacer
     DEF Pool!Drop, BP!Drop, Pool!Unpinned, BP!Unpinned, Pool!SetEvictable, BP!SetEvictable
<1>10. /\ Pool!FlushedBelow(PoolSize) = BP!FlushedBelow(PoolSize)
       /\ Pool!CleanedBelow(PoolSize) = BP!CleanedBelow(PoolSize)
       /\ Pool!DirtyBelow(PoolSize) = BP!DirtyBelow(PoolSize)
  BY SamePool DEF Pool!FlushedBelow, BP!FlushedBelow, Pool!CleanedBelow, BP!CleanedBelow,
                  Pool!DirtyBelow, BP!DirtyBelow, Pool!Valid, BP!Valid
<1>11. Pool!FlushAllPages <=> BP!FlushAllPages
  BY <1>10 DEF Pool!FlushAllPages, BP!FlushAllPages
<1>12. Pool!Restart <=> BP!Restart
  BY <1>10, SamePool DEF Pool!Restart, BP!Restart, Pool!Reopen, BP!Reopen, Pool!Invalidated,
                         BP!Invalidated, Pool!Cleared, BP!Cleared
<1> QED
  BY <1>1, <1>2, <1>6, <1>7, <1>8, <1>9, <1>11, <1>12

-----------------------------------------------------------------------------
(* What the calls of the pool do to page 0. *)

\* The pool stays whole, no page is given back, and the copies of page 0 are
\* the old ones, but for the count that the disk manager writes there.
PoolKept ==
    /\ BP!PoolParts(Others)'
    /\ page_count' \in Nat /\ page_count <= page_count'
    /\ \A c \in BP!Copies(0)' : \E d \in BP!Copies(0) : c.data = d.data /\ c.count \in {d.count, page_count'}

\* What the invariant of the pool says of the counts and the copies.
LEMMA PoolFields ==
    ASSUME BP!PoolParts(Others)
    PROVE  /\ page_count \in 0 .. MaxPages /\ page_count \in Nat
           /\ \A c \in BP!Copies(0) : c.data \in Image /\ c.count \in Nat
<1>1. page_count \in 0 .. MaxPages
  BY PoolConstants, BP!PartTypes
<1>2. BP!Copies(0) \subseteq BP!Page
  BY PoolConstants, BP!CopiesThere
<1> QED
  BY <1>1, <1>2, CatalogAssumption DEF BP!Page

\* Every call but a write and a restart keeps the pool.
LEMMA CallsKeep ==
    ASSUME BP!PoolParts(Others), page_count >= 1, NEW g \in Guards, NEW p \in Pool!PageId,
           NEW f \in Pool!Frames,
           \/ Pool!FetchHit(g, p) \/ Pool!FetchMiss(g, p, f) \/ Pool!NewPage(g, f)
           \/ Pool!Drop(g) \/ Pool!FlushAllPages
    PROVE  PoolKept
<1>1. p \in BP!PageId /\ f \in BP!Frames /\ 0 \in BP!PageId /\ page_count \in Nat
  BY SamePool, PoolConstants, PoolFields
<1>2. CASE Pool!FetchHit(g, p)
  <2>1. BP!FetchHit(g, p)
    BY <1>2, SameCalls
  <2>2. BP!PoolParts(Others)' /\ BP!Copies(0)' \subseteq BP!Copies(0)
    BY <1>1, <2>1, PoolConstants, BP!FetchHitStep, BP!FetchHitCopies
  <2>3. page_count' = page_count
    BY <1>2 DEF Pool!FetchHit
  <2> QED
    BY <1>1, <2>2, <2>3 DEF PoolKept
<1>3. CASE Pool!FetchMiss(g, p, f)
  <2>1. BP!FetchMiss(g, p, f)
    BY <1>3, SameCalls
  <2>2. BP!PoolParts(Others)' /\ BP!Copies(0)' \subseteq BP!Copies(0)
    BY <1>1, <2>1, PoolConstants, BP!FetchMissStep, BP!FetchMissCopies
  <2>3. page_count' = page_count
    BY <1>3 DEF Pool!FetchMiss
  <2> QED
    BY <1>1, <2>2, <2>3 DEF PoolKept
<1>4. CASE Pool!NewPage(g, f)
  <2>1. BP!NewPage(g, f)
    BY <1>4, SameCalls
  <2>2. BP!PoolParts(Others)'
    BY <1>1, <2>1, PoolConstants, BP!NewPageStep
  <2>3. \A c \in BP!Copies(0)' : \E d \in BP!Copies(0) : c.data = d.data /\ c.count \in {d.count, page_count'}
    BY <1>1, <2>1, PoolConstants, BP!NewPageCopies
  <2>4. page_count' = page_count + 1
    BY <1>4 DEF Pool!NewPage
  <2> QED
    BY <1>1, <2>2, <2>3, <2>4 DEF PoolKept
<1>5. CASE Pool!Drop(g)
  <2>1. BP!Drop(g)
    BY <1>5, SameCalls
  <2>2. BP!PoolParts(Others)' /\ BP!Copies(0)' \subseteq BP!Copies(0)
    BY <1>1, <2>1, PoolConstants, BP!DropStep, BP!DropCopies
  <2>3. page_count' = page_count
    BY <1>5 DEF Pool!Drop
  <2> QED
    BY <1>1, <2>2, <2>3 DEF PoolKept
<1>6. CASE Pool!FlushAllPages
  <2>1. BP!FlushAllPages
    BY <1>6, SameCalls
  <2>2. BP!PoolParts(Others)' /\ BP!Copies(0)' \subseteq BP!Copies(0)
    BY <1>1, <2>1, PoolConstants, BP!FlushAllPagesStep, BP!FlushAllPagesCopies
  <2>3. page_count' = page_count
    BY <1>6 DEF Pool!FlushAllPages
  <2> QED
    BY <1>1, <2>2, <2>3 DEF PoolKept
<1> QED
  BY <1>2, <1>3, <1>4, <1>5, <1>6

\* So does a step without a call.
LEMMA StutterKeeps ==
    ASSUME BP!PoolParts(Others), UNCHANGED poolVars
    PROVE  PoolKept
<1>1. /\ frames' = frames /\ page_table' = page_table /\ accesses' = accesses
      /\ evictable' = evictable /\ curr_size' = curr_size /\ guards' = guards
      /\ disk' = disk /\ page_count' = page_count
  BY DEF poolVars
<1>2. BP!PoolParts(Others)'
  BY <1>1 DEF BP!PoolParts
<1>3. BP!Copies(0)' = BP!Copies(0)
  BY <1>1 DEF BP!Copies
<1> QED
  BY <1>1, <1>2, <1>3, PoolFields DEF PoolKept

\* A guard that a step has put on page 0 shows a copy.
LEMMA GuardShowsCopy ==
    ASSUME BP!PoolParts(Others)', NEW g \in Guards, guards'[g].page = 0
    PROVE  frames'[guards'[g].frame].content \in BP!Copies(0)'
<1>1. guards'[g] # BP!EmptyGuard
  BY PoolConstants, BP!GuardFields
<1>2. BP!TableOK(frames', page_table') /\ BP!GuardsOK(frames', guards')
  BY DEF BP!PoolParts, BP!Structure
<1>3. frames'[guards'[g].frame].content
         \in BP!CopiesOf(frames', page_table', guards', disk', guards'[g].page)
  BY <1>1, <1>2, PoolConstants, BP!GuardShows
<1>4. BP!Copies(0)' = BP!CopiesOf(frames', page_table', guards', disk', 0)
  BY PoolConstants, BP!CopiesNow
<1> QED
  BY <1>3, <1>4

-----------------------------------------------------------------------------
(* The catalog. *)

\* What an image is made of.
LEMMA ImageFields ==
    ASSUME NEW image \in Image
    PROVE  /\ image.next \in TableId /\ image.next \in Nat
           /\ image = [next |-> image.next, entries |-> image.entries]
           /\ \E D \in SUBSET Name : image.entries \in [D -> TableInfo]
           /\ \A t \in DOMAIN image.entries : image.entries[t] \in TableInfo
<1>1. image.next \in TableId /\ image.entries \in UNION {[D -> TableInfo] : D \in SUBSET Name}
      /\ image = [next |-> image.next, entries |-> image.entries]
  BY DEF Image
<1>2. PICK D \in SUBSET Name : image.entries \in [D -> TableInfo]
  BY <1>1
<1>3. \A t \in DOMAIN image.entries : image.entries[t] \in TableInfo
  BY <1>2
<1> QED
  BY <1>1, <1>2, <1>3, CatalogAssumption DEF TableId

\* What a table info is made of.
LEMMA InfoFields ==
    ASSUME NEW info \in TableInfo
    PROVE  /\ info.id \in TableId /\ info.id \in Nat
           /\ info.heap_root \in 1 .. MaxPages - 1 /\ info.index_root \in 1 .. MaxPages - 1
           /\ \A p \in Roots(info) : p \in Nat
BY CatalogAssumption DEF TableInfo, TableId, Roots

\* Entries and a next id make an image.
LEMMA IsImage ==
    ASSUME NEW next \in TableId, NEW D \in SUBSET Name, NEW entries \in [D -> TableInfo]
    PROVE  [next |-> next, entries |-> entries] \in Image
<1>1. entries \in UNION {[E -> TableInfo] : E \in SUBSET Name}
  OBVIOUS
<1> QED
  BY <1>1 DEF Image

\* Roots stay below a page count that grows.
LEMMA OwnedGrows ==
    ASSUME page_count \in Nat, page_count' \in Nat, page_count <= page_count',
           NEW D \in SUBSET Name, NEW entries \in [D -> TableInfo], Owned(entries)
    PROVE  Owned(entries)'
<1>1. ASSUME NEW t \in DOMAIN entries, NEW p \in Roots(entries[t])
      PROVE  p < page_count'
  <2>1. p \in Nat
    BY <1>1, InfoFields
  <2>2. p < page_count
    BY <1>1 DEF Owned
  <2> QED
    BY <2>1, <2>2
<1> QED
  BY <1>1 DEF Owned, Roots

\* The invariant: the pool's, but for page 0, and the catalog's.
Sound == BP!PoolParts(Others) /\ CatalogInvariant

\* What the parts say, read off.
LEMMA SoundTypes ==
    ASSUME Sound
    PROVE  /\ BP!PoolParts(Others) /\ CopiesSound /\ CallSound /\ RootsOwned /\ TypeOK
           /\ acked \in Image /\ acked.next \in Nat
           /\ next_table_id \in TableId /\ next_table_id \in Nat
           /\ \E D \in SUBSET Name : tables \in [D -> TableInfo]
           /\ \A t \in DOMAIN tables : tables[t] \in TableInfo
           /\ DOMAIN tables \subseteq Name
           /\ Numbered([next |-> next_table_id, entries |-> tables])
           /\ page_count \in Nat /\ page_count >= 1 /\ page_count <= MaxPages
           /\ overflowed \in BOOLEAN /\ lowered \in BOOLEAN
           /\ Pool!Copies(0) = BP!Copies(0)
<1>1. /\ BP!PoolParts(Others) /\ CopiesSound /\ CallSound /\ RootsOwned /\ TypeOK
      /\ acked \in Image /\ overflowed \in BOOLEAN /\ lowered \in BOOLEAN
      /\ Numbered([next |-> next_table_id, entries |-> tables])
  BY DEF Sound, CatalogInvariant
<1>2. page_count \in 0 .. MaxPages /\ page_count >= 1
  BY <1>1, PoolFields DEF CopiesSound
<1>3. PICK D \in SUBSET Name : tables \in [D -> TableInfo]
  BY <1>1 DEF TypeOK
<1>4. (\A t \in DOMAIN tables : tables[t] \in TableInfo) /\ DOMAIN tables \subseteq Name
  BY <1>3
<1>5. next_table_id \in TableId
  BY <1>1 DEF TypeOK
<1> QED
  BY <1>1, <1>2, <1>3, <1>4, <1>5, ImageFields, SamePool, CatalogAssumption DEF TableId

\* A call of the pool by the catalog or by others leaves the copies sound.
LEMMA CopiesKept ==
    ASSUME Sound, PoolKept, UNCHANGED history
    PROVE  CopiesSound'
<1>1. /\ acked' = acked /\ overflowed' = overflowed /\ lowered' = lowered
  BY DEF history
<1>2. Pool!Copies(0)' = BP!Copies(0)'
  BY SamePool
<1>3. page_count' \in Nat /\ page_count <= page_count' /\ page_count \in Nat /\ page_count >= 1
  BY SoundTypes DEF PoolKept
<1>4. ASSUME NEW c \in Pool!Copies(0)'
      PROVE  /\ c.count \in 1 .. page_count'
             /\ Numbered(c.data) /\ acked.next <= c.data.next
             /\ ~overflowed => c.data = acked
             /\ ~lowered => Owned(c.data.entries)'
  <2>1. PICK d \in BP!Copies(0) : c.data = d.data /\ c.count \in {d.count, page_count'}
    BY <1>2, <1>4 DEF PoolKept
  <2>2. /\ d.count \in 1 .. page_count
        /\ Numbered(d.data) /\ acked.next <= d.data.next
        /\ ~overflowed => d.data = acked
        /\ ~lowered => Owned(d.data.entries)
    BY <2>1, SoundTypes DEF CopiesSound
  <2>3. d.data \in Image
    BY <2>1, SoundTypes, PoolFields
  <2>4. PICK D \in SUBSET Name : d.data.entries \in [D -> TableInfo]
    BY <2>3, ImageFields
  <2>5. ~lowered => Owned(d.data.entries)'
    BY <1>3, <2>2, <2>4, OwnedGrows
  <2> QED
    BY <1>3, <2>1, <2>2, <2>5
<1>5. Numbered(acked)
  BY SoundTypes DEF CopiesSound
<1> QED
  BY <1>1, <1>3, <1>4, <1>5 DEF CopiesSound, Numbered

\* So do the tables, if they stay as they are.
LEMMA TablesKept ==
    ASSUME Sound, PoolKept, UNCHANGED <<tables, next_table_id, history>>
    PROVE  /\ RootsOwned' /\ acked' \in Image
           /\ overflowed' \in BOOLEAN /\ lowered' \in BOOLEAN
           /\ Numbered([next |-> next_table_id, entries |-> tables])'
           /\ TypeOK' <=> call'.at \in {"idle", "heap", "index", "save", "write", "return", "load"}
<1>1. /\ tables' = tables /\ next_table_id' = next_table_id
      /\ acked' = acked /\ overflowed' = overflowed /\ lowered' = lowered
  BY DEF history
<1>2. PICK D \in SUBSET Name : tables \in [D -> TableInfo]
  BY SoundTypes
<1>3. ~lowered => Owned(tables)'
  <2>1. page_count' \in Nat /\ page_count <= page_count' /\ page_count \in Nat
    BY SoundTypes DEF PoolKept
  <2>2. ~lowered => Owned(tables)
    BY SoundTypes DEF RootsOwned
  <2> QED
    BY <1>1, <1>2, <2>1, <2>2, OwnedGrows DEF Owned
<1>4. RootsOwned'
  BY <1>1, <1>3 DEF RootsOwned
<1> QED
  BY <1>1, <1>4, SoundTypes DEF Numbered, TypeOK

-----------------------------------------------------------------------------
(* Every step keeps the invariant. *)

\* A step that leaves the tables and what was saved alone.
LEMMA QuietStep ==
    ASSUME Sound, PoolKept, UNCHANGED <<tables, next_table_id, history>>, CallSound',
           call'.at \in {"idle", "heap", "index", "save", "write", "return", "load"}
    PROVE  Sound'
<1>1. CopiesSound' /\ BP!PoolParts(Others)'
  BY CopiesKept DEF PoolKept
<1> QED
  BY <1>1, TablesKept DEF Sound, CatalogInvariant

\* What the call in progress has to satisfy where nothing is said of it.
LEMMA PlainCall ==
    ASSUME Sound, UNCHANGED <<tables, next_table_id, history>>,
           call.at # "load", call'.at \in {"idle", "save", "return"}
    PROVE  CallSound'
<1>1. tables' = tables /\ next_table_id' = next_table_id /\ acked' = acked
  BY DEF history
<1>2. acked.next <= next_table_id
  BY SoundTypes DEF CallSound
<1> QED
  BY <1>1, <1>2 DEF CallSound

\* The constants of the pool, for its calls.
LEMMA PoolSets ==
    /\ 0 \in Pool!Frames /\ 0 \in Pool!PageId
    /\ {"heap_guard", "index_guard", "guard"} \cup Reader = Guards
    /\ \A p \in 1 .. MaxPages - 1 : p \in Pool!PageId
BY CatalogAssumption DEF Pool!Frames, Pool!PageId, Guards

\* A fetch keeps the pool and gives a guard on the page.
LEMMA FetchKeeps ==
    ASSUME Sound, NEW g \in Guards, NEW p \in Pool!PageId, Fetch(g, p)
    PROVE  PoolKept /\ guards'[g].page = p
<1>1. BP!PoolParts(Others) /\ page_count >= 1
  BY SoundTypes
<1>2. guards \in [Guards -> BP!PageGuard]
  BY <1>1, PoolConstants, BP!PartTypes
<1>3. CASE Pool!FetchHit(g, p)
  <2>1. guards'[g].page = p
    BY <1>2, <1>3 DEF Pool!FetchHit, Pool!Guard
  <2> QED
    BY <1>1, <1>3, <2>1, PoolSets, CallsKeep
<1>4. ASSUME NEW f \in Pool!Frames, Pool!FetchMiss(g, p, f)
      PROVE  PoolKept /\ guards'[g].page = p
  <2>1. guards'[g].page = p
    BY <1>2, <1>4 DEF Pool!FetchMiss, Pool!Guard
  <2> QED
    BY <1>1, <1>4, <2>1, CallsKeep
<1> QED
  BY <1>3, <1>4 DEF Fetch

\* A new page, the pool kept.
LEMMA NewPageKeeps ==
    ASSUME Sound, NEW g \in Guards, NEW f \in Pool!Frames, Pool!NewPage(g, f)
    PROVE  PoolKept /\ page_count < MaxPages /\ page_count' = page_count + 1
BY SoundTypes, PoolSets, CallsKeep DEF Pool!NewPage

\* createTable begins.
LEMMA CreateTableStep ==
    ASSUME Sound, NEW n \in Name, CreateTable(n)
    PROVE  Sound'
<1>1. /\ call = Idle /\ n \notin DOMAIN tables /\ next_table_id < MaxTables
      /\ call' = [Idle EXCEPT !.at = "heap", !.name = n]
      /\ UNCHANGED poolVars /\ UNCHANGED <<tables, next_table_id, history>>
  BY DEF CreateTable
<1>2. call'.at = "heap" /\ call'.name = n /\ call.at # "load"
  BY <1>1 DEF Idle
<1>3. tables' = tables /\ next_table_id' = next_table_id /\ acked' = acked
  BY <1>1 DEF history
<1>4. acked.next <= next_table_id
  BY <1>2, SoundTypes DEF CallSound
<1>5. CallSound'
  BY <1>1, <1>2, <1>3, <1>4 DEF CallSound
<1>6. PoolKept
  BY <1>1, SoundTypes, StutterKeeps
<1> QED
  BY <1>1, <1>2, <1>5, <1>6, QuietStep

\* The page of the heap is one that no table has.
LEMMA NewHeapRootStep ==
    ASSUME Sound, NewHeapRoot
    PROVE  Sound'
<1>1. call.at = "heap" /\ UNCHANGED <<tables, next_table_id, history>>
  BY DEF NewHeapRoot
<1>2. CASE PoolFull /\ call' = Idle /\ UNCHANGED poolVars
  <2>1. call'.at = "idle"
    BY <1>2 DEF Idle
  <2>2. PoolKept
    BY <1>2, SoundTypes, StutterKeeps
  <2>3. CallSound'
    BY <1>1, <2>1, PlainCall
  <2> QED
    BY <1>1, <2>1, <2>2, <2>3, QuietStep
<1>3. ASSUME NEW f \in Pool!Frames, Pool!NewPage("heap_guard", f),
             call' = [call EXCEPT !.at = "index", !.heap_root = page_count]
      PROVE  Sound'
  <2>1. PoolKept /\ page_count' = page_count + 1
    BY <1>3, PoolSets, NewPageKeeps
  <2>2. tables' = tables /\ next_table_id' = next_table_id /\ acked' = acked /\ lowered' = lowered
    BY <1>1 DEF history
  <2>3. /\ acked.next <= next_table_id
        /\ call.name \in Name \ DOMAIN tables /\ next_table_id < MaxTables
    BY <1>1, SoundTypes DEF CallSound
  <2>4. call'.at = "index" /\ call'.name = call.name /\ call'.heap_root = page_count
    BY <1>3
  <2>5. page_count \in 1 .. page_count' - 1
    BY <2>1, SoundTypes
  <2>6. ASSUME ~lowered, NEW t \in DOMAIN tables
        PROVE  page_count \notin Roots(tables[t])
    <3>1. \A p \in Roots(tables[t]) : p < page_count
      BY <2>6, SoundTypes DEF RootsOwned, Owned
    <3> QED
      BY <3>1, SoundTypes
  <2>7. CallSound'
    BY <2>2, <2>3, <2>4, <2>5, <2>6 DEF CallSound
  <2> QED
    BY <1>1, <2>1, <2>4, <2>7, QuietStep
<1> QED
  BY <1>2, <1>3 DEF NewHeapRoot

\* The new table has an id and two roots of its own.
LEMMA NewIndexRootStep ==
    ASSUME Sound, NewIndexRoot
    PROVE  Sound'
<1>1. call.at = "index" /\ UNCHANGED history
  BY DEF NewIndexRoot
<1>2. CASE PoolFull /\ call' = [Idle EXCEPT !.at = "return"] /\ UNCHANGED <<poolVars, tables, next_table_id>>
  <2>1. call'.at = "return"
    BY <1>2 DEF Idle
  <2>2. PoolKept
    BY <1>2, SoundTypes, StutterKeeps
  <2>3. CallSound'
    BY <1>1, <1>2, <2>1, PlainCall
  <2> QED
    BY <1>1, <1>2, <2>1, <2>2, <2>3, QuietStep
<1>3. ASSUME NEW f \in Pool!Frames, Pool!NewPage("index_guard", f),
             tables' = [n \in DOMAIN tables \cup {call.name} |-> IF n = call.name THEN NewInfo ELSE tables[n]],
             next_table_id' = next_table_id + 1,
             call' = [Idle EXCEPT !.at = "save"]
      PROVE  Sound'
  <2>1. PoolKept /\ page_count < MaxPages /\ page_count' = page_count + 1
    BY <1>3, PoolSets, NewPageKeeps
  <2>2. CopiesSound' /\ BP!PoolParts(Others)'
    BY <1>1, <2>1, CopiesKept DEF PoolKept
  <2> PICK name \in Name : name = call.name /\ name \notin DOMAIN tables
    BY <1>1, SoundTypes DEF CallSound
  <2>3. /\ call.heap_root \in 1 .. page_count - 1 /\ next_table_id < MaxTables
        /\ ~lowered => \A t \in DOMAIN tables : call.heap_root \notin Roots(tables[t])
        /\ acked.next <= next_table_id
    BY <1>1, SoundTypes DEF CallSound
  <2>4. /\ NewInfo \in TableInfo
        /\ NewInfo.id = next_table_id
        /\ NewInfo.heap_root = call.heap_root /\ NewInfo.index_root = page_count
    <3>1. call.heap_root \in 1 .. MaxPages - 1 /\ page_count \in 1 .. MaxPages - 1
      BY <2>1, <2>3, SoundTypes, CatalogAssumption
    <3> QED
      BY <3>1, SoundTypes DEF NewInfo, TableInfo
  <2>5. /\ DOMAIN tables' = DOMAIN tables \cup {name}
        /\ tables'[name] = NewInfo
        /\ \A t \in DOMAIN tables : tables'[t] = tables[t]
    BY <1>3
  <2>6. \E D \in SUBSET Name : tables' \in [D -> TableInfo]
    <3>1. tables' \in [DOMAIN tables \cup {name} -> TableInfo]
      BY <1>3, <2>4, SoundTypes
    <3>2. DOMAIN tables \cup {name} \in SUBSET Name
      BY SoundTypes
    <3> QED
      BY <3>1, <3>2
  <2>7. next_table_id' \in TableId
    BY <1>3, <2>3, SoundTypes, CatalogAssumption DEF TableId
  <2>8. Numbered([next |-> next_table_id, entries |-> tables])'
    <3>1. \A t \in DOMAIN tables : tables[t].id < next_table_id /\ tables[t].id \in Nat
      BY SoundTypes, InfoFields DEF Numbered
    <3>2. \A t, u \in DOMAIN tables : t # u => tables[t].id # tables[u].id
      BY SoundTypes DEF Numbered
    <3>3. \A t \in DOMAIN tables' : tables'[t].id < next_table_id'
      BY <1>3, <2>4, <2>5, <3>1, SoundTypes
    <3>4. \A t, u \in DOMAIN tables' : t # u => tables'[t].id # tables'[u].id
      BY <2>4, <2>5, <3>1, <3>2, SoundTypes
    <3> QED
      BY <3>3, <3>4 DEF Numbered
  <2>9. ASSUME ~lowered
        PROVE  Owned(tables)'
    <3>1. ASSUME NEW t \in DOMAIN tables, NEW p \in Roots(tables[t])
          PROVE  p \in Nat /\ p < page_count /\ p # call.heap_root
      BY <2>3, <2>9, <3>1, SoundTypes, InfoFields DEF RootsOwned, Owned
    <3>2. Roots(NewInfo) = {call.heap_root, page_count} /\ call.heap_root < page_count
          /\ call.heap_root \in Nat
      BY <2>3, <2>4, SoundTypes DEF Roots
    <3>3. \A t \in DOMAIN tables : Roots(tables[t]) \cap Roots(NewInfo) = {}
      BY <3>1, <3>2, SoundTypes
    <3>4. \A t, u \in DOMAIN tables : t # u => Roots(tables[t]) \cap Roots(tables[u]) = {}
      BY <2>9, SoundTypes DEF RootsOwned, Owned
    <3>5. \A t, u \in DOMAIN tables' : t # u => Roots(tables'[t]) \cap Roots(tables'[u]) = {}
      BY <2>5, <3>3, <3>4
    <3>6. \A t \in DOMAIN tables : tables[t].heap_root # tables[t].index_root
      BY <2>9, SoundTypes DEF RootsOwned, Owned
    <3>7. ASSUME NEW t \in DOMAIN tables'
          PROVE  /\ tables'[t].heap_root # tables'[t].index_root
                 /\ \A p \in Roots(tables'[t]) : p < page_count'
      <4>1. CASE t = name
        BY <2>1, <2>4, <2>5, <3>2, <4>1, SoundTypes
      <4>2. CASE t \in DOMAIN tables
        BY <2>1, <2>5, <3>1, <3>6, <4>2, SoundTypes
      <4> QED
        BY <2>5, <4>1, <4>2
    <3> QED
      BY <3>5, <3>7 DEF Owned, Roots
  <2>10. /\ acked' = acked /\ overflowed' = overflowed /\ lowered' = lowered
         /\ call'.at = "save"
    BY <1>1, <1>3 DEF history, Idle
  <2>11. CallSound'
    BY <1>3, <2>3, <2>10, SoundTypes DEF CallSound
  <2> QED
    BY <2>2, <2>6, <2>7, <2>8, <2>9, <2>10, <2>11, SoundTypes
       DEF Sound, CatalogInvariant, TypeOK, RootsOwned
<1> QED
  BY <1>2, <1>3 DEF NewIndexRoot

\* Some entries of a sound catalog are one.
LEMMA FewerEntries ==
    ASSUME NEW D \in SUBSET Name, NEW entries \in [D -> TableInfo], NEW names \in SUBSET D, NEW next,
           NEW fewer, fewer = [n \in names |-> entries[n]]
    PROVE  /\ names \in SUBSET Name /\ fewer \in [names -> TableInfo]
           /\ Numbered([next |-> next, entries |-> entries]) => Numbered([next |-> next, entries |-> fewer])
           /\ Owned(entries) => Owned(fewer)
<1>1. /\ DOMAIN fewer = names /\ DOMAIN entries = D
      /\ \A n \in names : fewer[n] = entries[n]
  OBVIOUS
<1>2. names \in SUBSET Name /\ fewer \in [names -> TableInfo]
  OBVIOUS
<1>3. Numbered([next |-> next, entries |-> entries]) => Numbered([next |-> next, entries |-> fewer])
  BY <1>1 DEF Numbered
<1>4. Owned(entries) => Owned(fewer)
  BY <1>1 DEF Owned
<1> QED
  BY <1>2, <1>3, <1>4

\* dropTable takes a table out.
LEMMA DropTableStep ==
    ASSUME Sound, NEW n \in Name, DropTable(n)
    PROVE  Sound'
<1>1. /\ call = Idle
      /\ tables' = [m \in DOMAIN tables \ {n} |-> tables[m]]
      /\ call' = [Idle EXCEPT !.at = "save"]
      /\ UNCHANGED poolVars /\ next_table_id' = next_table_id /\ UNCHANGED history
  BY DEF DropTable
<1>2. PoolKept /\ page_count' = page_count
  BY <1>1, SoundTypes, StutterKeeps DEF poolVars
<1>3. CopiesSound' /\ BP!PoolParts(Others)'
  BY <1>1, <1>2, CopiesKept DEF PoolKept
<1>4. PICK D \in SUBSET Name : tables \in [D -> TableInfo]
  BY SoundTypes
<1> DEFINE names == DOMAIN tables \ {n}
<1>5. names \in SUBSET D /\ tables' = [m \in names |-> tables[m]]
  BY <1>1, <1>4
<1> HIDE DEF names
<1>6. /\ names \in SUBSET Name /\ tables' \in [names -> TableInfo]
      /\ Numbered([next |-> next_table_id, entries |-> tables']) 
      /\ Owned(tables) => Owned(tables')
  BY <1>4, <1>5, SoundTypes, FewerEntries
<1>7. Numbered([next |-> next_table_id, entries |-> tables])'
  BY <1>1, <1>6 DEF Numbered
<1>8. ~lowered => Owned(tables)'
  BY <1>2, <1>6, SoundTypes DEF RootsOwned, Owned
<1>9. /\ acked' = acked /\ overflowed' = overflowed /\ lowered' = lowered
      /\ call'.at = "save" /\ call.at # "load"
  BY <1>1 DEF history, Idle
<1>10. CallSound'
  BY <1>1, <1>9, SoundTypes DEF CallSound
<1> QED
  BY <1>1, <1>3, <1>6, <1>7, <1>8, <1>9, <1>10, SoundTypes
     DEF Sound, CatalogInvariant, TypeOK, RootsOwned

\* saveToDisk takes a guard on page 0.
LEMMA FetchCatalogPageStep ==
    ASSUME Sound, FetchCatalogPage
    PROVE  Sound'
<1>1. call.at = "save" /\ UNCHANGED <<tables, next_table_id, history>>
  BY DEF FetchCatalogPage
<1>2. CASE Fetch("guard", 0) /\ call' = [Idle EXCEPT !.at = "write"]
  <2>1. PoolKept /\ guards'["guard"].page = 0
    BY <1>2, PoolSets, FetchKeeps
  <2>2. call'.at = "write"
    BY <1>2 DEF Idle
  <2>3. tables' = tables /\ next_table_id' = next_table_id /\ acked' = acked
    BY <1>1 DEF history
  <2>4. acked.next <= next_table_id
    BY <1>1, SoundTypes DEF CallSound
  <2>5. CallSound'
    BY <2>1, <2>2, <2>3, <2>4 DEF CallSound
  <2> QED
    BY <1>1, <2>1, <2>2, <2>5, QuietStep
<1>3. CASE FetchFails(0) /\ call' = [Idle EXCEPT !.at = "return"] /\ UNCHANGED poolVars
  <2>1. call'.at = "return"
    BY <1>3 DEF Idle
  <2>2. PoolKept
    BY <1>3, SoundTypes, StutterKeeps
  <2>3. CallSound'
    BY <1>1, <2>1, PlainCall
  <2> QED
    BY <1>1, <2>1, <2>2, <2>3, QuietStep
<1> QED
  BY <1>2, <1>3 DEF FetchCatalogPage

\* What saveToDisk writes, whole or in part, is a catalog to start from.
LEMMA SerializedSound ==
    ASSUME Sound, NEW names \in SUBSET DOMAIN tables
    PROVE  /\ Serialized(names) \in Image
           /\ Serialized(names).next = next_table_id
           /\ Numbered(Serialized(names))
           /\ ~lowered => Owned(Serialized(names).entries)
<1>1. PICK D \in SUBSET Name : tables \in [D -> TableInfo]
  BY SoundTypes
<1> DEFINE fewer == [n \in names |-> tables[n]]
<1>2. names \in SUBSET D
  BY <1>1
<1> HIDE DEF fewer
<1>3. /\ names \in SUBSET Name /\ fewer \in [names -> TableInfo]
      /\ Numbered([next |-> next_table_id, entries |-> fewer])
      /\ Owned(tables) => Owned(fewer)
  BY <1>1, <1>2, SoundTypes, FewerEntries DEF fewer
<1>4. Serialized(names) = [next |-> next_table_id, entries |-> fewer]
  BY DEF Serialized, fewer
<1>5. [next |-> next_table_id, entries |-> fewer] \in Image
  BY <1>3, SoundTypes, IsImage
<1> QED
  BY <1>3, <1>4, <1>5, SoundTypes DEF RootsOwned

\* A save leaves one copy, the catalog.
LEMMA SaveStep ==
    ASSUME Sound, Save
    PROVE  Sound'
<1> PICK x : x = Serialized(DOMAIN tables)
  OBVIOUS
<1>1. /\ call.at = "write" /\ Pool!Write("guard", x)
      /\ acked' = x /\ overflowed' = FALSE /\ lowered' = lowered
      /\ call' = [Idle EXCEPT !.at = "return"]
      /\ tables' = tables /\ next_table_id' = next_table_id
  BY DEF Save
<1>2. /\ x \in Image /\ x.next = next_table_id /\ Numbered(x)
      /\ ~lowered => Owned(x.entries)
  BY SerializedSound
<1>3. "guard" \in Guards /\ guards["guard"].page = 0
  BY <1>1, SoundTypes, PoolSets DEF CallSound
<1>4. BP!Write("guard", x)
  BY <1>1, SameCalls
<1>5. BP!PoolParts(Others)'
  BY <1>2, <1>3, <1>4, SoundTypes, PoolConstants, BP!WriteStep
<1>6. page_count' = page_count
  BY <1>1 DEF Pool!Write
<1>7. ASSUME NEW c \in BP!Copies(0)'
      PROVE  c.data = x /\ c.count \in 1 .. page_count
  <2>1. 0 \in BP!PageId /\ 0 = guards["guard"].page
    BY <1>3, PoolConstants
  <2>2. c.data = x /\ \E d \in BP!Copies(0) : c.count = d.count
    BY <1>2, <1>3, <1>4, <1>7, <2>1, SoundTypes, PoolConstants, BP!WriteCopies
  <2> QED
    BY <2>2, SoundTypes DEF CopiesSound
<1>8. ~lowered => Owned(x.entries)'
  BY <1>2, <1>6 DEF Owned
<1>9. Pool!Copies(0)' = BP!Copies(0)'
  BY SamePool
<1>10. CopiesSound'
  <2>1. x.next <= x.next
    BY <1>2, SoundTypes
  <2>2. \A c \in Pool!Copies(0)' :
           /\ c.count \in 1 .. page_count'
           /\ Numbered(c.data) /\ acked'.next <= c.data.next
           /\ c.data = acked'
           /\ ~lowered' => Owned(c.data.entries)'
    BY <1>1, <1>2, <1>6, <1>7, <1>8, <1>9, <2>1
  <2>3. page_count' >= 1 /\ Numbered(acked')
    BY <1>1, <1>2, <1>6, SoundTypes
  <2> QED
    BY <2>2, <2>3 DEF CopiesSound, Numbered
<1>11. call'.at = "return"
  BY <1>1 DEF Idle
<1>12. CallSound'
  BY <1>1, <1>2, <1>11, SoundTypes DEF CallSound
<1>13. RootsOwned' /\ Numbered([next |-> next_table_id, entries |-> tables])' /\ TypeOK'
  BY <1>1, <1>6, <1>11, SoundTypes DEF RootsOwned, Owned, Numbered, TypeOK
<1> QED
  BY <1>1, <1>2, <1>5, <1>10, <1>12, <1>13, SoundTypes DEF Sound, CatalogInvariant

\* A save that overflows leaves the old copies and an incomplete one.
LEMMA SaveOverflowsStep ==
    ASSUME Sound, SaveOverflows
    PROVE  Sound'
<1>1. PICK names \in SUBSET DOMAIN tables :
         frames' = [frames EXCEPT ![guards["guard"].frame].content.data = Serialized(names)]
  BY DEF SaveOverflows
<1> PICK x : x = Serialized(names)
  OBVIOUS
<1>2. /\ call.at = "write"
      /\ overflowed' = TRUE /\ lowered' = lowered /\ acked' = acked
      /\ call' = [Idle EXCEPT !.at = "return"]
      /\ tables' = tables /\ next_table_id' = next_table_id
      /\ UNCHANGED <<page_table, accesses, evictable, curr_size, guards, disk, page_count>>
  BY DEF SaveOverflows
<1>3. /\ x \in Image /\ x.next = next_table_id /\ Numbered(x)
      /\ ~lowered => Owned(x.entries)
  BY SerializedSound
<1>4. frames' = [frames EXCEPT ![guards["guard"].frame].content.data = x]
  BY <1>1
<1>5. "guard" \in Guards /\ guards["guard"].page = 0 /\ acked.next <= next_table_id
  BY <1>2, SoundTypes, PoolSets DEF CallSound
<1>6. /\ BP!PoolParts(Others)'
      /\ \A c \in BP!Copies(0)' :
            c \in BP!Copies(0) \/ (c.data = x /\ \E d \in BP!Copies(0) : c.count = d.count)
  <2>1. 0 \in BP!PageId \ Others /\ 0 = guards["guard"].page
    BY <1>5, PoolConstants
  <2>2. BP!WriteUnmarked("guard", x)
    BY <1>2, <1>4 DEF BP!WriteUnmarked
  <2>3. BP!PoolParts(Others)
    BY SoundTypes
  <2> QED
    BY <1>3, <1>5, <2>1, <2>2, <2>3, PoolConstants, BP!UnmarkedWriteStep
<1>7. page_count' = page_count
  BY <1>2
<1>8. ASSUME NEW c \in Pool!Copies(0)'
      PROVE  /\ c.count \in 1 .. page_count
             /\ Numbered(c.data) /\ acked.next <= c.data.next
             /\ ~lowered => Owned(c.data.entries)
  <2>1. c \in BP!Copies(0) \/ (c.data = x /\ \E d \in BP!Copies(0) : c.count = d.count)
    BY <1>6, <1>8, SamePool
  <2>2. \A d \in BP!Copies(0) :
           /\ d.count \in 1 .. page_count
           /\ Numbered(d.data) /\ acked.next <= d.data.next
           /\ ~lowered => Owned(d.data.entries)
    BY SoundTypes DEF CopiesSound
  <2> QED
    BY <1>3, <1>5, <2>1, <2>2
<1>9. CopiesSound'
  <2>1. page_count >= 1 /\ Numbered(acked)
    BY SoundTypes DEF CopiesSound
  <2> QED
    BY <1>2, <1>7, <1>8, <2>1 DEF CopiesSound, Numbered, Owned
<1>10. call'.at = "return"
  BY <1>2 DEF Idle
<1>11. CallSound'
  BY <1>2, <1>5, <1>10 DEF CallSound
<1>12. RootsOwned' /\ Numbered([next |-> next_table_id, entries |-> tables])' /\ TypeOK'
  BY <1>2, <1>7, <1>10, SoundTypes DEF RootsOwned, Owned, Numbered, TypeOK
<1> QED
  BY <1>2, <1>6, <1>9, <1>11, <1>12, SoundTypes DEF Sound, CatalogInvariant

\* The end of a call drops its guards.
LEMMA ReturnStep ==
    ASSUME Sound, Return
    PROVE  Sound'
<1>1. call.at = "return" /\ UNCHANGED <<tables, next_table_id, history>>
  BY DEF Return
<1>2. CASE call' = Idle /\ UNCHANGED poolVars
  <2>1. call'.at = "idle"
    BY <1>2 DEF Idle
  <2>2. PoolKept
    BY <1>2, SoundTypes, StutterKeeps
  <2>3. CallSound'
    BY <1>1, <2>1, PlainCall
  <2> QED
    BY <1>1, <2>1, <2>2, <2>3, QuietStep
<1>3. ASSUME NEW g \in Guards, Pool!Drop(g), call' = call
      PROVE  Sound'
  <2>1. PoolKept
    BY <1>3, SoundTypes, PoolSets, CallsKeep
  <2>2. CallSound'
    BY <1>1, <1>3, PlainCall
  <2> QED
    BY <1>1, <1>3, <2>1, <2>2, QuietStep
<1>4. \/ call' = Idle /\ UNCHANGED poolVars
      \/ \E g \in {"guard", "index_guard", "heap_guard"} : Pool!Drop(g) /\ call' = call
  BY Zenon DEF Return
<1> QED
  BY <1>2, <1>3, <1>4, PoolSets

\* After a restart page 0 has one of its copies.
LEMMA RestartStep ==
    ASSUME Sound, Restart
    PROVE  Sound'
<1>1. /\ Pool!Restart
      /\ tables' = NoTables /\ next_table_id' = 0
      /\ call' = [Idle EXCEPT !.at = "load"]
      /\ lowered' = (lowered \/ page_count' < page_count)
      /\ acked' = acked /\ overflowed' = overflowed
  BY DEF Restart
<1>2. BP!Restart
  BY <1>1, SameCalls
<1>3. /\ BP!PoolParts(Others)'
      /\ BP!Copies(0)' \subseteq BP!Copies(0)
      /\ \A c \in BP!Copies(0)' : c.count = page_count'
      /\ BP!Copies(0)' # {}
  BY <1>2, SoundTypes, PoolConstants, BP!RestartStep, BP!RestartCopies
<1>4. \A c \in BP!Copies(0)' :
         /\ c.count \in 1 .. page_count
         /\ Numbered(c.data) /\ acked.next <= c.data.next
         /\ ~overflowed => c.data = acked
         /\ ~lowered => Owned(c.data.entries)
  BY <1>3, SoundTypes DEF CopiesSound
<1>5. page_count' \in 1 .. page_count
  BY <1>3, <1>4
<1>6. ~lowered' => ~lowered /\ page_count' = page_count
  <2>1. ~lowered' => ~lowered /\ ~(page_count' < page_count)
    BY <1>1, Zenon
  <2>2. ~(page_count' < page_count) => page_count' = page_count
    BY <1>5, SoundTypes
  <2> QED
    BY <2>1, <2>2
<1>7. CopiesSound'
  <2>1. ASSUME NEW c \in Pool!Copies(0)'
        PROVE  /\ c.count \in 1 .. page_count'
               /\ Numbered(c.data) /\ acked'.next <= c.data.next
               /\ ~overflowed' => c.data = acked'
               /\ ~lowered' => Owned(c.data.entries)'
    <3>1. c \in BP!Copies(0)'
      BY <2>1, SamePool
    <3>2. ~lowered' => Owned(c.data.entries)'
      BY <1>4, <1>6, <3>1 DEF Owned
    <3> QED
      BY <1>1, <1>3, <1>4, <1>5, <3>1, <3>2
  <2>2. page_count' >= 1 /\ Numbered(acked)
    BY <1>5, SoundTypes DEF CopiesSound
  <2> QED
    BY <1>1, <2>1, <2>2 DEF CopiesSound, Numbered
<1>8. DOMAIN NoTables = {} /\ NoTables \in [{} -> TableInfo] /\ {} \in SUBSET Name /\ 0 \in TableId
  BY CatalogAssumption DEF NoTables, TableId
<1>9. call'.at = "load"
  BY <1>1 DEF Idle
<1>10. CallSound' /\ TypeOK'
  BY <1>1, <1>8, <1>9 DEF CallSound, TypeOK
<1>11. RootsOwned' /\ Numbered([next |-> next_table_id, entries |-> tables])'
  BY <1>1, <1>8 DEF RootsOwned, Owned, Numbered
<1>12. lowered' \in BOOLEAN
  BY <1>1, SoundTypes
<1> QED
  BY <1>1, <1>3, <1>7, <1>10, <1>11, <1>12, SoundTypes DEF Sound, CatalogInvariant

\* What loadFromDisk reads is a copy of page 0.
LEMMA LoadReads ==
    ASSUME Sound, LoadFromDisk
    PROVE  /\ PoolKept /\ CopiesSound'
           /\ \E c \in BP!Copies(0)' :
                 c.data \in Image /\ tables' = c.data.entries /\ next_table_id' = c.data.next
<1>1. /\ Fetch("guard", 0) /\ UNCHANGED history
      /\ tables' = frames'[guards'["guard"].frame].content.data.entries
      /\ next_table_id' = frames'[guards'["guard"].frame].content.data.next
  BY DEF LoadFromDisk, Loaded
<1>2. PoolKept /\ guards'["guard"].page = 0
  BY <1>1, PoolSets, FetchKeeps
<1>3. CopiesSound'
  BY <1>1, <1>2, CopiesKept
<1>4. PICK c \in BP!Copies(0)' : c = frames'[guards'["guard"].frame].content
  BY <1>2, PoolSets, GuardShowsCopy DEF PoolKept
<1>5. c.data \in Image
  BY <1>2, SoundTypes, PoolFields DEF PoolKept
<1> QED
  BY <1>1, <1>2, <1>3, <1>4, <1>5

\* loadFromDisk.
LEMMA LoadFromDiskStep ==
    ASSUME Sound, LoadFromDisk
    PROVE  Sound'
<1>1. call' = [Idle EXCEPT !.at = "return"] /\ UNCHANGED history
  BY DEF LoadFromDisk
<1>2. PoolKept /\ CopiesSound'
  BY LoadReads
<1>3. PICK c \in BP!Copies(0)' :
         c.data \in Image /\ tables' = c.data.entries /\ next_table_id' = c.data.next
  BY LoadReads
<1>4. /\ acked' = acked /\ overflowed' = overflowed /\ lowered' = lowered /\ call'.at = "return"
  BY <1>1 DEF history, Idle
<1>5. /\ Numbered(c.data) /\ acked'.next <= c.data.next
      /\ ~lowered' => Owned(c.data.entries)'
  BY <1>2, SamePool DEF CopiesSound, Numbered
<1>6. TypeOK'
  BY <1>3, <1>4, ImageFields DEF TypeOK
<1>7. RootsOwned' /\ Numbered([next |-> next_table_id, entries |-> tables])' /\ CallSound'
  BY <1>3, <1>4, <1>5 DEF RootsOwned, Owned, Numbered, CallSound
<1> QED
  BY <1>2, <1>4, <1>6, <1>7, SoundTypes DEF Sound, CatalogInvariant, PoolKept

\* A step of another user of the pool.
LEMMA OtherStep ==
    ASSUME Sound, PoolKept, call = Idle, UNCHANGED <<tables, next_table_id, call, history>>
    PROVE  Sound'
<1>1. call.at = "idle" /\ call' = call
  BY DEF Idle
<1>2. CallSound'
  BY <1>1, PlainCall
<1> QED
  BY <1>1, <1>2, QuietStep

\* The other users of the pool.
LEMMA ReaderStep ==
    ASSUME Sound, NEW g \in Reader,
           Allocate(g) \/ Release(g) \/ \E n \in Name : Read(g, n)
    PROVE  Sound'
<1>1. g \in Guards
  BY PoolSets
<1>2. CASE Allocate(g)
  <2>1. PoolKept
    BY <1>1, <1>2, NewPageKeeps DEF Allocate
  <2> QED
    BY <1>2, <2>1, OtherStep DEF Allocate
<1>3. CASE Release(g)
  <2>1. PoolKept
    BY <1>1, <1>3, SoundTypes, PoolSets, CallsKeep DEF Release
  <2> QED
    BY <1>3, <2>1, OtherStep DEF Release
<1>4. ASSUME NEW n \in Name, Read(g, n)
      PROVE  Sound'
  <2>1. tables[n].index_root \in Pool!PageId
    BY <1>4, SoundTypes, InfoFields, PoolSets DEF Read
  <2>2. PoolKept
    BY <1>1, <1>4, <2>1, FetchKeeps DEF Read
  <2> QED
    BY <1>4, <2>2, OtherStep DEF Read
<1> QED
  BY <1>2, <1>3, <1>4

\* Pages are flushed.
LEMMA FlushStep ==
    ASSUME Sound, Flush
    PROVE  Sound'
<1>1. PoolKept
  BY SoundTypes, PoolSets, CallsKeep DEF Flush
<1> QED
  BY <1>1, OtherStep DEF Flush

\* The invariant holds at the start.
LEMMA SoundInit == Init => Sound
<1> SUFFICES ASSUME Init
             PROVE  Sound
  OBVIOUS
<1>1. /\ Pool!Init /\ tables = NoTables /\ next_table_id = 0
      /\ call = [Idle EXCEPT !.at = "load"]
      /\ acked = EmptyImage /\ overflowed = FALSE /\ lowered = FALSE
  BY DEF Init
<1>2. BP!Init
  BY <1>1, SameCalls
<1>3. BP!PoolParts(Others)
  <2>1. BP!PoolParts(BP!PageId)
    BY <1>2, PoolConstants, BP!PoolInit
  <2> QED
    BY <2>1, PoolConstants, BP!FewerMarked
<1>4. DOMAIN NoTables = {} /\ NoTables \in [{} -> TableInfo] /\ {} \in SUBSET Name /\ 0 \in TableId
  BY CatalogAssumption DEF NoTables, TableId
<1>5. call.at = "load"
  BY <1>1 DEF Idle
<1>6. EmptyImage.next = 0 /\ EmptyImage.entries = NoTables /\ EmptyImage \in Image
  BY PoolConstants DEF EmptyImage
<1>7. Pool!Copies(0) = {[count |-> 1, data |-> EmptyImage]}
  <2>1. page_table[0] = NoFrame /\ disk[0] = {[count |-> 1, data |-> EmptyImage]}
    BY <1>1, PoolSets DEF Pool!Init
  <2> QED
    BY <2>1 DEF Pool!Copies
<1>8. page_count = 1
  BY <1>1 DEF Pool!Init
<1>9. Numbered(EmptyImage) /\ Owned(NoTables)
  BY <1>4, <1>6 DEF Numbered, Owned
<1>10. CopiesSound
  <2>1. \A c \in Pool!Copies(0) : c.count = 1 /\ c.data = EmptyImage
    BY <1>7
  <2> QED
    BY <1>1, <1>6, <1>8, <1>9, <2>1 DEF CopiesSound
<1>11. CallSound /\ TypeOK /\ RootsOwned
  BY <1>1, <1>4, <1>5, <1>9 DEF CallSound, TypeOK, RootsOwned
<1>12. Numbered([next |-> next_table_id, entries |-> tables])
  BY <1>1, <1>4 DEF Numbered
<1> QED
  BY <1>1, <1>3, <1>6, <1>10, <1>11, <1>12 DEF Sound, CatalogInvariant

\* Every step keeps it.
LEMMA SoundNext == Sound /\ [Next]_vars => Sound'
<1> SUFFICES ASSUME Sound, [Next]_vars
             PROVE  Sound'
  OBVIOUS
<1>1. CASE \E n \in Name : CreateTable(n) \/ DropTable(n)
  BY <1>1, CreateTableStep, DropTableStep
<1>2. CASE NewHeapRoot \/ NewIndexRoot
  BY <1>2, NewHeapRootStep, NewIndexRootStep
<1>3. CASE FetchCatalogPage \/ Save \/ SaveOverflows \/ Return
  BY <1>3, FetchCatalogPageStep, SaveStep, SaveOverflowsStep, ReturnStep
<1>4. CASE Restart \/ LoadFromDisk
  BY <1>4, RestartStep, LoadFromDiskStep
<1>5. CASE \E g \in Reader : Allocate(g) \/ Release(g) \/ \E n \in Name : Read(g, n)
  BY <1>5, ReaderStep
<1>6. CASE Flush
  BY <1>6, FlushStep
<1>7. CASE UNCHANGED vars
  <2>1. UNCHANGED poolVars /\ UNCHANGED <<tables, next_table_id, history>> /\ call' = call
    BY <1>7 DEF vars, poolVars
  <2>2. PoolKept
    BY <2>1, SoundTypes, StutterKeeps
  <2>3. guards' = guards /\ page_count' = page_count
    BY <2>1 DEF poolVars
  <2>4. CallSound'
    BY <2>1, <2>3, SoundTypes DEF CallSound, history
  <2>5. call.at \in {"idle", "heap", "index", "save", "write", "return", "load"}
    BY SoundTypes DEF TypeOK
  <2> QED
    BY <2>1, <2>2, <2>4, <2>5, QuietStep
<1> QED
  BY <1>1, <1>2, <1>3, <1>4, <1>5, <1>6, <1>7 DEF Next

-----------------------------------------------------------------------------
(* The theorems. *)

\* In every reachable state, whatever was evicted, flushed or allocated, and
\* however many saves failed or overflowed: what loadFromDisk may be shown is a
\* catalog to start from, and the call in progress holds what it needs.
THEOREM CatalogSound == Spec => []CatalogInvariant
<1>1. Sound => CatalogInvariant
  BY DEF Sound
<1> QED
  BY <1>1, SoundInit, SoundNext, PTL DEF Spec

\* No two tables in memory have one id, and none has that of a table of the
\* last successful save (createTable's next_table_id_ and what loadFromDisk
\* reads back of it, also behind a save that overflowed).
THEOREM IdsUniqueAlways == Spec => []IdsUnique
<1>1. Sound => IdsUnique
  <2> SUFFICES ASSUME Sound
               PROVE  IdsUnique
    OBVIOUS
  <2>1. \A t, u \in DOMAIN tables : t # u => tables[t].id # tables[u].id
    BY SoundTypes DEF Numbered
  <2>2. ASSUME NEW t \in DOMAIN acked.entries, call.at # "load"
        PROVE  acked.entries[t].id < next_table_id
    <3>1. acked.entries[t].id < acked.next /\ acked.next <= next_table_id
      BY <2>2, SoundTypes DEF CopiesSound, CallSound, Numbered
    <3>2. acked.entries[t].id \in Nat
      BY <2>2, SoundTypes, ImageFields, InfoFields
    <3> QED
      BY <3>1, <3>2, SoundTypes
  <2> QED
    BY <2>1, <2>2 DEF IdsUnique
<1> QED
  BY <1>1, SoundInit, SoundNext, PTL DEF Spec

\* Until a restart takes the page count back, every table has two pages of the
\* file that no other table has (the roots that createTable allocates, against
\* the allocations of others, saves that fail and restarts).
THEOREM RootsOwnedAlways == Spec => []RootsOwned
<1>1. Sound => RootsOwned
  BY SoundTypes
<1> QED
  BY <1>1, SoundInit, SoundNext, PTL DEF Spec

\* loadFromDisk brings back the last successful save, unless a later one did
\* not fit, wherever page 0 was in between.
THEOREM CatalogSurvivesAlways == Spec => CatalogSurvives
<1> DEFINE Survives == LoadFromDisk /\ ~overflowed =>
                          tables' = acked.entries /\ next_table_id' = acked.next
<1>1. Sound /\ [Next]_vars => [Survives]_vars
  <2> SUFFICES ASSUME Sound, LoadFromDisk, ~overflowed
               PROVE  tables' = acked.entries /\ next_table_id' = acked.next
    OBVIOUS
  <2>1. UNCHANGED history
    BY DEF LoadFromDisk
  <2>2. acked' = acked /\ overflowed' = overflowed
    BY <2>1 DEF history
  <2>3. PICK c \in BP!Copies(0)' : tables' = c.data.entries /\ next_table_id' = c.data.next
    BY LoadReads
  <2>4. c.data = acked
    BY <2>2, LoadReads, SamePool DEF CopiesSound
  <2> QED
    BY <2>3, <2>4
<1> QED
  BY <1>1, SoundInit, SoundNext, PTL DEF Spec, CatalogSurvives
=============================================================================
