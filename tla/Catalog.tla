------------------------------ MODULE Catalog ------------------------------
(***************************************************************************)
(* CatalogManager (src/src/catalog/catalog_manager.cpp) over the buffer    *)
(* pool and the disk manager.  The catalog is a map from names to table    *)
(* infos in memory; every change of it is written as a whole into page 0,  *)
(* behind the database metadata, and the constructor reads it back.        *)
(*                                                                         *)
(* The module composes BufferPool: a call of the catalog is a sequence of  *)
(* calls of the pool, each of which may evict, flush or find every frame   *)
(* pinned.  A reader stands for the other users of the pool, which keep    *)
(* pages pinned, allocate pages of their own and push page 0 out of the    *)
(* cache between two calls of the catalog.  Reads and writes of the file   *)
(* do not fail here; BufferPool has those failures.                        *)
(*                                                                         *)
(* The size of an entry depends on the schema of the table: up to          *)
(* SmallCapacity entries always fit behind the metadata, and no more than  *)
(* Capacity ever do.  tables_ is unordered, so any entries may be the ones *)
(* that fit.                                                               *)
(***************************************************************************)
EXTENDS Naturals, FiniteSets

CONSTANTS
    Name,       \* the names of tables
    SmallCapacity,  \* entries that fit into page 0 whatever their schemas
    Capacity,   \* entries that may fit into page 0
    MaxTables,  \* bound on the tables that are ever created
    Reader,     \* the guards of other users of the pool
    PoolSize,   \* frames of the pool
    MaxPages,   \* bound on the pages of the file
    NoPage,
    NoFrame,
    NoName

ASSUME CatalogAssumption ==
    /\ SmallCapacity \in Nat /\ Capacity \in Nat /\ SmallCapacity <= Capacity /\ MaxTables \in Nat
    /\ PoolSize \in Nat \ {0} /\ MaxPages \in Nat \ {0}
    /\ NoName \notin Name
    /\ IsFiniteSet(Reader)
    /\ NoPage \notin 0 .. MaxPages - 1
    /\ NoFrame \notin 0 .. PoolSize - 1

VARIABLES
    frames, page_table, accesses, evictable, curr_size, guards, disk, page_count,   \* the pool
    tables,         \* tables_
    next_table_id,  \* next_table_id_
    call,           \* the call in progress and its local variables
    acked,          \* history: what the last successful save wrote
    overflowed,     \* history: a later save did not fit into the page
    lowered         \* history: a restart has taken the page count back

poolVars == <<frames, page_table, accesses, evictable, curr_size, guards, disk, page_count>>
history == <<acked, overflowed, lowered>>
vars == <<poolVars, tables, next_table_id, call, history>>

TableId == 0 .. MaxTables

TableInfo == [id : TableId, heap_root : 1 .. MaxPages - 1, index_root : 1 .. MaxPages - 1]

NoTables == [n \in {} |-> 0]

\* What saveToDisk leaves behind the metadata: the next id and the entries that
\* were written completely.  (The number of tables is there too; a reader stops
\* after as many entries, or at the field that could not be written.)
Image == [next : TableId, entries : UNION {[D -> TableInfo] : D \in SUBSET Name}]

\* A zeroed page.
EmptyImage == [next |-> 0, entries |-> NoTables]

\* The guards of createTable, saveToDisk and loadFromDisk, and those of others.
Guards == {"heap_guard", "index_guard", "guard"} \cup Reader

Pool == INSTANCE BufferPool
           WITH Data <- Image, ZeroPage <- EmptyImage, Writable <- {0}, Failing <- FALSE

Idle == [at |-> "idle", name |-> NoName, heap_root |-> NoPage]

\* The first start, before the constructor of CatalogManager.
Init ==
    /\ Pool!Init
    /\ tables = NoTables
    /\ next_table_id = 0
    /\ call = [Idle EXCEPT !.at = "load"]
    /\ acked = EmptyImage
    /\ overflowed = FALSE
    /\ lowered = FALSE

\* BufferPoolFull: no frame is free and none may be evicted.
PoolFull == \A f \in Pool!Frames : ~Pool!FreeFrame(f)

Fetch(g, p) == Pool!FetchHit(g, p) \/ \E f \in Pool!Frames : Pool!FetchMiss(g, p, f)

FetchFails(p) == page_table[p] = NoFrame /\ PoolFull

-----------------------------------------------------------------------------
(***************************************************************************)
(* createTable, with its two new pages.                                    *)
(***************************************************************************)
CreateTable(n) ==
    /\ call = Idle /\ n \notin DOMAIN tables
    /\ next_table_id < MaxTables /\ page_count + 2 <= MaxPages
    /\ call' = [Idle EXCEPT !.at = "heap", !.name = n]
    /\ UNCHANGED <<poolVars, tables, next_table_id, history>>

NewHeapRoot ==
    /\ call.at = "heap"
    /\ \/ /\ \E f \in Pool!Frames : Pool!NewPage("heap_guard", f)
          /\ call' = [call EXCEPT !.at = "index", !.heap_root = page_count]
       \/ PoolFull /\ call' = Idle /\ UNCHANGED poolVars
    /\ UNCHANGED <<tables, next_table_id, history>>

\* Mutant of NewInfo: the page of the heap is recorded twice.
NewInfoOneRoot ==
    [id |-> next_table_id, heap_root |-> call.heap_root, index_root |-> call.heap_root]

NewInfo == [id |-> next_table_id, heap_root |-> call.heap_root, index_root |-> page_count]

\* The table is in the map before the catalog is saved.
NewIndexRoot ==
    /\ call.at = "index"
    /\ \/ /\ \E f \in Pool!Frames : Pool!NewPage("index_guard", f)
          /\ tables' = [n \in DOMAIN tables \cup {call.name} |->
                            IF n = call.name THEN NewInfo ELSE tables[n]]
          /\ next_table_id' = next_table_id + 1
          /\ call' = [Idle EXCEPT !.at = "save"]
       \/ /\ PoolFull
          /\ call' = [Idle EXCEPT !.at = "return"]
          /\ UNCHANGED <<poolVars, tables, next_table_id>>
    /\ UNCHANGED history

DropTable(n) ==
    /\ call = Idle /\ n \in DOMAIN tables
    /\ tables' = [m \in DOMAIN tables \ {n} |-> tables[m]]
    /\ call' = [Idle EXCEPT !.at = "save"]
    /\ UNCHANGED <<poolVars, next_table_id, history>>

(***************************************************************************)
(* saveToDisk.  If page 0 cannot be fetched the call returns the error and *)
(* the map keeps the change.  If an entry does not fit, the page keeps the *)
(* new header and the entries so far, and the guard is not marked dirty.   *)
(***************************************************************************)
FetchCatalogPage ==
    /\ call.at = "save"
    /\ \/ Fetch("guard", 0) /\ call' = [Idle EXCEPT !.at = "write"]
       \/ FetchFails(0) /\ call' = [Idle EXCEPT !.at = "return"] /\ UNCHANGED poolVars
    /\ UNCHANGED <<tables, next_table_id, history>>

Serialized(names) == [next |-> next_table_id, entries |-> [n \in names |-> tables[n]]]

\* Mutant of Save: the guard is not marked dirty.
SaveUnmarked ==
    /\ call.at = "write" /\ Cardinality(DOMAIN tables) <= Capacity
    /\ frames' = [frames EXCEPT ![guards["guard"].frame].content.data = Serialized(DOMAIN tables)]
    /\ acked' = Serialized(DOMAIN tables)
    /\ overflowed' = FALSE
    /\ call' = [Idle EXCEPT !.at = "return"]
    /\ UNCHANGED <<page_table, accesses, evictable, curr_size, guards, disk, page_count,
                   tables, next_table_id, lowered>>

Save ==
    /\ call.at = "write" /\ Cardinality(DOMAIN tables) <= Capacity
    /\ Pool!Write("guard", Serialized(DOMAIN tables))
    /\ acked' = Serialized(DOMAIN tables)
    /\ overflowed' = FALSE
    /\ call' = [Idle EXCEPT !.at = "return"]
    /\ UNCHANGED <<tables, next_table_id, lowered>>

SaveOverflows ==
    /\ call.at = "write" /\ Cardinality(DOMAIN tables) > SmallCapacity
    /\ \E names \in SUBSET DOMAIN tables :
          /\ names # DOMAIN tables /\ Cardinality(names) \in SmallCapacity .. Capacity
          /\ frames' = [frames EXCEPT ![guards["guard"].frame].content.data = Serialized(names)]
    /\ overflowed' = TRUE
    /\ call' = [Idle EXCEPT !.at = "return"]
    /\ UNCHANGED <<page_table, accesses, evictable, curr_size, guards, disk, page_count,
                   tables, next_table_id, acked, lowered>>

\* The guards of a call are dropped in the order of their destructors.
Return ==
    /\ call.at = "return"
    /\ LET held == {g \in {"guard", "index_guard", "heap_guard"} : guards[g] # Pool!EmptyGuard}
           first == CASE "guard" \in held -> "guard"
                      [] "guard" \notin held /\ "index_guard" \in held -> "index_guard"
                      [] OTHER -> "heap_guard"
       IN  IF held = {} THEN call' = Idle /\ UNCHANGED poolVars
           ELSE Pool!Drop(first) /\ UNCHANGED call
    /\ UNCHANGED <<tables, next_table_id, history>>

(***************************************************************************)
(* The end of the process and the next start.  The destructor of the pool  *)
(* flushes, and the constructor of the new catalog calls loadFromDisk,     *)
(* which ends with an error, ignored, at the first incomplete entry.       *)
(***************************************************************************)
Restart ==
    /\ call = Idle
    /\ Pool!Restart
    /\ tables' = NoTables
    /\ next_table_id' = 0
    /\ call' = [Idle EXCEPT !.at = "load"]
    /\ lowered' = (lowered \/ page_count' < page_count)
    /\ UNCHANGED <<acked, overflowed>>

\* Mutant of Loaded: the next id is the number of tables.
LoadedKeepsId(image) ==
    /\ tables' = image.entries
    /\ next_table_id' = Cardinality(DOMAIN image.entries)

Loaded(image) ==
    /\ tables' = image.entries
    /\ next_table_id' = image.next

LoadFromDisk ==
    /\ call.at = "load"
    /\ Fetch("guard", 0)
    /\ Loaded(frames'[guards'["guard"].frame].content.data)
    /\ call' = [Idle EXCEPT !.at = "return"]
    /\ UNCHANGED history

(***************************************************************************)
(* Other users of the pool: a statement reads the index of a table, a heap *)
(* or an index grows, pages are flushed.                                   *)
(***************************************************************************)
Read(g, n) ==
    /\ call = Idle /\ n \in DOMAIN tables /\ tables[n].index_root < page_count
    /\ Fetch(g, tables[n].index_root)
    /\ UNCHANGED <<tables, next_table_id, call, history>>

Allocate(g) ==
    /\ call = Idle
    /\ \E f \in Pool!Frames : Pool!NewPage(g, f)
    /\ UNCHANGED <<tables, next_table_id, call, history>>

Release(g) ==
    /\ call = Idle
    /\ Pool!Drop(g)
    /\ UNCHANGED <<tables, next_table_id, call, history>>

Flush ==
    /\ call = Idle
    /\ Pool!FlushAllPages
    /\ UNCHANGED <<tables, next_table_id, call, history>>

Next ==
    \/ \E n \in Name : CreateTable(n) \/ DropTable(n)
    \/ NewHeapRoot \/ NewIndexRoot
    \/ FetchCatalogPage \/ Save \/ SaveOverflows \/ Return
    \/ Restart \/ LoadFromDisk
    \/ \E g \in Reader : Allocate(g) \/ Release(g) \/ \E n \in Name : Read(g, n)
    \/ Flush

Spec == Init /\ [][Next]_vars

-----------------------------------------------------------------------------
(***************************************************************************)
(* Properties                                                              *)
(***************************************************************************)
TypeOK ==
    /\ \E D \in SUBSET Name : tables \in [D -> TableInfo]
    /\ next_table_id \in TableId
    /\ call.at \in {"idle", "heap", "index", "save", "write", "return", "load"}

\* A restart brings back the catalog of the last successful createTable or
\* dropTable, with its ids and roots, wherever page 0 was in the meantime: dirty
\* in the pool, evicted, flushed, or read again behind the allocations of
\* others.  The exception is a save that did not fit into the page.
CatalogSurvives ==
    [][LoadFromDisk /\ ~overflowed => tables' = acked.entries /\ next_table_id' = acked.next]_vars

Roots(info) == {info.heap_root, info.index_root}

Owned(entries) ==
    /\ \A t \in DOMAIN entries :
          /\ entries[t].heap_root # entries[t].index_root
          /\ \A p \in Roots(entries[t]) : p < page_count
    /\ \A t, u \in DOMAIN entries : t # u => Roots(entries[t]) \cap Roots(entries[u]) = {}

\* Until a restart takes the page count back, no two tables share a page and
\* every root is a page of the file, also when saves fail halfway.  (The count
\* in the cached copy of page 0 is older than the count in the file, and
\* saveToDisk makes sure that the old one is written.)
RootsOwned == ~lowered => Owned(tables)

\* A table created after a successful save has an id of its own: no table of
\* that save has it, and no other table in memory.
IdsUnique ==
    /\ \A t, u \in DOMAIN tables : t # u => tables[t].id # tables[u].id
    /\ \A t \in DOMAIN acked.entries :
          \/ call.at = "load"
          \/ acked.entries[t].id < next_table_id

\* The entries have ids of their own, all of them given out.
Numbered(image) ==
    /\ \A t \in DOMAIN image.entries : image.entries[t].id < image.next
    /\ \A t, u \in DOMAIN image.entries : t # u => image.entries[t].id # image.entries[u].id

\* What the proofs need besides the invariant of the pool.  LoadFromDisk may be
\* shown any copy of page 0, so each has to be a catalog it can start from: one
\* that gives no id again that the last successful save has, that is this save
\* unless a later one overflowed, and whose count of pages is not ahead.
CopiesSound ==
    /\ page_count >= 1
    /\ Numbered(acked)
    /\ \A c \in Pool!Copies(0) :
          /\ c.count \in 1 .. page_count
          /\ Numbered(c.data) /\ acked.next <= c.data.next
          /\ ~overflowed => c.data = acked
          /\ ~lowered => Owned(c.data.entries)

\* The call in progress: a restart leaves no tables, createTable holds a page
\* that no table has, and saveToDisk writes to page 0.
CallSound ==
    /\ call.at = "load" => tables = NoTables /\ next_table_id = 0
    /\ call.at # "load" => acked.next <= next_table_id
    /\ call.at \in {"heap", "index"} => call.name \in Name \ DOMAIN tables /\ next_table_id < MaxTables
    /\ call.at = "index" =>
          /\ call.heap_root \in 1 .. page_count - 1
          /\ ~lowered => \A t \in DOMAIN tables : call.heap_root \notin Roots(tables[t])
    /\ call.at = "write" => guards["guard"].page = 0

CatalogInvariant ==
    /\ TypeOK /\ acked \in Image
    /\ overflowed \in BOOLEAN /\ lowered \in BOOLEAN
    /\ Numbered([next |-> next_table_id, entries |-> tables])
    /\ RootsOwned /\ CopiesSound /\ CallSound

\* disk_manager.hpp: "Return the total number of pages in the database file."
PageCountIsFileSize == page_count = Cardinality({p \in Pool!PageId : disk[p] # {}})
=============================================================================
