----------------------------- MODULE MCCatalog -----------------------------
(***************************************************************************)
(* Finite instances of Catalog for TLC.                                    *)
(***************************************************************************)
EXTENDS Catalog, TLC

\* The catalog treats all names alike, and the pool all readers.
ModelSymmetry == Permutations(Name) \cup Permutations(Reader)

\* The numbers of the frames do not matter, since the replacer orders them by
\* their accesses: a cached page stands for its frame.
PoolView ==
    <<[p \in Pool!PageId |-> IF page_table[p] = NoFrame THEN NoFrame
                            ELSE <<frames[page_table[p]], page_table[p] \in evictable>>],
      [i \in DOMAIN accesses |-> frames[accesses[i]].page],
      [g \in Guards |-> <<guards[g].page, guards[g].dirty>>], curr_size, disk, page_count,
      tables, next_table_id, call, history>>
=============================================================================
