---------------------------- MODULE MCTableHeap ----------------------------
(***************************************************************************)
(* TLC instance of TableHeap.  The view leaves out what neither an action  *)
(* nor a property can tell: the counters of an outdated object, what a     *)
(* scan that has ended returned beyond what it had to, and the parts of an *)
(* iterator's page that it has passed.                                     *)
(***************************************************************************)
EXTENDS TableHeap, TLC

HeapSymmetry == Permutations(Heap)

IterView(it) ==
    IF it = AtEnd THEN AtEnd
    ELSE <<it.page, it.slot, SubSeq(it.cached.slots, it.slot, Len(it.cached.slots)), it.cached.next>>

ScanView(it, scan) ==
    IF it = AtEnd THEN <<scan.must \ scan.seen, scan.again, scan.cut>> ELSE scan

HeapView ==
    <<diskVars, first, stored, outdated,
      [i \in Iter |-> IterView(iters[i])],
      [h \in Heap |-> IF h \in outdated THEN heaps[h].open ELSE heaps[h]],
      [i \in Iter |-> ScanView(iters[i], scans[i])]>>
=============================================================================
