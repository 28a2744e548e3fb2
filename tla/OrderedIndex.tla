---------------------------- MODULE OrderedIndex ----------------------------
(***************************************************************************)
(* What BPlusTree promises its callers (src/include/index/bplus_tree.hpp): *)
(* a map from unique keys to record ids.  insert adds a key that is not    *)
(* there, remove takes one away, and neither disturbs any other key.       *)
(***************************************************************************)
CONSTANTS
    Key,
    RIDsOf      \* the record ids callers insert under each key

VARIABLE index      \* a function whose domain is the set of stored keys

Init == DOMAIN index = {}

\* The keys in ks keep their record ids.
Kept(ks) == \A k \in ks : index'[k] = index[k]

Insert(k) ==
    /\ k \notin DOMAIN index
    /\ DOMAIN index' = DOMAIN index \cup {k}
    /\ index'[k] \in RIDsOf[k]
    /\ Kept(DOMAIN index)

Remove(k) ==
    /\ k \in DOMAIN index
    /\ DOMAIN index' = DOMAIN index \ {k}
    /\ Kept(DOMAIN index')

Next == \E k \in Key : Insert(k) \/ Remove(k)

Spec == Init /\ [][Next]_index
=============================================================================
