---------------------------- MODULE Subsequences ----------------------------
(***************************************************************************)
(* What the loops of HamDB that rebuild a list without some of its nodes   *)
(* leave: MvccManager::abort for a version chain, LRUKReplacer::remove for *)
(* the accesses of a frame, LogManager::flush for the log buffer.          *)
(***************************************************************************)
EXTENDS Naturals, Sequences, FiniteSets

\* How many of the positions in keep are at or before i.
Rank(keep, i) == Cardinality({j \in keep : j <= i})

\* The elements of seq at the positions in keep, in the order they had.
Pick(seq, keep) ==
    [k \in 1 .. Cardinality(keep) |-> seq[CHOOSE i \in keep : Rank(keep, i) = k]]
=============================================================================
