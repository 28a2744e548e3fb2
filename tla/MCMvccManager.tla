--------------------------- MODULE MCMvccManager ---------------------------
(***************************************************************************)
(* Finite instances of MvccManager for TLC.                                *)
(***************************************************************************)
EXTENDS MvccManager, TLC

\* Payloads are interchangeable; transaction ids are ordered.
DataSymmetry == Permutations(Value)
=============================================================================
