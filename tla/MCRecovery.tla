----------------------------- MODULE MCRecovery -----------------------------
\* Instances of Recovery for TLC.
EXTENDS Recovery, TLC

\* Transactions and payloads are interchangeable; slots too, since recovery
\* names them and never searches for one.
ModelSymmetry == Permutations(Txn) \cup Permutations(Tuple) \cup Permutations(Slot)
=============================================================================
