---------------------------- MODULE MCBufferPool ----------------------------
\* Instances of BufferPool for TLC.
EXTENDS BufferPool, TLC

\* The callers' guard variables are interchangeable.
GuardSymmetry == Permutations(Guards)
=============================================================================
