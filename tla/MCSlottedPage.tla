--------------------------- MODULE MCSlottedPage ---------------------------
\* Instances of SlottedPage for TLC.
EXTENDS SlottedPage

\* Tuples of one and of two bytes; no two share a byte at the same place.
SmallTuples == {<<1>>, <<2, 3>>}
=============================================================================
