--------------------------- MODULE MCRequestStats ---------------------------
\* The requests are interchangeable.
EXTENDS RequestStats, TLC

Symmetry == Permutations(Requests)
=============================================================================
