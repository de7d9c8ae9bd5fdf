--------------------------- MODULE MCPublication ---------------------------
EXTENDS Publication, TLC

\* Writers are interchangeable, and so are inode numbers, in every invariant.
Symmetry == Permutations(Writers) \cup Permutations(Inos)
=============================================================================
