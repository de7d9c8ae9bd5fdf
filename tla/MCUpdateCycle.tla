--------------------------- MODULE MCUpdateCycle ---------------------------
EXTENDS UpdateCycle, TLC

\* Updates are interchangeable, and so are regions.
Symmetry == Permutations(Updates) \cup Permutations(Regions)
=============================================================================
