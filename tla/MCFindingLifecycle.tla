------------------------- MODULE MCFindingLifecycle -------------------------
EXTENDS FindingLifecycle, TLC
\* Only the two concurrent ticket requests are interchangeable.
Symmetry == Permutations(Requests)
=============================================================================
