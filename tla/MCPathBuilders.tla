--------------------------- MODULE MCPathBuilders ---------------------------
EXTENDS PathBuilders, TLC
CONSTANTS p, q
\* Nothing in the module tells one target from the other.
Symmetric == Permutations(Targets)
=============================================================================
