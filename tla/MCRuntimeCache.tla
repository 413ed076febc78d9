--------------------------- MODULE MCRuntimeCache ---------------------------
EXTENDS RuntimeCache, TLC

Symmetry == Permutations(Workers) \cup Permutations(Resolvers) \cup Permutations(Pins) \cup Permutations(Families)
=============================================================================
