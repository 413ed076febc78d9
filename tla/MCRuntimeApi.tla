---------------------------- MODULE MCRuntimeApi ----------------------------
EXTENDS RuntimeApi, TLC

Symmetry == Permutations(Requests)
=============================================================================
