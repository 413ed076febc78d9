----------------------------- MODULE MCInvoker -----------------------------
EXTENDS Invoker, TLC

Symmetry == Permutations(Callers) \cup Permutations(Handles)
=============================================================================
