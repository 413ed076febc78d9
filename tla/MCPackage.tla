----------------------------- MODULE MCPackage -----------------------------
EXTENDS Package, TLC

CONSTANTS boot, lib, file
MCPaths == {boot, lib, file}
MCAncestors == [p \in MCPaths |-> IF p = file THEN {lib} ELSE {}]
Symmetry == Permutations(Threads)
=============================================================================
