--------------------------- MODULE MCControlPlane ---------------------------
EXTENDS ControlPlane, TLC

CONSTANTS zipBoot, zipPlain

MCBlobs == {zipBoot, zipPlain}
MCBootstrap == {zipBoot}
Symmetry == Permutations(Clients) \cup Permutations(Names)
=============================================================================
