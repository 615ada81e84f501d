------------------------ MODULE MC_RepresentativePush ------------------------
(* Small instances of RepresentativePush for TLC.                          *)
EXTENDS RepresentativePush, TLC

Symmetry == Permutations(Engines)
=============================================================================
