----------------------------- MODULE MC_CodexWake -----------------------------
(* Small instances of CodexWake for TLC.                                   *)
EXTENDS CodexWake, TLC

Symmetry == Permutations(Entries)
=============================================================================
