---------------------------- MODULE MCConfigure -----------------------------
(* A small instance of Configure for TLC.                                  *)
EXTENDS Configure, TLC

Symmetry == Permutations(Runs) \cup Permutations(Commands)
=============================================================================
