---------------------------- MODULE MCMaterials -----------------------------
(* A small instance of Materials for TLC.                                  *)
EXTENDS Materials, TLC

\* The generators are interchangeable: Init chooses who forces.
Symmetry == Permutations(Generators)
=============================================================================
