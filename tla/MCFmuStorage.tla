---------------------------- MODULE MCFmuStorage ----------------------------
(* Access keys, copies and reasons are interchangeable.                    *)
EXTENDS FmuStorage, TLC

Symmetry ==
  Permutations(Keys) \cup Permutations(Copies) \cup Permutations(Reasons)
=============================================================================
