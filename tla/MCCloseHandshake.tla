-------------------------- MODULE MCCloseHandshake --------------------------
(* Calls and controllers are interchangeable.                              *)
EXTENDS CloseHandshake, TLC

Symmetry == Permutations(Calls) \cup Permutations(Controllers)

=============================================================================
