---------------------------- MODULE MCFmuRealtime ----------------------------
(* Connections are interchangeable.                                        *)
EXTENDS FmuRealtime, TLC

Symmetry == Permutations(Conns)
=============================================================================
