--------------------------- MODULE MCCommandQueue ---------------------------
(* Three commands; two of them share the name of their result file, and one *)
(* is named in the file system like another's id.                           *)
EXTENDS CommandQueue, TLC

CONSTANTS prepare, shutdown, garbled, idA, idB

MCIdOf == (prepare :> idA) @@ (shutdown :> idB) @@ (garbled :> idA)

MCNameOf == (prepare :> idB) @@ (shutdown :> idB) @@ (garbled :> idA)

=============================================================================
