--------------------------- MODULE MCModelBuilds ---------------------------
(***************************************************************************)
(* ModelBuilds with what TLC needs: the clients are interchangeable.       *)
(***************************************************************************)
EXTENDS ModelBuilds, TLC

Symmetry == Permutations(Clients)
=============================================================================
