------------------------- MODULE MCSessionLifecycle -------------------------
(***************************************************************************)
(* SessionLifecycle for the run that checks it with interchangeable        *)
(* requests, messages and Runs.                                            *)
(***************************************************************************)
EXTENDS SessionLifecycle, TLC

Symmetry == Permutations(Edits) \cup Permutations(Works)
=============================================================================
