---------------------------- MODULE MCActionLoop ----------------------------
(***************************************************************************)
(* ActionLoop for the run in which proposals, requests and keys are        *)
(* interchangeable.                                                        *)
(***************************************************************************)
EXTENDS ActionLoop, TLC

Symmetry == Permutations(Proposals) \cup Permutations(Requests) \cup Permutations(Keys)
=============================================================================
