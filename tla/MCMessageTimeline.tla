------------------------- MODULE MCMessageTimeline --------------------------
(***************************************************************************)
(* MessageTimeline for the runs in which posts, Runs, edits and keys are   *)
(* interchangeable.                                                        *)
(***************************************************************************)
EXTENDS MessageTimeline

Symmetry == Permutations(Posts) \cup Permutations(Runs) \cup Permutations(Changes) \cup Permutations(Keys)
=============================================================================
