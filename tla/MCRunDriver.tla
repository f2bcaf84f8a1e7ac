----------------------------- MODULE MCRunDriver ----------------------------
(* RunDriver on small instances. *)
EXTENDS RunDriver, TLC

Symmetry == Permutations(Workers)
=============================================================================
