----------------------------- MODULE MCRunStore -----------------------------
(* RunStore on small instances: symmetry for the runs without liveness. *)
EXTENDS RunStore, TLC

Symmetry == Permutations(Runs) \cup Permutations(Workers)
=============================================================================
