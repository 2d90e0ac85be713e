--------------------------- MODULE MCFinalization ---------------------------
(* Model values and symmetry for the runs of Finalization. *)
EXTENDS Finalization, TLC

CONSTANTS w1, w2

MCWorkers == {w1, w2}
Symmetry == Permutations(MCWorkers)

=============================================================================
