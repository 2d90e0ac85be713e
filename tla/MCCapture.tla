----------------------------- MODULE MCCapture -----------------------------
(* Model-checking instances of Capture. *)
EXTENDS Capture, TLC

Symmetry == Permutations(Sessions)
=============================================================================
