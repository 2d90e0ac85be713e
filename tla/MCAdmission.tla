----------------------------- MODULE MCAdmission -----------------------------
(* Model values for the runs of Admission. *)
EXTENDS Admission, TLC

CONSTANTS p1, p2, d1, d2

MCProcs == {p1, p2}
MCPods == {d1, d2}

=============================================================================
