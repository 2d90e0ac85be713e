------------------------------- MODULE MCSweep -------------------------------
(* Model values for the runs of Sweep. *)
EXTENDS Sweep, TLC

CONSTANTS d1, d2

MCPods == {d1, d2}
MCPod == {d1}

=============================================================================
