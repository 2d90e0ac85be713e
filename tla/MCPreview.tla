----------------------------- MODULE MCPreview -----------------------------
(* Model values for the runs of Preview. *)
EXTENDS Preview, TLC

CONSTANTS s1, s2

MCSessions == {s1, s2}

(* One recording with more audio than its queue takes, and an empty one. *)
MCFrames == (s1 :> 2) @@ (s2 :> 0)

=============================================================================
