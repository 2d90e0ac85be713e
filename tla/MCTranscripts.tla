--------------------------- MODULE MCTranscripts ---------------------------
(* Model-checking instances of Transcripts. *)
EXTENDS Transcripts, TLC

CONSTANTS r1, r2, d1

(* Both recordings have the same audio. *)
SameAudio == [r \in {r1, r2} |-> d1]

Symmetry == Permutations(Procs) \cup Permutations(Profiles)
=============================================================================
