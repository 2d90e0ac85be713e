------------------------------ MODULE Archive ------------------------------
(***************************************************************************)
(* What durable capture promises to the rest of the system: a session is   *)
(* heard, and at one instant it turns from invisible into a finished       *)
(* recording that holds all that was heard and never changes again.        *)
(* Crashes, restarts and the files in between do not exist at this level.  *)
(***************************************************************************)
EXTENDS Integers

CONSTANTS Sessions, FrameSizes

VARIABLES
  heard,   \* heard[s]: frames, bytes and decode errors received so far
  shown    \* shown[s]: the recording readers see, or Nothing

Nothing == [label |-> "none", audio |-> 0, frames |-> 0, errors |-> 0]

Init ==
  /\ heard = [s \in Sessions |-> [frames |-> 0, bytes |-> 0, errors |-> 0]]
  /\ shown = [s \in Sessions |-> Nothing]

Count(c, bytes, errors) ==
  [frames |-> c.frames + 1, bytes |-> c.bytes + bytes, errors |-> c.errors + errors]

(* A frame arrives and is decoded into n bytes, or cannot be decoded.       *)
HearFrame(s, n) ==
  /\ shown[s] = Nothing
  /\ heard' = [heard EXCEPT ![s] = Count(@, n, 0)]
  /\ UNCHANGED shown

HearError(s) ==
  /\ shown[s] = Nothing
  /\ heard' = [heard EXCEPT ![s] = Count(@, 0, 1)]
  /\ UNCHANGED shown

(* The recording appears.  A completed one is exact in every number; a      *)
(* recovered one is exact in its audio and may miss the last frame in its   *)
(* frame and error counts.                                                  *)
Publish(s) ==
  /\ shown[s] = Nothing
  /\ \E label \in {"completed", "recovered"}, missed \in {0, 1}, lost \in {0, 1} :
       /\ label = "completed" => missed = 0 /\ lost = 0
       /\ shown' = [shown EXCEPT ![s] =
            [label |-> label, audio |-> heard[s].bytes,
             frames |-> heard[s].frames - missed, errors |-> heard[s].errors - lost]]
  /\ UNCHANGED heard

Next ==
  \E s \in Sessions :
    \/ \E n \in FrameSizes : HearFrame(s, n)
    \/ HearError(s)
    \/ Publish(s)

Spec == Init /\ [][Next]_<<heard, shown>>
=============================================================================
