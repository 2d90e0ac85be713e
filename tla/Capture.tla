------------------------------ MODULE Capture ------------------------------
(***************************************************************************)
(* Durable audio capture on the Mac: OfflineAudioCapture and the startup   *)
(* recovery of backend/utils/offline_audio_capture.py, driven by the       *)
(* listen WebSocket sessions of backend/routers/listen.                    *)
(*                                                                         *)
(* A session owns one directory with four files: the growing PCM part, its *)
(* progress metadata, and the published WAV and metadata.  Every file      *)
(* write that can be separated from the next one by a crash or an I/O      *)
(* error is an action of its own; audio is represented by its byte count,  *)
(* which determines it because the PCM part only ever grows at its end.    *)
(***************************************************************************)
EXTENDS Integers

CONSTANTS
  Sessions,      \* server session ids, each a fresh UUID
  FrameSizes,    \* byte counts of the decoded frames a client may send
  MaxFrames,     \* bound: frames received per session
  MaxFaults,     \* bound: crashes and I/O errors in a behaviour
  ShortWrites    \* TRUE: a raw write may store only part of a frame

ASSUME CaptureAssumption ==
  /\ FrameSizes \subseteq Nat
  /\ MaxFrames \in Nat
  /\ MaxFaults \in Nat
  /\ ShortWrites \in BOOLEAN

VARIABLES
  pc,        \* pc[s]: where the code working on session s stands
  mem,       \* mem[s]: the counters of the OfflineAudioCapture object
  pcm,       \* pcm[s]: bytes in audio.pcm.part
  part,      \* part[s]: metadata.json.part
  wav,       \* wav[s]: sample bytes in audio.wav
  meta,      \* meta[s]: metadata.json
  backend,   \* the backend process: down, recovering (startup_event) or up
  todo,      \* parts of the startup glob not yet visited
  failed,    \* sessions this recovery pass counted as failed
  faults     \* crashes and I/O errors so far

vars == <<pc, mem, pcm, part, wav, meta, backend, todo, failed, faults>>
disk == <<pcm, part, wav, meta>>

OUTPUT_SAMPLE_WIDTH_BYTES == 2

NoFile == -1

Counters == [frames : Nat, bytes : Nat, errors : Nat]

Metadata == [status : {"none", "recording", "completed", "recovered"},
             frames : Nat, bytes : Nat, errors : Nat]

(* The metadata _capture_metadata builds from a set of counters. *)
_capture_metadata(status, frames, bytes, errors) ==
  [status |-> status, frames |-> frames, bytes |-> bytes, errors |-> errors]

NoMeta == _capture_metadata("none", 0, 0, 0)

Finalizing == {"closing", "wavDone", "metaDone", "pcmGone"}
Recovering == {"rWav", "rMeta", "rPcm", "rPart"}
Live == {"made", "opened", "recording", "counted"} \cup Finalizing
PCs == {"absent", "idle"} \cup Live \cup Recovering

Init ==
  /\ pc = [s \in Sessions |-> "absent"]
  /\ mem = [s \in Sessions |-> [frames |-> 0, bytes |-> 0, errors |-> 0]]
  /\ pcm = [s \in Sessions |-> NoFile]
  /\ part = [s \in Sessions |-> NoMeta]
  /\ wav = [s \in Sessions |-> NoFile]
  /\ meta = [s \in Sessions |-> NoMeta]
  /\ backend = "down"
  /\ todo = {}
  /\ failed = {}
  /\ faults = 0

(* Session s moves from one of the given places to another. *)
Goto(s, from, to) ==
  /\ pc[s] \in from
  /\ pc' = [pc EXCEPT ![s] = to]

(* An I/O error or a crash happens; MaxFaults bounds how many do. *)
Fault ==
  /\ faults < MaxFaults
  /\ faults' = faults + 1

Process == <<backend, todo, failed>>

----------------------------------------------------------------------------
(* The session constructor: directory, PCM part, first progress metadata.   *)

Mkdir(s) ==
  /\ backend = "up"
  /\ Goto(s, {"absent"}, "made")
  /\ UNCHANGED <<mem, disk, Process, faults>>

OpenPcm(s) ==
  /\ Goto(s, {"made"}, "opened")
  /\ pcm' = [pcm EXCEPT ![s] = 0]
  /\ UNCHANGED <<mem, part, wav, meta, Process, faults>>

ProgressOf(s) ==
  _capture_metadata("recording", mem[s].frames, mem[s].bytes, mem[s].errors)

_write_progress_metadata(s) ==
  /\ Goto(s, {"opened", "counted"}, "recording")
  /\ part' = [part EXCEPT ![s] = ProgressOf(s)]
  /\ UNCHANGED <<mem, pcm, wav, meta, Process, faults>>

(* The constructor raises: the socket is closed with 1011 and no sink is    *)
(* kept, so finalize never runs on what the constructor left behind.        *)
StartFails(s) ==
  /\ Goto(s, {"made", "opened"}, "idle")
  /\ Fault
  /\ UNCHANGED <<mem, disk, Process>>

----------------------------------------------------------------------------
(* record_decoded_frame and record_decode_error, up to their progress write.*)

(* The counters after one more frame.                                       *)
Count(c, bytes, errors) ==
  [frames |-> c.frames + 1, bytes |-> c.bytes + bytes, errors |-> c.errors + errors]

(* How many of a frame's n bytes the unbuffered write may store: on a full  *)
(* disk the operating system stores a part and reports how much.            *)
Stored(n) == {n} \cup (IF ShortWrites THEN 1..n ELSE {})

(* The counters are advanced by n whatever was stored: the code does not    *)
(* look at write's return value.                                            *)
record_decoded_frame(s, n) ==
  /\ mem[s].frames < MaxFrames
  /\ n % OUTPUT_SAMPLE_WIDTH_BYTES = 0
  /\ Goto(s, {"recording"}, "counted")
  /\ \E k \in Stored(n) : pcm' = [pcm EXCEPT ![s] = @ + k]
  /\ mem' = [mem EXCEPT ![s] = Count(@, n, 0)]
  /\ UNCHANGED <<part, wav, meta, Process, faults>>

(* A frame that is not sample-aligned, or a write that fails, raises out of *)
(* the receive loop: the session ends and its teardown finalizes.           *)
RejectFrame(s) ==
  /\ \E n \in FrameSizes : n % OUTPUT_SAMPLE_WIDTH_BYTES # 0
  /\ Goto(s, {"recording"}, "closing")
  /\ UNCHANGED <<mem, disk, Process, faults>>

(* Mutant: the guard on a closed capture is missing.                        *)
DecodeErrorAfterClose(s) ==
  /\ mem[s].frames < MaxFrames
  /\ Goto(s, {"recording", "pcmGone"}, "counted")
  /\ mem' = [mem EXCEPT ![s] = Count(@, 0, 1)]
  /\ UNCHANGED <<disk, Process, faults>>

record_decode_error(s) ==
  /\ mem[s].frames < MaxFrames
  /\ Goto(s, {"recording"}, "counted")
  /\ mem' = [mem EXCEPT ![s] = Count(@, 0, 1)]
  /\ UNCHANGED <<disk, Process, faults>>

(* The pcm write or the progress write raises; teardown finalizes.          *)
RecordFails(s) ==
  /\ Goto(s, {"recording", "counted"}, "closing")
  /\ Fault
  /\ UNCHANGED <<mem, disk, Process>>

(* The client disconnects or the session is torn down.                      *)
Disconnect(s) ==
  /\ Goto(s, {"recording"}, "closing")
  /\ UNCHANGED <<mem, disk, Process, faults>>

----------------------------------------------------------------------------
(* finalize: WAV, metadata, then the two parts are unlinked.                *)

(* _write_wav_atomic: the WAV appears complete or not at all.               *)
_write_wav_atomic(s) ==
  wav' = [wav EXCEPT ![s] = pcm[s]]

(* Mutant: the PCM part is unlinked as soon as the WAV is written.          *)
UnlinkWithWav(s) ==
  /\ Goto(s, {"closing"}, "wavDone")
  /\ _write_wav_atomic(s)
  /\ pcm' = [pcm EXCEPT ![s] = NoFile]
  /\ UNCHANGED <<mem, part, meta, Process, faults>>

FinalizeWav(s) ==
  /\ Goto(s, {"closing"}, "wavDone")
  /\ _write_wav_atomic(s)
  /\ UNCHANGED <<mem, pcm, part, meta, Process, faults>>

(* Mutant: the final metadata is a copy of the progress metadata.           *)
MetaFromProgress(s) ==
  /\ Goto(s, {"wavDone"}, "metaDone")
  /\ meta' = [meta EXCEPT ![s] = [part[s] EXCEPT !.status = "completed"]]
  /\ UNCHANGED <<mem, pcm, part, wav, Process, faults>>

FinalizeMeta(s) ==
  /\ Goto(s, {"wavDone"}, "metaDone")
  /\ meta' = [meta EXCEPT ![s] =
       _capture_metadata("completed", mem[s].frames, mem[s].bytes, mem[s].errors)]
  /\ UNCHANGED <<mem, pcm, part, wav, Process, faults>>

FinalizeUnlinkPcm(s) ==
  /\ Goto(s, {"metaDone"}, "pcmGone")
  /\ pcm' = [pcm EXCEPT ![s] = NoFile]
  /\ UNCHANGED <<mem, part, wav, meta, Process, faults>>

FinalizeUnlinkPart(s) ==
  /\ Goto(s, {"pcmGone"}, "idle")
  /\ part' = [part EXCEPT ![s] = NoMeta]
  /\ UNCHANGED <<mem, pcm, wav, meta, Process, faults>>

(* Any step of finalize raises; the runtime only logs it.                   *)
FinalizeFails(s) ==
  /\ Goto(s, Finalizing, "idle")
  /\ Fault
  /\ UNCHANGED <<mem, disk, Process>>

----------------------------------------------------------------------------
(* The backend process and its startup recovery.                            *)

(* The process dies: nothing in memory survives it, the files do.  mem is   *)
(* kept as the record of what each session had received.                    *)
Crash ==
  /\ backend # "down"
  /\ Fault
  /\ backend' = "down"
  /\ pc' = [s \in Sessions |-> IF pc[s] = "absent" THEN "absent" ELSE "idle"]
  /\ todo' = {}
  /\ failed' = {}
  /\ UNCHANGED <<mem, disk>>

(* recover_offline_audio_captures lists the leftover PCM parts once.        *)
Restart ==
  /\ backend = "down"
  /\ backend' = "recovering"
  /\ todo' = {s \in Sessions : pcm[s] # NoFile}
  /\ failed' = {}
  /\ UNCHANGED <<pc, mem, disk, faults>>

(* The loop takes one part at a time.                                       *)
NoneInRecovery == \A s \in Sessions : pc[s] \notin Recovering

(* What _recover_one requires of the files before it touches them.          *)
Acceptable(s) ==
  /\ part[s] # NoMeta
  /\ pcm[s] % OUTPUT_SAMPLE_WIDTH_BYTES = 0

RecoverStart(s) ==
  /\ backend = "recovering"
  /\ s \in todo
  /\ NoneInRecovery
  /\ Acceptable(s)
  /\ pc' = [pc EXCEPT ![s] = "rWav"]
  /\ UNCHANGED <<mem, disk, Process, faults>>

(* One part is done with, for better or worse; the loop goes on.            *)
Visited(s, ok) ==
  /\ pc' = [pc EXCEPT ![s] = "idle"]
  /\ todo' = todo \ {s}
  /\ failed' = IF ok THEN failed ELSE failed \cup {s}
  /\ UNCHANGED backend

(* Mutant: an unacceptable part ends the whole recovery loop.               *)
RejectEndsLoop(s) ==
  /\ backend = "recovering"
  /\ s \in todo
  /\ NoneInRecovery
  /\ ~Acceptable(s)
  /\ todo' = {}
  /\ failed' = failed \cup {s}
  /\ UNCHANGED <<pc, mem, disk, backend, faults>>

RecoverReject(s) ==
  /\ backend = "recovering"
  /\ s \in todo
  /\ NoneInRecovery
  /\ ~Acceptable(s)
  /\ Visited(s, FALSE)
  /\ UNCHANGED <<mem, disk, faults>>

RecoverWav(s) ==
  /\ Goto(s, {"rWav"}, "rMeta")
  /\ _write_wav_atomic(s)
  /\ UNCHANGED <<mem, pcm, part, meta, Process, faults>>

(* Mutant: the byte count too is taken from the progress metadata.          *)
BytesFromProgress(s) ==
  /\ Goto(s, {"rMeta"}, "rPcm")
  /\ meta' = [meta EXCEPT ![s] = [part[s] EXCEPT !.status = "recovered"]]
  /\ UNCHANGED <<mem, pcm, part, wav, Process, faults>>

(* Byte count from the PCM part itself, frame counters from the last        *)
(* progress metadata that reached the disk.                                 *)
RecoverMeta(s) ==
  /\ Goto(s, {"rMeta"}, "rPcm")
  /\ meta' = [meta EXCEPT ![s] =
       _capture_metadata("recovered", part[s].frames, pcm[s], part[s].errors)]
  /\ UNCHANGED <<mem, pcm, part, wav, Process, faults>>

RecoverUnlinkPcm(s) ==
  /\ Goto(s, {"rPcm"}, "rPart")
  /\ pcm' = [pcm EXCEPT ![s] = NoFile]
  /\ UNCHANGED <<mem, part, wav, meta, Process, faults>>

RecoverUnlinkPart(s) ==
  /\ pc[s] = "rPart"
  /\ part' = [part EXCEPT ![s] = NoMeta]
  /\ Visited(s, TRUE)
  /\ UNCHANGED <<mem, pcm, wav, meta, faults>>

(* Any step of _recover_one raises: counted as failed, the loop goes on.    *)
RecoverFails(s) ==
  /\ pc[s] \in Recovering
  /\ Fault
  /\ Visited(s, FALSE)
  /\ UNCHANGED <<mem, disk>>

(* startup_event returns and the backend begins to serve.                   *)
Serve ==
  /\ backend = "recovering"
  /\ todo = {}
  /\ backend' = "up"
  /\ UNCHANGED <<pc, mem, disk, todo, failed, faults>>

----------------------------------------------------------------------------
Begin(s) == Mkdir(s) \/ OpenPcm(s) \/ _write_progress_metadata(s)

Record(s) ==
  \/ \E n \in FrameSizes : record_decoded_frame(s, n)
  \/ record_decode_error(s)

Finalize(s) ==
  \/ FinalizeWav(s) \/ FinalizeMeta(s)
  \/ FinalizeUnlinkPcm(s) \/ FinalizeUnlinkPart(s)

Recover(s) ==
  \/ RecoverStart(s) \/ RecoverReject(s)
  \/ RecoverWav(s) \/ RecoverMeta(s)
  \/ RecoverUnlinkPcm(s) \/ RecoverUnlinkPart(s)

Raise(s) ==
  \/ StartFails(s) \/ RejectFrame(s) \/ RecordFails(s)
  \/ FinalizeFails(s) \/ RecoverFails(s)

SessionStep(s) ==
  Begin(s) \/ Record(s) \/ Disconnect(s) \/ Finalize(s) \/ Recover(s) \/ Raise(s)

Next ==
  \/ \E s \in Sessions : SessionStep(s)
  \/ Crash \/ Restart \/ Serve

Spec == Init /\ [][Next]_vars

(* A running session eventually disconnects and its finalize runs on; the   *)
(* user starts the backend again after it went down and startup runs on.    *)
Fairness ==
  /\ \A s \in Sessions :
       /\ WF_vars(OpenPcm(s) \/ _write_progress_metadata(s))
       /\ WF_vars(Disconnect(s))
       /\ WF_vars(Finalize(s))
       /\ WF_vars(Recover(s))
  /\ WF_vars(Restart)
  /\ WF_vars(Serve)

FairSpec == Spec /\ Fairness

----------------------------------------------------------------------------
(* What the readers of the archive can see.                                 *)

(* The gate of the archive's readers (local_stt_watch.py, local_library.py, *)
(* local_library_delete.py): WAV and metadata are there and the PCM part is *)
(* gone.  inspect_audio of local_stt.py looks at the status and the PCM     *)
(* part only if there is metadata: the watcher comes to it with a recording *)
(* that has passed the gate, but a path given by hand need not have.        *)
Published(s) == wav[s] # NoFile /\ meta[s] # NoMeta /\ pcm[s] = NoFile

(* ... and the readers further require the status "completed".              *)
Admitted(s) == Published(s) /\ meta[s].status = "completed"

(* A leftover that startup recovery accepts.                                *)
Leftover(s) == pcm[s] # NoFile /\ Acceptable(s)

(* Every variable holds a value of its kind. *)
TypeOK ==
  /\ pc \in [Sessions -> PCs]
  /\ mem \in [Sessions -> Counters]
  /\ pcm \in [Sessions -> Nat \cup {NoFile}]
  /\ part \in [Sessions -> Metadata]
  /\ wav \in [Sessions -> Nat \cup {NoFile}]
  /\ meta \in [Sessions -> Metadata]
  /\ backend \in {"down", "recovering", "up"}
  /\ todo \in SUBSET Sessions
  /\ failed \in SUBSET Sessions
  /\ faults \in 0..MaxFaults

(* Whatever crashes and I/O errors happen between the file steps of the     *)
(* constructor, finalize and _recover_one, every byte a session received is *)
(* at any time in the PCM part or in a WAV that is published.               *)
NoAudioLost ==
  \A s \in Sessions : mem[s].bytes > 0 =>
    \/ pcm[s] = mem[s].bytes
    \/ Published(s) /\ wav[s] = mem[s].bytes

(* A recording the readers' gate admits holds all the audio that was        *)
(* received, and its metadata states exactly the bytes, frames and decode   *)
(* errors of the session: a demotion to "recovered" or a second WAV write   *)
(* is never seen half done.                                                 *)
AdmittedIsWhole ==
  \A s \in Sessions : Admitted(s) =>
    /\ wav[s] = mem[s].bytes
    /\ meta[s] = _capture_metadata("completed", mem[s].frames, mem[s].bytes, mem[s].errors)

(* A recovered recording has the exact byte count, and its frame and error  *)
(* counters miss at most the one frame whose progress write was cut off.    *)
RecoveredAccount ==
  \A s \in Sessions : Published(s) /\ meta[s].status = "recovered" =>
    /\ meta[s].bytes = wav[s] /\ wav[s] = mem[s].bytes
    /\ meta[s].frames \in {mem[s].frames - 1, mem[s].frames}
    /\ meta[s].errors \in {mem[s].errors - 1, mem[s].errors}

(* Once a recording is published no step changes its WAV or its metadata:   *)
(* neither a later recovery pass nor a late finalize rewrites it.           *)
PublishedIsFinal ==
  [][\A s \in Sessions : Published(s) =>
       Published(s)' /\ wav'[s] = wav[s] /\ meta'[s] = meta[s]]_vars

(* The backend begins to serve only after every leftover PCM part was       *)
(* either recovered or counted as failed: no part is skipped because an     *)
(* earlier one of the loop raised.                                          *)
StartupAccounts ==
  [][backend = "recovering" /\ backend' = "up" =>
       \A s \in Sessions : pcm[s] # NoFile => s \in failed]_vars

(* After the process died, every leftover that recovery accepts is          *)
(* published or reported as failed by a later startup, whatever happens to  *)
(* the other leftovers.                                                     *)
LeftoversAreRecovered ==
  \A s \in Sessions :
    (backend = "down" /\ Leftover(s)) ~> (Published(s) \/ s \in failed)

(* The archive as its readers see it. *)
Entry(s) ==
  IF Published(s)
    THEN [label |-> meta[s].status, audio |-> wav[s],
          frames |-> meta[s].frames, errors |-> meta[s].errors]
    ELSE [label |-> "none", audio |-> 0, frames |-> 0, errors |-> 0]

Shown == [s \in Sessions |-> Entry(s)]

Promise == INSTANCE Archive WITH heard <- mem, shown <- Shown

(* Through the readers' gate the whole file protocol, crashes, restarts and *)
(* recovery included, looks like the one-step publication of Archive: the   *)
(* unlink of the PCM part is the instant a recording appears.               *)
ImplementsArchive == Promise!Spec
=============================================================================
