---------------------------- MODULE Transcripts ----------------------------
(***************************************************************************)
(* Transcription, import and deletion of finished recordings, which share  *)
(* the lock file local-transcripts/.lock:                                  *)
(*   - transcribe (dev_harness/local_stt.py), run by the queue worker and  *)
(*     by the command line, with its import child                          *)
(*     (backend/scripts/import_local_transcript.py);                       *)
(*   - delete_recording (dev_harness/local_library_delete.py), run by the  *)
(*     library server, with its database child                             *)
(*     (backend/scripts/delete_local_recording.py).                        *)
(*                                                                         *)
(* A recording is represented by the digest of its WAV, a transcript       *)
(* folder and its conversation by the pair of digest and engine profile    *)
(* that result_key and the conversation id are hashes of.  A finished      *)
(* recording appears in one step, as Archive promises.                     *)
(***************************************************************************)
EXTENDS Integers

CONSTANTS
  Recordings,   \* capture directories
  Digests,      \* SHA-256 values of WAV files
  Content,      \* Content[r]: the digest of recording r's WAV
  Profiles,     \* engine profiles
  Procs,        \* processes that may run transcribe
  Faults,       \* which hard stops happen, see KillImporting and RmtreeStops
  NoLock, Deleter, Preview   \* the lock's other values

ASSUME TranscriptsAssumption ==
  /\ Content \in [Recordings -> Digests]
  /\ Faults \subseteq {"orphanImport", "rmtreeStops"}
  /\ NoLock \notin Procs \cup {Deleter, Preview}
  /\ Deleter \notin Procs \cup {Preview}
  /\ Preview \notin Procs

(* The result keys: the digest of the audio with the profile.               *)
Keys == Digests \X Profiles

VARIABLES
  cap,        \* cap[r]: what is left of capture r on disk
  manifest,   \* the keys whose folder holds manifest.json
  raw,        \* raw[k]: audio.json in k's folder
  conv,       \* conv[k]: the conversation in the local database
  lock,       \* who holds the flock on .lock
  pc, rec, key,      \* transcriber p: place, recording, result key
  dpc, drec, dkeys, dshared,  \* deleter: place, recording, folders, copy found
  copies,     \* copies of the deleted audio that were there when it took the lock
  orphans     \* keys being imported by a child whose parent was killed

fileVars == <<cap, manifest, raw>>
trVars == <<pc, rec, key>>
delVars == <<dpc, drec, dkeys, dshared, copies>>
vars == <<fileVars, conv, lock, trVars, delVars, orphans>>

(* Recordings with an audio.wav; only the finished ones have metadata of    *)
(* status "completed".                                                      *)
HasWav(r) == cap[r] \in {"finished", "recovered"}

Twins(r) == {c \in Recordings \ {r} : HasWav(c) /\ Content[c] = Content[r]}

KeysOf(d) == {k \in Keys : k[1] = d}

Holding == {"locked", "prepared", "running", "have", "committed"}
DelHolding == {"locked", "scanned", "database", "files", "audio", "metadata"}

Init ==
  /\ cap = [r \in Recordings |-> "absent"]
  /\ manifest = {}
  /\ raw = [k \in Keys |-> "none"]
  /\ conv = [k \in Keys |-> "none"]
  /\ lock = NoLock
  /\ pc = [p \in Procs |-> "idle"]
  /\ rec \in [Procs -> Recordings]
  /\ key \in [Procs -> Keys]
  /\ dpc = "idle"
  /\ drec \in Recordings
  /\ dkeys = {}
  /\ dshared = FALSE
  /\ copies = {}
  /\ orphans = {}

----------------------------------------------------------------------------
(* The environment: captures, the phone app, the preview server.            *)

(* A capture is published, or recovered after a crash (module Capture).     *)
Appear(r) ==
  /\ cap[r] = "absent"
  /\ \E c \in {"finished", "recovered"} : cap' = [cap EXCEPT ![r] = c]
  /\ UNCHANGED <<manifest, raw, conv, lock, trVars, delVars, orphans>>

(* The owner edits a conversation in the app ...                            *)
Edit(k) ==
  /\ conv[k] = "imported"
  /\ conv' = [conv EXCEPT ![k] = "edited"]
  /\ UNCHANGED <<fileVars, lock, trVars, delVars, orphans>>

(* ... or it is lost with the emulator's state.                             *)
Lose(k) ==
  /\ conv[k] # "none"
  /\ conv' = [conv EXCEPT ![k] = "none"]
  /\ UNCHANGED <<fileVars, lock, trVars, delVars, orphans>>

(* The live preview server takes and releases the same lock.                *)
PreviewTakes ==
  /\ lock = NoLock
  /\ lock' = Preview
  /\ UNCHANGED <<fileVars, conv, trVars, delVars, orphans>>

PreviewReleases ==
  /\ lock = Preview
  /\ lock' = NoLock
  /\ UNCHANGED <<fileVars, conv, trVars, delVars, orphans>>

----------------------------------------------------------------------------
(* transcribe, process p.                                                   *)

At(p, from, to) ==
  /\ pc[p] = from
  /\ pc' = [pc EXCEPT ![p] = to]
  /\ UNCHANGED <<rec, key>>

(* Return or raise: leaving the with block closes the lock file.            *)
Release(p, from) ==
  /\ At(p, from, "idle")
  /\ lock' = NoLock

(* inspect_audio and the result key, before the lock is asked for.          *)
Inspect(p, r, f) ==
  /\ pc[p] = "idle"
  /\ cap[r] = "finished"
  /\ pc' = [pc EXCEPT ![p] = "inspected"]
  /\ rec' = [rec EXCEPT ![p] = r]
  /\ key' = [key EXCEPT ![p] = <<Content[r], f>>]
  /\ UNCHANGED <<fileVars, conv, lock, delVars, orphans>>

(* backend_step without a folder: a database read that may fail.            *)
Preflight(p) ==
  /\ At(p, "inspected", "ready")
  /\ UNCHANGED <<fileVars, conv, lock, delVars, orphans>>

PreflightFails(p) ==
  /\ At(p, "inspected", "idle")
  /\ UNCHANGED <<fileVars, conv, lock, delVars, orphans>>

(* Mutant: the lock is a shared one.                                        *)
LockShared(p) ==
  /\ At(p, "ready", "locked")
  /\ lock \in Procs \cup {NoLock}
  /\ lock' = p
  /\ UNCHANGED <<fileVars, conv, delVars, orphans>>

Lock(p) ==
  /\ At(p, "ready", "locked")
  /\ lock = NoLock
  /\ lock' = p
  /\ UNCHANGED <<fileVars, conv, delVars, orphans>>

TranscriptionBusy(p) ==
  /\ At(p, "ready", "idle")
  /\ lock # NoLock
  /\ UNCHANGED <<fileVars, conv, lock, delVars, orphans>>

(* An existing manifest of this key has this digest and profile.            *)
WriteManifest(p) ==
  /\ At(p, "locked", "prepared")
  /\ manifest' = manifest \cup {key[p]}
  /\ UNCHANGED <<cap, raw, conv, lock, delVars, orphans>>

ReuseRaw(p) ==
  /\ At(p, "prepared", "have")
  /\ raw[key[p]] # "none"
  /\ UNCHANGED <<fileVars, conv, lock, delVars, orphans>>

(* Mutant: the model runs on what was inspected before the lock was taken.  *)
StartFromInspected(p) ==
  /\ At(p, "prepared", "running")
  /\ raw[key[p]] = "none"
  /\ UNCHANGED <<fileVars, conv, lock, delVars, orphans>>

(* No result is there: the adapter copies the WAV, checks its digest and    *)
(* starts the model.                                                        *)
StartModel(p) ==
  /\ At(p, "prepared", "running")
  /\ raw[key[p]] = "none"
  /\ HasWav(rec[p])
  /\ UNCHANGED <<fileVars, conv, lock, delVars, orphans>>

(* Minutes later the adapter returns speech, no speech, or segments the     *)
(* import rejects, and the result is written without another look.          *)
Infer(p) ==
  /\ At(p, "running", "have")
  /\ \E result \in {"speech", "silence", "rejected"} :
       raw' = [raw EXCEPT ![key[p]] = result]
  /\ UNCHANGED <<cap, manifest, conv, lock, delVars, orphans>>

(* The model fails, or the WAV was deleted since it was inspected.          *)
InferFails(p) ==
  /\ \/ raw[key[p]] = "none" /\ Release(p, "prepared")
     \/ Release(p, "running")
  /\ UNCHANGED <<fileVars, conv, delVars, orphans>>

(* Mutant: the exception leaves the lock file open.                         *)
NoSpeechKeepsLock(p) ==
  /\ raw[key[p]] = "silence"
  /\ At(p, "have", "idle")
  /\ UNCHANGED <<fileVars, conv, lock, delVars, orphans>>

NoSpeechDetected(p) ==
  /\ raw[key[p]] = "silence"
  /\ Release(p, "have")
  /\ UNCHANGED <<fileVars, conv, delVars, orphans>>

(* Mutant: an import overwrites the conversation that is there.             *)
Upsert(k) == conv' = [conv EXCEPT ![k] = "imported"]

(* create_completed_conversation(idempotent=True): create if absent.        *)
CreateIfAbsent(k) ==
  conv' = IF conv[k] = "none" THEN [conv EXCEPT ![k] = "imported"] ELSE conv

(* The import child reads manifest and raw, builds the conversation and     *)
(* creates it.                                                              *)
Import(p) ==
  /\ At(p, "have", "committed")
  /\ raw[key[p]] = "speech"
  /\ CreateIfAbsent(key[p])
  /\ UNCHANGED <<fileVars, lock, delVars, orphans>>

(* The child rejects the segments, cannot reach the database or times out.  *)
ImportFails(p) ==
  /\ raw[key[p]] # "silence"
  /\ Release(p, "have")
  /\ UNCHANGED <<fileVars, conv, delVars, orphans>>

(* The child reports back, or is killed by the timeout after it committed.  *)
Finish(p) ==
  /\ Release(p, "committed")
  /\ UNCHANGED <<fileVars, conv, delVars, orphans>>

(* The transcriber dies at any point; the kernel drops its flock.           *)
Kill(p) ==
  /\ pc[p] # "idle"
  /\ pc' = [pc EXCEPT ![p] = "idle"]
  /\ lock' = IF lock = p THEN NoLock ELSE lock
  /\ UNCHANGED <<fileVars, conv, rec, key, delVars, orphans>>

(* SIGKILL on the transcriber alone: its import child, which has read the   *)
(* folder and does not inherit the lock, lives on.                          *)
KillImporting(p) ==
  /\ "orphanImport" \in Faults
  /\ pc[p] = "have"
  /\ raw[key[p]] = "speech"
  /\ Release(p, "have")
  /\ orphans' = orphans \cup {key[p]}
  /\ UNCHANGED <<fileVars, conv, delVars>>

OrphanCommits(k) ==
  /\ k \in orphans
  /\ orphans' = orphans \ {k}
  /\ CreateIfAbsent(k)
  /\ UNCHANGED <<fileVars, lock, trVars, delVars>>

----------------------------------------------------------------------------
(* delete_recording, one at a time under the library's own lock.            *)

DelGoto(from, to) ==
  /\ dpc = from
  /\ dpc' = to

(* Only a finished recording, checked before the lock is asked for.         *)
DelCheck(r) ==
  /\ DelGoto("idle", "checked")
  /\ cap[r] = "finished"
  /\ drec' = r
  /\ UNCHANGED <<fileVars, conv, lock, trVars, dkeys, dshared, copies, orphans>>

DelLock ==
  /\ DelGoto("checked", "locked")
  /\ lock = NoLock
  /\ lock' = Deleter
  /\ copies' = Twins(drec)
  /\ UNCHANGED <<fileVars, conv, trVars, drec, dkeys, dshared, orphans>>

DelBusy ==
  /\ DelGoto("checked", "idle")
  /\ lock # NoLock
  /\ UNCHANGED <<fileVars, conv, lock, trVars, drec, dkeys, dshared, copies, orphans>>

(* The folders whose manifest names this digest.                            *)
DelScan ==
  /\ DelGoto("locked", "scanned")
  /\ dkeys' = manifest \cap KeysOf(Content[drec])
  /\ UNCHANGED <<fileVars, conv, lock, trVars, drec, dshared, copies, orphans>>

(* Mutant: only copies with completed metadata count.                       *)
DelSharedCompleted ==
  /\ dpc = "scanned"
  /\ dshared' = (\E c \in Twins(drec) : cap[c] = "finished")
  /\ dpc' = IF dshared' THEN "audio" ELSE "database"
  /\ UNCHANGED <<fileVars, conv, lock, trVars, drec, dkeys, copies, orphans>>

(* Another WAV with the same digest keeps the shared transcript.            *)
DelShared ==
  /\ dpc = "scanned"
  /\ dshared' = (Twins(drec) # {})
  /\ dpc' = IF dshared' THEN "audio" ELSE "database"
  /\ UNCHANGED <<fileVars, conv, lock, trVars, drec, dkeys, copies, orphans>>

(* delete_linked_conversations, one conversation after the other.           *)
DelConversation(k) ==
  /\ dpc = "database"
  /\ k \in dkeys
  /\ conv[k] # "none"
  /\ conv' = [conv EXCEPT ![k] = "none"]
  /\ UNCHANGED <<fileVars, lock, trVars, delVars, orphans>>

(* Mutant: the files go without a verified database deletion.               *)
DelDatabaseUnverified ==
  /\ DelGoto("database", "files")
  /\ UNCHANGED <<fileVars, conv, lock, trVars, drec, dkeys, dshared, copies, orphans>>

DelDatabaseDone ==
  /\ DelGoto("database", "files")
  /\ \A k \in dkeys : conv[k] = "none"
  /\ UNCHANGED <<fileVars, conv, lock, trVars, drec, dkeys, dshared, copies, orphans>>

Rmtree(k) ==
  /\ dpc = "files"
  /\ k \in dkeys
  /\ manifest' = manifest \ {k}
  /\ raw' = [raw EXCEPT ![k] = "none"]
  /\ dkeys' = dkeys \ {k}
  /\ UNCHANGED <<cap, conv, lock, trVars, dpc, drec, dshared, copies, orphans>>

DelFoldersDone ==
  /\ DelGoto("files", "audio")
  /\ dkeys = {}
  /\ UNCHANGED <<fileVars, conv, lock, trVars, drec, dkeys, dshared, copies, orphans>>

DelAudio ==
  /\ DelGoto("audio", "metadata")
  /\ cap' = [cap EXCEPT ![drec] = "wavGone"]
  /\ UNCHANGED <<manifest, raw, conv, lock, trVars, drec, dkeys, dshared, copies, orphans>>

DelReturn ==
  /\ dpc' = "idle"
  /\ lock' = NoLock
  /\ dkeys' = {}
  /\ copies' = {}
  /\ UNCHANGED <<drec, dshared, trVars, orphans>>

DelMetadata ==
  /\ dpc = "metadata"
  /\ cap' = [cap EXCEPT ![drec] = "deleted"]
  /\ DelReturn
  /\ UNCHANGED <<manifest, raw, conv>>

(* A database error, an I/O error or a crash ends the deletion between two  *)
(* of its steps.                                                            *)
DelStops ==
  /\ dpc \in DelHolding
  /\ DelReturn
  /\ UNCHANGED <<fileVars, conv>>

(* ... or inside rmtree, which removes the files of a folder one by one.    *)
RmtreeStops(k) ==
  /\ "rmtreeStops" \in Faults
  /\ dpc = "files"
  /\ k \in dkeys
  /\ \/ manifest' = manifest \ {k} /\ UNCHANGED raw
     \/ raw' = [raw EXCEPT ![k] = "none"] /\ UNCHANGED manifest
  /\ DelReturn
  /\ UNCHANGED <<cap, conv>>

----------------------------------------------------------------------------
Environment ==
  \/ \E r \in Recordings : Appear(r)
  \/ \E k \in Keys : Edit(k) \/ Lose(k)
  \/ PreviewTakes \/ PreviewReleases

transcribe(p) ==
  \/ \E r \in Recordings, f \in Profiles : Inspect(p, r, f)
  \/ Preflight(p) \/ PreflightFails(p)
  \/ Lock(p) \/ TranscriptionBusy(p)
  \/ WriteManifest(p) \/ ReuseRaw(p) \/ StartModel(p) \/ Infer(p) \/ InferFails(p)
  \/ NoSpeechDetected(p)
  \/ Import(p) \/ ImportFails(p) \/ Finish(p)

Stopped ==
  \/ \E p \in Procs : Kill(p) \/ KillImporting(p)
  \/ \E k \in Keys : OrphanCommits(k)

delete_recording ==
  \/ \E r \in Recordings : DelCheck(r)
  \/ DelLock \/ DelBusy \/ DelScan \/ DelShared
  \/ \E k \in Keys : DelConversation(k) \/ Rmtree(k) \/ RmtreeStops(k)
  \/ DelDatabaseDone \/ DelFoldersDone \/ DelAudio \/ DelMetadata
  \/ DelStops

Next ==
  \/ Environment
  \/ \E p \in Procs : transcribe(p)
  \/ Stopped
  \/ delete_recording

Spec == Init /\ [][Next]_vars

(* A process that holds the lock runs on: model and import calls end, by    *)
(* their timeouts if need be, and a preview session ends with its socket.   *)
Progress(p) ==
  \/ WriteManifest(p) \/ ReuseRaw(p) \/ StartModel(p) \/ Infer(p) \/ InferFails(p)
  \/ NoSpeechDetected(p) \/ Import(p) \/ ImportFails(p) \/ Finish(p)

DelProgress ==
  \/ DelScan \/ DelShared
  \/ \E k \in Keys : DelConversation(k) \/ Rmtree(k)
  \/ DelDatabaseDone \/ DelFoldersDone \/ DelAudio \/ DelMetadata

Fairness ==
  /\ \A p \in Procs : WF_vars(Progress(p))
  /\ WF_vars(DelProgress)
  /\ WF_vars(PreviewReleases)

FairSpec == Spec /\ Fairness

----------------------------------------------------------------------------
(* Every variable holds a value of its kind. *)
TypeOK ==
  /\ cap \in [Recordings -> {"absent", "finished", "recovered", "wavGone", "deleted"}]
  /\ manifest \in SUBSET Keys
  /\ raw \in [Keys -> {"none", "speech", "silence", "rejected"}]
  /\ conv \in [Keys -> {"none", "imported", "edited"}]
  /\ lock \in Procs \cup {NoLock, Deleter, Preview}
  /\ pc \in [Procs -> {"idle", "inspected", "ready"} \cup Holding]
  /\ rec \in [Procs -> Recordings]
  /\ key \in [Procs -> Keys]
  /\ dpc \in {"idle", "checked"} \cup DelHolding
  /\ drec \in Recordings
  /\ dkeys \in SUBSET Keys
  /\ dshared \in BOOLEAN
  /\ copies \in SUBSET Recordings
  /\ orphans \in SUBSET Keys

(* The replay source of every conversation, its manifest and raw result, is *)
(* on disk as long as the conversation is in the database: neither a        *)
(* deletion that stops half way nor a second transcriber takes it away, so  *)
(* a lost database can be rebuilt and a deletion can be retried.            *)
ReplaySource ==
  \A k \in Keys : conv[k] # "none" => k \in manifest /\ raw[k] = "speech"

(* A transcript or a conversation exists only while a WAV with its audio    *)
(* does: deletion removes both with the last copy, and a transcriber that   *)
(* inspected the WAV before it was deleted brings neither back.             *)
NothingOutlivesAudio ==
  \A k \in Keys : raw[k] # "none" \/ conv[k] # "none" =>
    \E r \in Recordings : HasWav(r) /\ Content[r] = k[1]

(* Deleting one copy of an audio removes no transcript and no conversation  *)
(* while another copy was there when the deletion took the lock.            *)
SharedIsKept ==
  [][lock = Deleter /\ copies # {} =>
       manifest' = manifest /\ raw' = raw /\ dpc # "database"]_vars

(* No repeated import, from a retry, a second transcriber or a child whose  *)
(* parent died, overwrites what the owner edited.                           *)
EditsPreserved ==
  [][\A k \in Keys : conv[k] = "edited" => conv'[k] # "imported"]_vars

(* Two transcribers that both found no result, or a retry beside a run that *)
(* is still at it, never write over each other: a saved result stays what   *)
(* it is until a deletion removes it, although the write does not look.     *)
ResultIsReused ==
  [][\A k \in Keys : raw[k] # "none" /\ raw'[k] # "none" => raw'[k] = raw[k]]_vars

(* Whoever takes the lock gives it back, also on every error path.          *)
LockIsReleased == lock # NoLock ~> lock = NoLock
=============================================================================
