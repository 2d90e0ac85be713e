--------------------------- MODULE CaptureProofs ---------------------------
(***************************************************************************)
(* Proofs about Capture for any set of sessions, any frame sizes and any   *)
(* bounds.  What is said about the audio itself assumes that a write       *)
(* stores the whole frame; types and the startup loop do without that.     *)
(***************************************************************************)
EXTENDS Capture, TLAPS

(* What the counters on disk may miss: the frame whose progress write is    *)
(* still to come or was cut off.                                            *)
Lags(s) ==
  /\ part[s].frames \in {mem[s].frames - 1, mem[s].frames}
  /\ part[s].errors \in {mem[s].errors - 1, mem[s].errors}

CompletedOf(s) ==
  _capture_metadata("completed", mem[s].frames, mem[s].bytes, mem[s].errors)

RecoveredOf(s) ==
  /\ meta[s].status = "recovered"
  /\ meta[s].bytes = mem[s].bytes
  /\ meta[s].frames \in {mem[s].frames - 1, mem[s].frames}
  /\ meta[s].errors \in {mem[s].errors - 1, mem[s].errors}

(* Before the PCM part is opened there is nothing of the session.           *)
Fresh(s) ==
  /\ mem[s].frames = 0 /\ mem[s].bytes = 0 /\ mem[s].errors = 0
  /\ part[s] = NoMeta /\ wav[s] = NoFile /\ meta[s] = NoMeta

(* The files as each place in the code leaves them.                         *)
FilesInv(s) ==
  /\ pc[s] \in {"absent", "made"} => Fresh(s) /\ pcm[s] = NoFile
  /\ pc[s] = "opened" => Fresh(s) /\ pcm[s] = 0
  /\ pc[s] = "recording" =>
       part[s].frames = mem[s].frames /\ part[s].errors = mem[s].errors
  /\ pc[s] \in {"recording", "counted", "closing", "wavDone", "metaDone",
                "rWav", "rMeta", "rPcm"} =>
       pcm[s] # NoFile /\ part[s] # NoMeta
  /\ pc[s] \in {"wavDone", "metaDone", "pcmGone", "rMeta", "rPcm", "rPart"} =>
       wav[s] = mem[s].bytes
  /\ pc[s] \in {"metaDone", "pcmGone"} => meta[s] = CompletedOf(s)
  /\ pc[s] \in {"rPcm", "rPart"} => RecoveredOf(s)
  /\ pc[s] \in {"pcmGone", "rPart"} => pcm[s] = NoFile

(* What holds of the files wherever the code stands.                        *)
AudioInv(s) ==
  /\ pcm[s] # NoFile => pcm[s] = mem[s].bytes
  /\ part[s] # NoMeta => Lags(s)
  /\ pcm[s] = NoFile /\ meta[s] # NoMeta =>
       /\ wav[s] = mem[s].bytes
       /\ meta[s] = CompletedOf(s) \/ RecoveredOf(s)
       /\ pc[s] \in {"idle", "pcmGone", "rPart"}
  /\ pcm[s] = NoFile /\ meta[s] = NoMeta => mem[s].bytes = 0

(* Which process may be working on a session.                               *)
ProcessInv(s) ==
  /\ pc[s] \in Live => backend = "up"
  /\ pc[s] \in Recovering => backend = "recovering" /\ s \in todo
  /\ s \in todo =>
       /\ backend = "recovering"
       /\ pc[s] \in {"idle"} \cup Recovering
       /\ pc[s] # "rPart" => pcm[s] # NoFile

Inv(s) == FilesInv(s) /\ AudioInv(s) /\ ProcessInv(s)

(* Where the code needs the PCM part it is there; before the open and       *)
(* behind the unlink it is not.                                             *)
PartInv(s) ==
  /\ pc[s] \in {"opened", "recording", "counted", "closing", "wavDone", "metaDone",
                "rWav", "rMeta", "rPcm"} => pcm[s] # NoFile
  /\ pc[s] \in {"absent", "made", "pcmGone", "rPart"} => pcm[s] = NoFile

(* While startup runs, every PCM part is still to be visited or was counted *)
(* as failed.                                                               *)
PassInv(s) ==
  backend = "recovering" /\ pcm[s] # NoFile => s \in todo \cup failed

(* What holds of a session even where a write may be short.                 *)
LoopInv == \A s \in Sessions : PartInv(s) /\ ProcessInv(s) /\ PassInv(s)

(* The inductive invariant, together with TypeOK.                           *)
SessionInv == \A s \in Sessions : Inv(s)

USE CaptureAssumption DEF PCs, Live, Finalizing, Recovering, Counters, Metadata, NoMeta,
  _capture_metadata, NoFile, Goto, Fault, Process, disk

(* A write stores a number of bytes. *)
LEMMA StoredIsCount ==
  ASSUME NEW n \in FrameSizes, NEW k \in Stored(n)
  PROVE  k \in Nat
BY CaptureAssumption DEF Stored

(* Every variable keeps a value of its kind; the counters recovery publishes *)
(* are numbers because the PCM part it reads is there.                       *)
LEMMA TypeStep ==
  ASSUME TypeOK, LoopInv, [Next]_vars
  PROVE  TypeOK'
<1>1. ASSUME NEW s \in Sessions, Begin(s) PROVE TypeOK'
  <2>1. CASE Mkdir(s)
    BY <2>1 DEF TypeOK, Mkdir
  <2>2. CASE OpenPcm(s)
    BY <2>2 DEF TypeOK, OpenPcm
  <2>3. CASE _write_progress_metadata(s)
    BY <2>3 DEF TypeOK, _write_progress_metadata, ProgressOf
  <2> QED
    BY <1>1, <2>1, <2>2, <2>3 DEF Begin
<1>2. ASSUME NEW s \in Sessions, Finalize(s) PROVE TypeOK'
  <2>1. CASE FinalizeWav(s)
    BY <2>1 DEF TypeOK, FinalizeWav, _write_wav_atomic
  <2>2. CASE FinalizeMeta(s)
    BY <2>2 DEF TypeOK, FinalizeMeta
  <2>3. CASE FinalizeUnlinkPcm(s)
    BY <2>3 DEF TypeOK, FinalizeUnlinkPcm
  <2>4. CASE FinalizeUnlinkPart(s)
    BY <2>4 DEF TypeOK, FinalizeUnlinkPart
  <2> QED
    BY <1>2, <2>1, <2>2, <2>3, <2>4 DEF Finalize
<1>3. ASSUME NEW s \in Sessions, Recover(s) PROVE TypeOK'
  <2>1. CASE RecoverStart(s)
    BY <2>1 DEF TypeOK, RecoverStart
  <2>2. CASE RecoverReject(s)
    BY <2>2 DEF TypeOK, RecoverReject, Visited
  <2>3. CASE RecoverWav(s)
    BY <2>3 DEF TypeOK, RecoverWav, _write_wav_atomic
  <2>4. CASE RecoverMeta(s)
    BY <2>4 DEF TypeOK, RecoverMeta, LoopInv, PartInv
  <2>5. CASE RecoverUnlinkPcm(s)
    BY <2>5 DEF TypeOK, RecoverUnlinkPcm
  <2>6. CASE RecoverUnlinkPart(s)
    BY <2>6 DEF TypeOK, RecoverUnlinkPart, Visited
  <2> QED
    BY <1>3, <2>1, <2>2, <2>3, <2>4, <2>5, <2>6 DEF Recover
<1>4. ASSUME NEW s \in Sessions, Raise(s) PROVE TypeOK'
  <2>1. CASE StartFails(s)
    BY <2>1 DEF TypeOK, StartFails
  <2>2. CASE RejectFrame(s)
    BY <2>2 DEF TypeOK, RejectFrame
  <2>3. CASE RecordFails(s)
    BY <2>3 DEF TypeOK, RecordFails
  <2>4. CASE FinalizeFails(s)
    BY <2>4 DEF TypeOK, FinalizeFails
  <2>5. CASE RecoverFails(s)
    BY <2>5 DEF TypeOK, RecoverFails, Visited
  <2> QED
    BY <1>4, <2>1, <2>2, <2>3, <2>4, <2>5 DEF Raise
<1>5. ASSUME NEW s \in Sessions, NEW n \in FrameSizes, record_decoded_frame(s, n)
      PROVE TypeOK'
  <2>1. PICK k \in Stored(n) : pcm' = [pcm EXCEPT ![s] = pcm[s] + k]
    BY <1>5 DEF record_decoded_frame
  <2>2. n \in Nat /\ k \in Nat
    BY StoredIsCount, CaptureAssumption
  <2> QED
    BY <1>5, <2>1, <2>2 DEF TypeOK, record_decoded_frame, Count, LoopInv, PartInv
<1>6. ASSUME NEW s \in Sessions, record_decode_error(s) PROVE TypeOK'
  BY <1>6 DEF TypeOK, record_decode_error, Count
<1>7. ASSUME NEW s \in Sessions, Record(s) PROVE TypeOK'
  BY <1>5, <1>6, <1>7 DEF Record
<1>8. ASSUME NEW s \in Sessions, Disconnect(s) PROVE TypeOK'
  BY <1>8 DEF TypeOK, Disconnect
<1>9. CASE Crash
  BY <1>9 DEF TypeOK, Crash
<1>10. CASE Restart
  BY <1>10 DEF TypeOK, Restart
<1>11. CASE Serve
  BY <1>11 DEF TypeOK, Serve
<1>12. CASE UNCHANGED vars
  BY <1>12 DEF TypeOK, vars
<1> QED
  BY <1>1, <1>2, <1>3, <1>4, <1>7, <1>8, <1>9, <1>10, <1>11, <1>12 DEF Next, SessionStep

(* A step of session s leaves everything of another session alone.          *)
LEMMA OthersUntouched ==
  ASSUME TypeOK, NEW s \in Sessions, SessionStep(s), NEW t \in Sessions \ {s}
  PROVE  /\ pc'[t] = pc[t] /\ mem'[t] = mem[t] /\ pcm'[t] = pcm[t]
         /\ part'[t] = part[t] /\ wav'[t] = wav[t] /\ meta'[t] = meta[t]
         /\ backend' = backend /\ (t \in todo' <=> t \in todo)
         /\ t \in failed => t \in failed'
<1> USE DEF TypeOK, Visited, _write_wav_atomic
<1>1. CASE Begin(s)
  BY <1>1 DEF Begin, Mkdir, OpenPcm, _write_progress_metadata
<1>2. CASE Record(s)
  BY <1>2 DEF Record, record_decoded_frame, record_decode_error
<1>3. CASE Disconnect(s)
  BY <1>3 DEF Disconnect
<1>4. CASE Finalize(s)
  BY <1>4 DEF Finalize, FinalizeWav, FinalizeMeta, FinalizeUnlinkPcm, FinalizeUnlinkPart
<1>5. CASE Recover(s)
  BY <1>5 DEF Recover, RecoverStart, RecoverReject, RecoverWav, RecoverMeta,
     RecoverUnlinkPcm, RecoverUnlinkPart
<1>6. CASE Raise(s)
  BY <1>6 DEF Raise, StartFails, RejectFrame, RecordFails, FinalizeFails, RecoverFails
<1> QED
  BY <1>1, <1>2, <1>3, <1>4, <1>5, <1>6 DEF SessionStep

(* A step of session s keeps what LoopInv says of it.                       *)
LEMMA OwnLoopStep ==
  ASSUME TypeOK, NEW s \in Sessions, PartInv(s), ProcessInv(s), PassInv(s), SessionStep(s)
  PROVE  (PartInv(s) /\ ProcessInv(s) /\ PassInv(s))'
<1> USE DEF TypeOK, PartInv, ProcessInv, PassInv, Visited, _write_wav_atomic
<1>1. CASE Begin(s)
  BY <1>1 DEF Begin, Mkdir, OpenPcm, _write_progress_metadata
<1>2. ASSUME NEW n \in FrameSizes, record_decoded_frame(s, n)
      PROVE  (PartInv(s) /\ ProcessInv(s) /\ PassInv(s))'
  <2>1. PICK k \in Stored(n) : pcm' = [pcm EXCEPT ![s] = pcm[s] + k]
    BY <1>2 DEF record_decoded_frame
  <2>2. pcm[s] \in Nat /\ pcm'[s] # NoFile
    BY <1>2, <2>1, StoredIsCount DEF record_decoded_frame
  <2> QED
    BY <1>2, <2>2 DEF record_decoded_frame
<1>3. CASE record_decode_error(s)
  BY <1>3 DEF record_decode_error
<1>4. CASE Disconnect(s)
  BY <1>4 DEF Disconnect
<1>5. CASE Finalize(s)
  BY <1>5 DEF Finalize, FinalizeWav, FinalizeMeta, FinalizeUnlinkPcm, FinalizeUnlinkPart
<1>6. CASE Recover(s)
  BY <1>6 DEF Recover, RecoverStart, RecoverReject, RecoverWav, RecoverMeta,
     RecoverUnlinkPcm, RecoverUnlinkPart, NoneInRecovery
<1>7. CASE Raise(s)
  BY <1>7 DEF Raise, StartFails, RejectFrame, RecordFails, FinalizeFails, RecoverFails
<1> QED
  BY <1>1, <1>2, <1>3, <1>4, <1>5, <1>6, <1>7
  DEF SessionStep, Record

(* LoopInv is inductive.                                                    *)
LEMMA LoopStep ==
  ASSUME TypeOK, LoopInv, [Next]_vars
  PROVE  LoopInv'
<1> SUFFICES ASSUME NEW t \in Sessions PROVE (PartInv(t) /\ ProcessInv(t) /\ PassInv(t))'
  BY DEF LoopInv
<1>0. PartInv(t) /\ ProcessInv(t) /\ PassInv(t)
  BY DEF LoopInv
<1> USE DEF PartInv, ProcessInv, PassInv
<1>1. ASSUME NEW s \in Sessions, SessionStep(s)
      PROVE  (PartInv(t) /\ ProcessInv(t) /\ PassInv(t))'
  <2>1. CASE t = s
    BY <1>0, <1>1, <2>1, OwnLoopStep
  <2>2. CASE t # s
    BY <1>0, <1>1, <2>2, OthersUntouched
  <2> QED
    BY <2>1, <2>2
<1>2. CASE Crash
  BY <1>0, <1>2 DEF TypeOK, Crash
<1>3. CASE Restart
  BY <1>0, <1>3 DEF TypeOK, Restart
<1>4. CASE Serve
  BY <1>0, <1>4 DEF TypeOK, Serve
<1>5. CASE UNCHANGED vars
  BY <1>0, <1>5 DEF vars
<1> QED
  BY <1>1, <1>2, <1>3, <1>4, <1>5 DEF Next

(* Types and LoopInv hold in every state, short writes included.            *)
THEOREM LoopInvariance == Spec => [](TypeOK /\ LoopInv)
<1>1. Init => TypeOK /\ LoopInv
  BY DEF Init, TypeOK, LoopInv, PartInv, ProcessInv, PassInv
<1>2. TypeOK /\ LoopInv /\ [Next]_vars => (TypeOK /\ LoopInv)'
  BY TypeStep, LoopStep
<1> QED
  BY <1>1, <1>2, PTL DEF Spec

(* The type invariant of Capture holds in every reachable state.            *)
THEOREM TypeCorrect == Spec => []TypeOK
BY LoopInvariance, PTL

(* Startup begins to serve only when each PCM part it found or that is left *)
(* was recovered or counted as failed, whichever of them raised and however *)
(* often startup itself was cut off.                                        *)
THEOREM StartupIsAccounted == Spec => StartupAccounts
<1>1. ASSUME TypeOK, LoopInv, [Next]_vars, backend = "recovering", backend' = "up",
             NEW s \in Sessions, pcm[s] # NoFile
      PROVE  s \in failed
  <2>1. ASSUME NEW t \in Sessions, SessionStep(t) PROVE backend' = backend
    <3> USE <2>1 DEF Visited
    <3>1. CASE Begin(t) \/ Record(t) \/ Disconnect(t)
      BY <3>1 DEF Begin, Mkdir, OpenPcm, _write_progress_metadata, Record,
         record_decoded_frame, record_decode_error, Disconnect
    <3>2. CASE Finalize(t)
      BY <3>2 DEF Finalize, FinalizeWav, FinalizeMeta, FinalizeUnlinkPcm, FinalizeUnlinkPart
    <3>3. CASE Recover(t)
      BY <3>3 DEF Recover, RecoverStart, RecoverReject, RecoverWav, RecoverMeta,
         RecoverUnlinkPcm, RecoverUnlinkPart
    <3>4. CASE Raise(t)
      BY <3>4 DEF Raise, StartFails, RejectFrame, RecordFails, FinalizeFails, RecoverFails
    <3> QED
      BY <3>1, <3>2, <3>3, <3>4 DEF SessionStep
  <2>2. Serve
    BY <1>1, <2>1 DEF Next, Crash, Restart, vars
  <2> QED
    BY <1>1, <2>2 DEF Serve, LoopInv, PassInv
<1>2. TypeOK /\ LoopInv /\ [Next]_vars =>
        [backend = "recovering" /\ backend' = "up" =>
           \A s \in Sessions : pcm[s] # NoFile => s \in failed]_vars
  BY <1>1
<1> QED
  BY <1>2, LoopInvariance, PTL DEF Spec, StartupAccounts

(* A step of session s keeps the session's own invariant.                   *)
LEMMA OwnStep ==
  ASSUME TypeOK, ~ShortWrites, NEW s \in Sessions, Inv(s), SessionStep(s)
  PROVE  Inv(s)'
<1> USE DEF TypeOK, Inv, FilesInv, AudioInv, ProcessInv, Fresh, Lags, CompletedOf,
        RecoveredOf, Visited, _write_wav_atomic
<1>1. CASE Begin(s)
  <2>1. CASE Mkdir(s)
    BY <2>1 DEF Mkdir
  <2>2. CASE OpenPcm(s)
    BY <2>2 DEF OpenPcm
  <2>3. CASE _write_progress_metadata(s)
    BY <2>3 DEF _write_progress_metadata, ProgressOf
  <2> QED
    BY <1>1, <2>1, <2>2, <2>3 DEF Begin
<1>2. CASE Record(s)
  <2>1. ASSUME NEW n \in FrameSizes, record_decoded_frame(s, n) PROVE Inv(s)'
    <3>1. /\ pc[s] = "recording" /\ pc'[s] = "counted"
          /\ pcm'[s] = pcm[s] + n
          /\ mem'[s].frames = mem[s].frames + 1
          /\ mem'[s].bytes = mem[s].bytes + n
          /\ mem'[s].errors = mem[s].errors
          /\ UNCHANGED <<part, wav, meta, backend, todo>>
          /\ n \in Nat /\ pcm[s] \in Nat
      BY <2>1 DEF record_decoded_frame, Stored, Count
    <3> QED
      BY <3>1
  <2>2. CASE record_decode_error(s)
    BY <2>2 DEF record_decode_error, Count
  <2> QED
    BY <1>2, <2>1, <2>2 DEF Record
<1>3. CASE Disconnect(s)
  BY <1>3 DEF Disconnect
<1>4. CASE Finalize(s)
  <2>1. CASE FinalizeWav(s)
    BY <2>1 DEF FinalizeWav
  <2>2. CASE FinalizeMeta(s)
    BY <2>2 DEF FinalizeMeta
  <2>3. CASE FinalizeUnlinkPcm(s)
    BY <2>3 DEF FinalizeUnlinkPcm
  <2>4. CASE FinalizeUnlinkPart(s)
    BY <2>4 DEF FinalizeUnlinkPart
  <2> QED
    BY <1>4, <2>1, <2>2, <2>3, <2>4 DEF Finalize
<1>5. CASE Recover(s)
  <2>1. CASE RecoverStart(s)
    BY <2>1 DEF RecoverStart, Acceptable, NoneInRecovery
  <2>2. CASE RecoverReject(s)
    BY <2>2 DEF RecoverReject, NoneInRecovery
  <2>3. CASE RecoverWav(s)
    BY <2>3 DEF RecoverWav
  <2>4. CASE RecoverMeta(s)
    BY <2>4 DEF RecoverMeta
  <2>5. CASE RecoverUnlinkPcm(s)
    BY <2>5 DEF RecoverUnlinkPcm
  <2>6. CASE RecoverUnlinkPart(s)
    BY <2>6 DEF RecoverUnlinkPart
  <2> QED
    BY <1>5, <2>1, <2>2, <2>3, <2>4, <2>5, <2>6 DEF Recover
<1>6. CASE Raise(s)
  <2>1. CASE StartFails(s)
    BY <2>1 DEF StartFails
  <2>2. CASE RejectFrame(s)
    BY <2>2 DEF RejectFrame
  <2>3. CASE RecordFails(s)
    BY <2>3 DEF RecordFails
  <2>4. CASE FinalizeFails(s)
    BY <2>4 DEF FinalizeFails
  <2>5. CASE RecoverFails(s)
    BY <2>5 DEF RecoverFails
  <2> QED
    BY <1>6, <2>1, <2>2, <2>3, <2>4, <2>5 DEF Raise
<1> QED
  BY <1>1, <1>2, <1>3, <1>4, <1>5, <1>6 DEF SessionStep

(* SessionInv is inductive.                                                 *)
LEMMA InvStep ==
  ASSUME TypeOK, ~ShortWrites, SessionInv, [Next]_vars
  PROVE  SessionInv'
<1> SUFFICES ASSUME NEW t \in Sessions PROVE Inv(t)'
  BY DEF SessionInv
<1>0. Inv(t)
  BY DEF SessionInv
<1> USE DEF Inv, FilesInv, AudioInv, ProcessInv, Fresh, Lags, CompletedOf, RecoveredOf
<1>1. ASSUME NEW s \in Sessions, SessionStep(s) PROVE Inv(t)'
  <2>1. CASE t = s
    BY <1>0, <1>1, <2>1, OwnStep
  <2>2. CASE t # s
    BY <1>0, <1>1, <2>2, OthersUntouched
  <2> QED
    BY <2>1, <2>2
<1>2. CASE Crash
  BY <1>0, <1>2 DEF TypeOK, Crash
<1>3. CASE Restart
  BY <1>0, <1>3 DEF TypeOK, Restart
<1>4. CASE Serve
  BY <1>0, <1>4 DEF TypeOK, Serve
<1>5. CASE UNCHANGED vars
  BY <1>0, <1>5 DEF vars
<1> QED
  BY <1>1, <1>2, <1>3, <1>4, <1>5 DEF Next

(* The type invariant and the session invariant hold in every state.        *)
THEOREM Invariance ==
  ASSUME ~ShortWrites
  PROVE  Spec => [](TypeOK /\ SessionInv)
<1>1. ASSUME Init PROVE SessionInv
  <2> SUFFICES ASSUME NEW s \in Sessions PROVE Inv(s)
    BY DEF SessionInv
  <2>1. /\ pc[s] = "absent" /\ pcm[s] = NoFile /\ wav[s] = NoFile /\ todo = {}
        /\ part[s] = NoMeta /\ meta[s] = NoMeta
        /\ mem[s].frames = 0 /\ mem[s].bytes = 0 /\ mem[s].errors = 0
    BY <1>1 DEF Init
  <2> QED
    BY <2>1 DEF Inv, FilesInv, AudioInv, ProcessInv, Fresh
<1>2. TypeOK /\ SessionInv /\ [Next]_vars => SessionInv'
  BY InvStep
<1> QED
  BY <1>1, <1>2, TypeCorrect, PTL DEF Spec

(* No crash or I/O error between the file steps of the constructor, of      *)
(* finalize or of _recover_one loses a byte that was received.              *)
THEOREM AudioIsKept ==
  ASSUME ~ShortWrites
  PROVE  Spec => []NoAudioLost
<1>1. TypeOK /\ SessionInv => NoAudioLost
  BY DEF TypeOK, SessionInv, Inv, AudioInv, NoAudioLost, Published
<1> QED
  BY <1>1, Invariance, PTL

(* What the readers' gate admits is whole and exactly described.            *)
THEOREM AdmissionIsExact ==
  ASSUME ~ShortWrites
  PROVE  Spec => []AdmittedIsWhole
<1>1. TypeOK /\ SessionInv => AdmittedIsWhole
  BY DEF TypeOK, SessionInv, Inv, AudioInv, CompletedOf, RecoveredOf,
     AdmittedIsWhole, Admitted, Published
<1> QED
  BY <1>1, Invariance, PTL

(* A recovered recording is exact in its audio and misses at most one frame *)
(* in its counters.                                                         *)
THEOREM RecoveryIsExact ==
  ASSUME ~ShortWrites
  PROVE  Spec => []RecoveredAccount
<1>1. TypeOK /\ SessionInv => RecoveredAccount
  BY DEF TypeOK, SessionInv, Inv, AudioInv, CompletedOf, RecoveredOf,
     RecoveredAccount, Published
<1> QED
  BY <1>1, Invariance, PTL

(* A step by which a published session s stays as it is.                    *)
Kept(s) == Published(s)' /\ wav'[s] = wav[s] /\ meta'[s] = meta[s]

(* No step of any session, of startup or of a crash undoes a publication.   *)
LEMMA PublishedStays ==
  ASSUME TypeOK, SessionInv, [Next]_vars, NEW s \in Sessions, Published(s)
  PROVE  Kept(s)
<1> USE DEF Published, Kept
<1>1. /\ pc[s] \in {"idle", "pcmGone", "rPart"}
      /\ s \in todo => pc[s] = "rPart"
  BY DEF SessionInv, Inv, AudioInv, ProcessInv
<1>2. ASSUME NEW t \in Sessions, SessionStep(t) PROVE Kept(s)
  <2>1. CASE t # s
    BY <1>2, <2>1, OthersUntouched
  <2>2. CASE t = s
    <3> USE DEF TypeOK, Visited, _write_wav_atomic
    <3>1. CASE Begin(s)
      BY <1>1, <3>1 DEF Begin, Mkdir, OpenPcm, _write_progress_metadata
    <3>2. CASE Record(s) \/ Disconnect(s)
      BY <1>1, <3>2 DEF Record, record_decoded_frame, record_decode_error,
         Disconnect
    <3>3. CASE Finalize(s)
      BY <1>1, <3>3 DEF Finalize, FinalizeWav, FinalizeMeta, FinalizeUnlinkPcm, FinalizeUnlinkPart
    <3>4. CASE Recover(s)
      BY <1>1, <3>4 DEF Recover, RecoverStart, RecoverReject, RecoverWav, RecoverMeta,
         RecoverUnlinkPcm, RecoverUnlinkPart, NoneInRecovery
    <3>5. CASE Raise(s)
      BY <1>1, <3>5 DEF Raise, StartFails, RejectFrame, RecordFails, FinalizeFails, RecoverFails
    <3> QED
      BY <1>2, <2>2, <3>1, <3>2, <3>3, <3>4, <3>5 DEF SessionStep
  <2> QED
    BY <2>1, <2>2
<1>3. CASE Crash \/ Restart \/ Serve
  BY <1>3 DEF Crash, Restart, Serve
<1>4. CASE UNCHANGED vars
  BY <1>4 DEF vars
<1> QED
  BY <1>2, <1>3, <1>4 DEF Next

(* No step of any session, startup or crash changes a published recording.  *)
THEOREM PublicationIsFinal ==
  ASSUME ~ShortWrites
  PROVE  Spec => PublishedIsFinal
<1>1. TypeOK /\ SessionInv /\ [Next]_vars =>
        [\A s \in Sessions : Published(s) =>
           Published(s)' /\ wav'[s] = wav[s] /\ meta'[s] = meta[s]]_vars
  BY PublishedStays DEF Kept
<1> QED
  BY <1>1, Invariance, PTL DEF Spec, PublishedIsFinal

(* Until the PCM part is unlinked a session shows nothing.                  *)
LEMMA HiddenBefore ==
  ASSUME TypeOK, SessionInv, NEW s \in Sessions,
         pc[s] \notin {"idle", "pcmGone", "rPart"}
  PROVE  ~Published(s)
BY DEF SessionInv, Inv, AudioInv, Published

(* The steps that store or count nothing and do not unlink the PCM part     *)
(* leave both what was heard and what is shown as they are.                 *)
LEMMA QuietStep ==
  ASSUME TypeOK, SessionInv, NEW s \in Sessions, SessionStep(s),
         ~Record(s), ~FinalizeUnlinkPcm(s), ~RecoverUnlinkPcm(s)
  PROVE  mem' = mem /\ Entry(s)' = Entry(s)
<1> USE DEF TypeOK, Entry, Visited, _write_wav_atomic
<1>0. ~Published(s) \/ pc[s] \in {"idle", "pcmGone", "rPart"}
  BY HiddenBefore
<1>1. pc[s] \in {"recording", "counted", "closing", "wavDone", "rWav", "rMeta", "metaDone", "rPcm"}
        => pcm[s] # NoFile
  BY DEF SessionInv, Inv, FilesInv
<1>2. pc[s] \in {"absent", "made", "opened"} => wav[s] = NoFile
  BY DEF SessionInv, Inv, FilesInv, Fresh
<1>3. s \in todo => pc[s] \in {"idle"} \cup Recovering
  BY DEF SessionInv, Inv, ProcessInv
<1> USE <1>0, <1>1, <1>2, <1>3 DEF Published
<1>4. CASE Begin(s)
  BY <1>4 DEF Begin, Mkdir, OpenPcm, _write_progress_metadata
<1>5. CASE Disconnect(s)
  BY <1>5 DEF Disconnect
<1>6. CASE FinalizeWav(s) \/ FinalizeMeta(s)
  BY <1>6 DEF FinalizeWav, FinalizeMeta
<1>7. CASE FinalizeUnlinkPart(s)
  BY <1>7 DEF FinalizeUnlinkPart
<1>8. CASE RecoverStart(s) \/ RecoverReject(s)
  BY <1>8 DEF RecoverStart, RecoverReject
<1>9. CASE RecoverWav(s) \/ RecoverMeta(s)
  BY <1>9 DEF RecoverWav, RecoverMeta
<1>10. CASE RecoverUnlinkPart(s)
  BY <1>10 DEF RecoverUnlinkPart
<1>11. CASE Raise(s)
  BY <1>11 DEF Raise, StartFails, RejectFrame, RecordFails, FinalizeFails, RecoverFails
<1> QED
  BY <1>4, <1>5, <1>6, <1>7, <1>8, <1>9, <1>10, <1>11 DEF SessionStep, Finalize, Recover

(* Every step of Capture is a step of Archive or invisible to it.           *)
LEMMA RefinementStep ==
  ASSUME TypeOK, SessionInv, ~ShortWrites, [Next]_vars
  PROVE  [Promise!Next]_<<mem, Shown>>
<1>1. ASSUME NEW s \in Sessions, SessionStep(s) PROVE [Promise!Next]_<<mem, Shown>>
  <2>1. \A t \in Sessions \ {s} : Entry(t)' = Entry(t)
    BY <1>1, OthersUntouched DEF Entry, Published
  <2>2. Shown' = [Shown EXCEPT ![s] = Entry(s)']
    BY <2>1 DEF Shown
  <2>3. ASSUME Entry(s)' = Entry(s) PROVE Shown' = Shown
    BY <2>1, <2>3 DEF Shown
  <2>4. pc[s] \notin {"idle", "pcmGone", "rPart"} => Shown[s] = Promise!Nothing
    BY HiddenBefore DEF Shown, Entry, Promise!Nothing
  <2>5. ASSUME NEW n \in FrameSizes, record_decoded_frame(s, n) PROVE Promise!HearFrame(s, n)
    <3>1. Entry(s)' = Entry(s)
      BY <2>5, HiddenBefore DEF record_decoded_frame, Stored, Entry, Published, TypeOK,
         SessionInv, Inv, FilesInv
    <3> QED
      BY <2>3, <2>4, <2>5, <3>1 DEF record_decoded_frame, Count, Promise!HearFrame,
         Promise!Count
  <2>6. ASSUME record_decode_error(s) PROVE Promise!HearError(s)
    <3>1. Entry(s)' = Entry(s)
      BY <2>6 DEF record_decode_error, Entry, Published, TypeOK
    <3> QED
      BY <2>3, <2>4, <2>6, <3>1 DEF record_decode_error, Count, Promise!HearError, Promise!Count
  <2>7. ASSUME FinalizeUnlinkPcm(s) PROVE Promise!Publish(s)
    <3>1. Entry(s)' = [label |-> "completed", audio |-> mem[s].bytes,
                       frames |-> mem[s].frames - 0, errors |-> mem[s].errors - 0]
      BY <2>7 DEF FinalizeUnlinkPcm, Entry, Published, TypeOK, SessionInv, Inv, FilesInv,
         CompletedOf
    <3> QED
      BY <2>2, <2>4, <2>7, <3>1 DEF FinalizeUnlinkPcm, Promise!Publish
  <2>8. ASSUME RecoverUnlinkPcm(s) PROVE Promise!Publish(s)
    <3>1. PICK missed \in {0, 1}, lost \in {0, 1} :
            /\ meta[s].frames = mem[s].frames - missed
            /\ meta[s].errors = mem[s].errors - lost
      BY <2>8 DEF RecoverUnlinkPcm, TypeOK, SessionInv, Inv, FilesInv, RecoveredOf
    <3>2. Entry(s)' = [label |-> "recovered", audio |-> mem[s].bytes,
                       frames |-> mem[s].frames - missed, errors |-> mem[s].errors - lost]
      BY <2>8, <3>1 DEF RecoverUnlinkPcm, Entry, Published, TypeOK, SessionInv, Inv, FilesInv,
         RecoveredOf
    <3> QED
      BY <2>2, <2>4, <2>8, <3>2 DEF RecoverUnlinkPcm, Promise!Publish
  <2>9. CASE ~Record(s) /\ ~FinalizeUnlinkPcm(s) /\ ~RecoverUnlinkPcm(s)
    BY <1>1, <2>3, <2>9, QuietStep
  <2> QED
    BY <2>5, <2>6, <2>7, <2>8, <2>9 DEF Record, Promise!Next
<1>2. CASE Crash \/ Restart \/ Serve
  BY <1>2 DEF Crash, Restart, Serve, Shown, Entry, Published
<1>3. CASE UNCHANGED vars
  BY <1>3 DEF vars, Shown, Entry, Published
<1> QED
  BY <1>1, <1>2, <1>3 DEF Next

(* Capture implements Archive: seen through the readers' gate, a recording  *)
(* appears whole in one step and never changes, crashes included.           *)
THEOREM Refinement ==
  ASSUME ~ShortWrites
  PROVE  Spec => ImplementsArchive
<1>1. Init => Promise!Init
  BY DEF Init, Promise!Init, Promise!Nothing, Shown, Entry, Published
<1>2. TypeOK /\ SessionInv /\ [Next]_vars => [Promise!Next]_<<mem, Shown>>
  BY RefinementStep
<1> QED
  BY <1>1, <1>2, Invariance, PTL DEF Spec, ImplementsArchive, Promise!Spec
=============================================================================
