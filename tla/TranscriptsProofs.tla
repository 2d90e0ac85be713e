------------------------- MODULE TranscriptsProofs -------------------------
(***************************************************************************)
(* Proofs about Transcripts for any recordings, digests, profiles and      *)
(* number of transcribers.                                                 *)
(***************************************************************************)
EXTENDS Transcripts, TLAPS

(* The lock is held exactly by the process that is in its critical part.    *)
LockInv ==
  /\ \A p \in Procs : pc[p] \in Holding <=> lock = p
  /\ dpc \in DelHolding <=> lock = Deleter

(* What a transcriber in its critical part knows of its folder.             *)
FolderInv ==
  \A p \in Procs :
    /\ pc[p] \in {"prepared", "running", "have", "committed"} => key[p] \in manifest
    /\ pc[p] = "running" => raw[key[p]] = "none"
    /\ pc[p] \in {"have", "committed"} => raw[key[p]] # "none"

(* The deleter removes folders only after their conversations.              *)
OrderInv == dpc = "files" => \A k \in dkeys : conv[k] = "none"

(* What makes ReplaySource inductive.                                       *)
ReplayInv == LockInv /\ FolderInv /\ OrderInv /\ ReplaySource /\ orphans = {}

USE TranscriptsAssumption DEF Holding, DelHolding, fileVars, trVars, delVars

(* The initial values have their types.                                     *)
LEMMA TypeInit == Init => TypeOK
<1> SUFFICES ASSUME Init PROVE TypeOK
  OBVIOUS
<1>1. dshared \in BOOLEAN
  BY DEF Init
<1>2. cap \in [Recordings -> {"absent", "finished", "recovered", "wavGone", "deleted"}]
  BY DEF Init
<1>3. /\ raw \in [Keys -> {"none", "speech", "silence", "rejected"}]
      /\ conv \in [Keys -> {"none", "imported", "edited"}]
  BY DEF Init
<1>4. pc \in [Procs -> {"idle", "inspected", "ready"} \cup Holding]
  BY DEF Init
<1> QED
  BY <1>1, <1>2, <1>3, <1>4 DEF Init, TypeOK

(* The type invariant is inductive.                                         *)
LEMMA TypeStep ==
  ASSUME TypeOK, [Next]_vars
  PROVE  TypeOK'
<1> USE DEF TypeOK, Keys
<1>1. ASSUME NEW r \in Recordings, Appear(r) PROVE TypeOK'
  BY <1>1 DEF Appear
<1>2. ASSUME NEW k \in Keys, Edit(k) PROVE TypeOK'
  BY <1>2 DEF Edit
<1>3. ASSUME NEW k \in Keys, Lose(k) PROVE TypeOK'
  BY <1>3 DEF Lose
<1>4. CASE PreviewTakes
  BY <1>4 DEF PreviewTakes
<1>5. CASE PreviewReleases
  BY <1>5 DEF PreviewReleases
<1>6. ASSUME NEW p \in Procs, NEW r \in Recordings, NEW f \in Profiles, Inspect(p, r, f) PROVE TypeOK'
  BY <1>6 DEF Inspect, Keys
<1>7. ASSUME NEW p \in Procs, Preflight(p) PROVE TypeOK'
  BY <1>7 DEF Preflight, At
<1>8. ASSUME NEW p \in Procs, PreflightFails(p) PROVE TypeOK'
  BY <1>8 DEF PreflightFails, At
<1>9. ASSUME NEW p \in Procs, Lock(p) PROVE TypeOK'
  BY <1>9 DEF Lock, At
<1>10. ASSUME NEW p \in Procs, TranscriptionBusy(p) PROVE TypeOK'
  BY <1>10 DEF TranscriptionBusy, At
<1>11. ASSUME NEW p \in Procs, WriteManifest(p) PROVE TypeOK'
  BY <1>11 DEF WriteManifest, At
<1>12. ASSUME NEW p \in Procs, ReuseRaw(p) PROVE TypeOK'
  BY <1>12 DEF ReuseRaw, At
<1>36. ASSUME NEW p \in Procs, StartModel(p) PROVE TypeOK'
  BY <1>36 DEF StartModel, At
<1>13. ASSUME NEW p \in Procs, Infer(p) PROVE TypeOK'
  BY <1>13 DEF Infer, At
<1>14. ASSUME NEW p \in Procs, InferFails(p) PROVE TypeOK'
  BY <1>14 DEF InferFails, Release, At
<1>15. ASSUME NEW p \in Procs, NoSpeechDetected(p) PROVE TypeOK'
  BY <1>15 DEF NoSpeechDetected, Release, At
<1>16. ASSUME NEW p \in Procs, Import(p) PROVE TypeOK'
  BY <1>16 DEF Import, At, CreateIfAbsent
<1>17. ASSUME NEW p \in Procs, ImportFails(p) PROVE TypeOK'
  BY <1>17 DEF ImportFails, Release, At
<1>18. ASSUME NEW p \in Procs, Finish(p) PROVE TypeOK'
  BY <1>18 DEF Finish, Release, At
<1>19. ASSUME NEW p \in Procs, Kill(p) PROVE TypeOK'
  BY <1>19 DEF Kill
<1>20. ASSUME NEW p \in Procs, KillImporting(p) PROVE TypeOK'
  BY <1>20 DEF KillImporting, Release, At
<1>21. ASSUME NEW k \in Keys, OrphanCommits(k) PROVE TypeOK'
  BY <1>21 DEF OrphanCommits, CreateIfAbsent
<1>22. ASSUME NEW r \in Recordings, DelCheck(r) PROVE TypeOK'
  BY <1>22 DEF DelCheck, DelGoto
<1>23. ASSUME NEW k \in Keys, DelConversation(k) PROVE TypeOK'
  BY <1>23 DEF DelConversation
<1>24. ASSUME NEW k \in Keys, Rmtree(k) PROVE TypeOK'
  BY <1>24 DEF Rmtree
<1>25. ASSUME NEW k \in Keys, RmtreeStops(k) PROVE TypeOK'
  BY <1>25 DEF RmtreeStops, DelReturn
<1>26. CASE DelLock
  BY <1>26 DEF DelLock, DelGoto, Twins
<1>27. CASE DelBusy
  BY <1>27 DEF DelBusy, DelGoto
<1>28. CASE DelScan
  BY <1>28 DEF DelScan, DelGoto
<1>29. CASE DelShared
  BY <1>29 DEF DelShared
<1>30. CASE DelDatabaseDone
  BY <1>30 DEF DelDatabaseDone, DelGoto
<1>31. CASE DelFoldersDone
  BY <1>31 DEF DelFoldersDone, DelGoto
<1>32. CASE DelAudio
  BY <1>32 DEF DelAudio, DelGoto
<1>33. CASE DelMetadata
  BY <1>33 DEF DelMetadata, DelReturn
<1>34. CASE DelStops
  BY <1>34 DEF DelStops, DelReturn
<1>35. CASE UNCHANGED vars
  BY <1>35 DEF vars
<1> QED
  BY <1>1, <1>2, <1>3, <1>4, <1>5, <1>6, <1>7, <1>8, <1>9, <1>10, <1>11, <1>12, <1>13, <1>14, <1>15, <1>16, <1>17, <1>18, <1>19, <1>20, <1>21, <1>22, <1>23, <1>24, <1>25, <1>26, <1>27, <1>28, <1>29, <1>30, <1>31, <1>32, <1>33, <1>34, <1>35, <1>36
  DEF Next, Environment, transcribe, Stopped, delete_recording

(* Every step keeps the lock discipline and the order of deletion.          *)
LEMMA ReplayStep ==
  ASSUME TypeOK, ReplayInv, "orphanImport" \notin Faults, [Next]_vars
  PROVE  ReplayInv'
<1> USE DEF TypeOK, ReplayInv, LockInv, FolderInv, OrderInv, ReplaySource
<1>1. ASSUME NEW r \in Recordings, Appear(r) PROVE ReplayInv'
  BY <1>1 DEF Appear
<1>2. ASSUME NEW k \in Keys, Edit(k) PROVE ReplayInv'
  BY <1>2 DEF Edit
<1>3. ASSUME NEW k \in Keys, Lose(k) PROVE ReplayInv'
  BY <1>3 DEF Lose
<1>4. CASE PreviewTakes
  BY <1>4 DEF PreviewTakes
<1>5. CASE PreviewReleases
  BY <1>5 DEF PreviewReleases
<1>6. ASSUME NEW p \in Procs, NEW r \in Recordings, NEW f \in Profiles, Inspect(p, r, f) PROVE ReplayInv'
  BY <1>6 DEF Inspect, Keys
<1>7. ASSUME NEW p \in Procs, Preflight(p) PROVE ReplayInv'
  BY <1>7 DEF Preflight, At
<1>8. ASSUME NEW p \in Procs, PreflightFails(p) PROVE ReplayInv'
  BY <1>8 DEF PreflightFails, At
<1>9. ASSUME NEW p \in Procs, Lock(p) PROVE ReplayInv'
  BY <1>9 DEF Lock, At
<1>10. ASSUME NEW p \in Procs, TranscriptionBusy(p) PROVE ReplayInv'
  BY <1>10 DEF TranscriptionBusy, At
<1>11. ASSUME NEW p \in Procs, WriteManifest(p) PROVE ReplayInv'
  BY <1>11 DEF WriteManifest, At
<1>12. ASSUME NEW p \in Procs, ReuseRaw(p) PROVE ReplayInv'
  BY <1>12 DEF ReuseRaw, At
<1>36. ASSUME NEW p \in Procs, StartModel(p) PROVE ReplayInv'
  BY <1>36 DEF StartModel, At
<1>13. ASSUME NEW p \in Procs, Infer(p) PROVE ReplayInv'
  BY <1>13 DEF Infer, At
<1>14. ASSUME NEW p \in Procs, InferFails(p) PROVE ReplayInv'
  BY <1>14 DEF InferFails, Release, At
<1>15. ASSUME NEW p \in Procs, NoSpeechDetected(p) PROVE ReplayInv'
  BY <1>15 DEF NoSpeechDetected, Release, At
<1>16. ASSUME NEW p \in Procs, Import(p) PROVE ReplayInv'
  BY <1>16 DEF Import, At, CreateIfAbsent
<1>17. ASSUME NEW p \in Procs, ImportFails(p) PROVE ReplayInv'
  BY <1>17 DEF ImportFails, Release, At
<1>18. ASSUME NEW p \in Procs, Finish(p) PROVE ReplayInv'
  BY <1>18 DEF Finish, Release, At
<1>19. ASSUME NEW p \in Procs, Kill(p) PROVE ReplayInv'
  BY <1>19 DEF Kill
<1>20. ASSUME NEW p \in Procs, KillImporting(p) PROVE ReplayInv'
  BY <1>20 DEF KillImporting, Release, At
<1>21. ASSUME NEW k \in Keys, OrphanCommits(k) PROVE ReplayInv'
  BY <1>21 DEF OrphanCommits, CreateIfAbsent
<1>22. ASSUME NEW r \in Recordings, DelCheck(r) PROVE ReplayInv'
  BY <1>22 DEF DelCheck, DelGoto
<1>23. ASSUME NEW k \in Keys, DelConversation(k) PROVE ReplayInv'
  BY <1>23 DEF DelConversation
<1>24. ASSUME NEW k \in Keys, Rmtree(k) PROVE ReplayInv'
  BY <1>24 DEF Rmtree
<1>25. ASSUME NEW k \in Keys, RmtreeStops(k) PROVE ReplayInv'
  BY <1>25 DEF RmtreeStops, DelReturn
<1>26. CASE DelLock
  BY <1>26 DEF DelLock, DelGoto, Twins
<1>27. CASE DelBusy
  BY <1>27 DEF DelBusy, DelGoto
<1>28. CASE DelScan
  BY <1>28 DEF DelScan, DelGoto
<1>29. CASE DelShared
  BY <1>29 DEF DelShared
<1>30. CASE DelDatabaseDone
  BY <1>30 DEF DelDatabaseDone, DelGoto
<1>31. CASE DelFoldersDone
  BY <1>31 DEF DelFoldersDone, DelGoto
<1>32. CASE DelAudio
  BY <1>32 DEF DelAudio, DelGoto
<1>33. CASE DelMetadata
  BY <1>33 DEF DelMetadata, DelReturn
<1>34. CASE DelStops
  BY <1>34 DEF DelStops, DelReturn
<1>35. CASE UNCHANGED vars
  BY <1>35 DEF vars
<1> QED
  BY <1>1, <1>2, <1>3, <1>4, <1>5, <1>6, <1>7, <1>8, <1>9, <1>10, <1>11, <1>12, <1>13, <1>14, <1>15, <1>16, <1>17, <1>18, <1>19, <1>20, <1>21, <1>22, <1>23, <1>24, <1>25, <1>26, <1>27, <1>28, <1>29, <1>30, <1>31, <1>32, <1>33, <1>34, <1>35, <1>36
  DEF Next, Environment, transcribe, Stopped, delete_recording

(* The invariant behind ReplaySource, for every fault but orphaned imports. *)
THEOREM ReplayInvariance ==
  ASSUME "orphanImport" \notin Faults
  PROVE  Spec => [](TypeOK /\ ReplayInv)
<1>1. Init => TypeOK /\ ReplayInv
  BY TypeInit DEF Init, ReplayInv, LockInv, FolderInv, OrderInv, ReplaySource
<1>2. TypeOK /\ ReplayInv /\ [Next]_vars => (TypeOK /\ ReplayInv)'
  BY TypeStep, ReplayStep
<1> QED
  BY <1>1, <1>2, PTL DEF Spec

(* Transcripts is type correct, whatever faults happen.                     *)
THEOREM TypeCorrect == Spec => []TypeOK
<1>1. Init => TypeOK
  BY TypeInit
<1>2. TypeOK /\ [Next]_vars => TypeOK'
  BY TypeStep
<1> QED
  BY <1>1, <1>2, PTL DEF Spec

(* As long as a conversation is in the database, the manifest and the raw   *)
(* result it can be replayed from are on disk, also when a deletion stops   *)
(* inside rmtree.                                                           *)
THEOREM ReplaySourceKept ==
  ASSUME "orphanImport" \notin Faults
  PROVE  Spec => []ReplaySource
<1>1. ReplayInv => ReplaySource
  BY DEF ReplayInv
<1> QED
  BY <1>1, ReplayInvariance, PTL

----------------------------------------------------------------------------
(* Without hard stops, nothing outlives the audio.                          *)

(* A saved result has its manifest, where a deletion finds it, and a WAV.   *)
ResultInv ==
  \A k \in Keys : raw[k] # "none" =>
    /\ k \in manifest
    /\ \E r \in Recordings : HasWav(r) /\ Content[r] = k[1]

(* A transcriber's key is that of the audio it inspected, and the audio is  *)
(* there as long as the model runs on it.                                   *)
KeyInv ==
  \A p \in Procs :
    /\ pc[p] # "idle" => key[p][1] = Content[rec[p]]
    /\ pc[p] = "running" => HasWav(rec[p])

(* The deleter knows all folders of its audio until it has removed them,    *)
(* and reaches the audio only when they are gone or a copy remains.         *)
SweepInv ==
  /\ dpc \in {"scanned", "database", "files"} =>
       \A k \in manifest : k[1] = Content[drec] => k \in dkeys
  /\ dpc = "audio" =>
       \/ Twins(drec) # {}
       \/ \A k \in manifest : k[1] # Content[drec]
  /\ dpc = "metadata" => cap[drec] = "wavGone"

(* What makes NothingOutlivesAudio inductive.                               *)
OutliveInv == ResultInv /\ KeyInv /\ SweepInv

(* Every step keeps it when nothing is stopped inside rmtree or orphaned.   *)
LEMMA OutliveStep ==
  ASSUME TypeOK, ReplayInv, OutliveInv, Faults = {}, [Next]_vars
  PROVE  OutliveInv'
<1> USE DEF TypeOK, ReplayInv, LockInv, OutliveInv, ResultInv, KeyInv, SweepInv, HasWav, Twins, KeysOf
<1>1. ASSUME NEW r \in Recordings, Appear(r) PROVE OutliveInv'
  BY <1>1 DEF Appear
<1>2. ASSUME NEW k \in Keys, Edit(k) PROVE OutliveInv'
  BY <1>2 DEF Edit
<1>3. ASSUME NEW k \in Keys, Lose(k) PROVE OutliveInv'
  BY <1>3 DEF Lose
<1>4. CASE PreviewTakes
  BY <1>4 DEF PreviewTakes
<1>5. CASE PreviewReleases
  BY <1>5 DEF PreviewReleases
<1>6. ASSUME NEW p \in Procs, NEW r \in Recordings, NEW f \in Profiles, Inspect(p, r, f) PROVE OutliveInv'
  BY <1>6 DEF Inspect, Keys
<1>7. ASSUME NEW p \in Procs, Preflight(p) PROVE OutliveInv'
  BY <1>7 DEF Preflight, At
<1>8. ASSUME NEW p \in Procs, PreflightFails(p) PROVE OutliveInv'
  BY <1>8 DEF PreflightFails, At
<1>9. ASSUME NEW p \in Procs, Lock(p) PROVE OutliveInv'
  BY <1>9 DEF Lock, At
<1>10. ASSUME NEW p \in Procs, TranscriptionBusy(p) PROVE OutliveInv'
  BY <1>10 DEF TranscriptionBusy, At
<1>11. ASSUME NEW p \in Procs, WriteManifest(p) PROVE OutliveInv'
  BY <1>11 DEF WriteManifest, At
<1>12. ASSUME NEW p \in Procs, ReuseRaw(p) PROVE OutliveInv'
  BY <1>12 DEF ReuseRaw, At
<1>36. ASSUME NEW p \in Procs, StartModel(p) PROVE OutliveInv'
  BY <1>36 DEF StartModel, At
<1>13. ASSUME NEW p \in Procs, Infer(p) PROVE OutliveInv'
  BY <1>13 DEF Infer, At, FolderInv
<1>14. ASSUME NEW p \in Procs, InferFails(p) PROVE OutliveInv'
  BY <1>14 DEF InferFails, Release, At
<1>15. ASSUME NEW p \in Procs, NoSpeechDetected(p) PROVE OutliveInv'
  BY <1>15 DEF NoSpeechDetected, Release, At
<1>16. ASSUME NEW p \in Procs, Import(p) PROVE OutliveInv'
  BY <1>16 DEF Import, At, CreateIfAbsent
<1>17. ASSUME NEW p \in Procs, ImportFails(p) PROVE OutliveInv'
  BY <1>17 DEF ImportFails, Release, At
<1>18. ASSUME NEW p \in Procs, Finish(p) PROVE OutliveInv'
  BY <1>18 DEF Finish, Release, At
<1>19. ASSUME NEW p \in Procs, Kill(p) PROVE OutliveInv'
  BY <1>19 DEF Kill
<1>20. ASSUME NEW p \in Procs, KillImporting(p) PROVE OutliveInv'
  BY <1>20 DEF KillImporting, Release, At
<1>21. ASSUME NEW k \in Keys, OrphanCommits(k) PROVE OutliveInv'
  BY <1>21 DEF OrphanCommits, CreateIfAbsent
<1>22. ASSUME NEW r \in Recordings, DelCheck(r) PROVE OutliveInv'
  BY <1>22 DEF DelCheck, DelGoto
<1>23. ASSUME NEW k \in Keys, DelConversation(k) PROVE OutliveInv'
  BY <1>23 DEF DelConversation
<1>24. ASSUME NEW k \in Keys, Rmtree(k) PROVE OutliveInv'
  BY <1>24 DEF Rmtree
<1>25. ASSUME NEW k \in Keys, RmtreeStops(k) PROVE OutliveInv'
  BY <1>25 DEF RmtreeStops, DelReturn
<1>26. CASE DelLock
  BY <1>26 DEF DelLock, DelGoto, Twins
<1>27. CASE DelBusy
  BY <1>27 DEF DelBusy, DelGoto
<1>28. CASE DelScan
  BY <1>28 DEF DelScan, DelGoto
<1>29. CASE DelShared
  <2>1. CASE Twins(drec) = {}
    <3>1. dpc' = "database"
      BY <1>29, <2>1 DEF DelShared
    <3> QED
      BY <1>29, <3>1 DEF DelShared
  <2>2. CASE Twins(drec) # {}
    <3>1. dpc' = "audio"
      BY <1>29, <2>2 DEF DelShared
    <3> QED
      BY <1>29, <2>2, <3>1 DEF DelShared
  <2> QED
    BY <2>1, <2>2
<1>30. CASE DelDatabaseDone
  BY <1>30 DEF DelDatabaseDone, DelGoto
<1>31. CASE DelFoldersDone
  BY <1>31 DEF DelFoldersDone, DelGoto
<1>32. CASE DelAudio
  BY <1>32 DEF DelAudio, DelGoto
<1>33. CASE DelMetadata
  BY <1>33 DEF DelMetadata, DelReturn
<1>34. CASE DelStops
  BY <1>34 DEF DelStops, DelReturn
<1>35. CASE UNCHANGED vars
  BY <1>35 DEF vars
<1> QED
  BY <1>1, <1>2, <1>3, <1>4, <1>5, <1>6, <1>7, <1>8, <1>9, <1>10, <1>11, <1>12, <1>13, <1>14, <1>15, <1>16, <1>17, <1>18, <1>19, <1>20, <1>21, <1>22, <1>23, <1>24, <1>25, <1>26, <1>27, <1>28, <1>29, <1>30, <1>31, <1>32, <1>33, <1>34, <1>35, <1>36
  DEF Next, Environment, transcribe, Stopped, delete_recording

(* With the last copy of an audio its transcripts and conversations are     *)
(* gone, and a transcriber that inspected it before brings none back.       *)
THEOREM DeletionIsComplete ==
  ASSUME Faults = {}
  PROVE  Spec => []NothingOutlivesAudio
<1>1. Init => OutliveInv
  BY DEF Init, OutliveInv, ResultInv, KeyInv, SweepInv
<1>2. TypeOK /\ ReplayInv /\ OutliveInv /\ [Next]_vars => OutliveInv'
  BY OutliveStep
<1>3. ReplayInv /\ OutliveInv => NothingOutlivesAudio
  BY DEF ReplayInv, ReplaySource, OutliveInv, ResultInv, NothingOutlivesAudio
<1>4. Spec => [](TypeOK /\ ReplayInv)
  BY ReplayInvariance
<1> QED
  BY <1>1, <1>2, <1>3, <1>4, PTL DEF Spec

----------------------------------------------------------------------------
(* What no step does, whatever faults happen.                               *)

(* No import, repeated, concurrent or orphaned, overwrites an edit.         *)
THEOREM EditsAreKept == Spec => EditsPreserved
<1>1. ASSUME TypeOK, [Next]_vars, NEW k \in Keys, conv[k] = "edited"
      PROVE  conv'[k] # "imported"
  <2> USE <1>1 DEF TypeOK
  <2>1. CASE \E j \in Keys : Edit(j) \/ Lose(j)
    BY <2>1 DEF Edit, Lose
  <2>2. CASE Stopped
    BY <2>2 DEF Stopped, Kill, KillImporting, OrphanCommits, CreateIfAbsent
  <2>3. ASSUME NEW p \in Procs, transcribe(p) PROVE conv'[k] # "imported"
    BY <2>3 DEF transcribe, Inspect, Preflight, PreflightFails, Lock, TranscriptionBusy,
       WriteManifest, ReuseRaw, StartModel, Infer, InferFails, NoSpeechDetected, Import, ImportFails, Finish,
       CreateIfAbsent
  <2>4. CASE delete_recording
    BY <2>4 DEF delete_recording, DelCheck, DelLock, DelBusy, DelScan, DelShared,
       DelConversation, Rmtree, RmtreeStops, DelDatabaseDone, DelFoldersDone, DelAudio,
       DelMetadata, DelStops
  <2>5. CASE (\E r \in Recordings : Appear(r)) \/ PreviewTakes \/ PreviewReleases
    BY <2>5 DEF Appear, PreviewTakes, PreviewReleases
  <2>6. CASE UNCHANGED vars
    BY <2>6 DEF vars
  <2> QED
    BY <2>1, <2>2, <2>3, <2>4, <2>5, <2>6 DEF Next, Environment
<1>2. TypeOK /\ [Next]_vars =>
        [\A k \in Keys : conv[k] = "edited" => conv'[k] # "imported"]_vars
  BY <1>1
<1> QED
  BY <1>2, TypeCorrect, PTL DEF Spec, EditsPreserved

(* The copies that were there at the lock are there as long as it is held,  *)
(* so the search for a shared audio finds them.                             *)
CopiesInv ==
  /\ dpc \in {"locked", "scanned"} => copies \subseteq Twins(drec)
  /\ dpc \in {"database", "files"} => copies = {}

(* While the model runs for a folder, nobody else puts a result there.      *)
RunInv == \A p \in Procs : pc[p] = "running" => raw[key[p]] = "none"

(* Every step keeps the lock and what was found under it.                   *)
LEMMA CriticalStep ==
  ASSUME TypeOK, LockInv, CopiesInv, RunInv, [Next]_vars
  PROVE  (LockInv /\ CopiesInv /\ RunInv)'
<1> USE DEF TypeOK, LockInv, CopiesInv, RunInv, Twins, HasWav
<1>1. ASSUME NEW r \in Recordings, Appear(r) PROVE (LockInv /\ CopiesInv /\ RunInv)'
  BY <1>1 DEF Appear
<1>2. ASSUME NEW k \in Keys, Edit(k) PROVE (LockInv /\ CopiesInv /\ RunInv)'
  BY <1>2 DEF Edit
<1>3. ASSUME NEW k \in Keys, Lose(k) PROVE (LockInv /\ CopiesInv /\ RunInv)'
  BY <1>3 DEF Lose
<1>4. CASE PreviewTakes
  BY <1>4 DEF PreviewTakes
<1>5. CASE PreviewReleases
  BY <1>5 DEF PreviewReleases
<1>6. ASSUME NEW p \in Procs, NEW r \in Recordings, NEW f \in Profiles, Inspect(p, r, f) PROVE (LockInv /\ CopiesInv /\ RunInv)'
  BY <1>6 DEF Inspect, Keys
<1>7. ASSUME NEW p \in Procs, Preflight(p) PROVE (LockInv /\ CopiesInv /\ RunInv)'
  BY <1>7 DEF Preflight, At
<1>8. ASSUME NEW p \in Procs, PreflightFails(p) PROVE (LockInv /\ CopiesInv /\ RunInv)'
  BY <1>8 DEF PreflightFails, At
<1>9. ASSUME NEW p \in Procs, Lock(p) PROVE (LockInv /\ CopiesInv /\ RunInv)'
  BY <1>9 DEF Lock, At
<1>10. ASSUME NEW p \in Procs, TranscriptionBusy(p) PROVE (LockInv /\ CopiesInv /\ RunInv)'
  BY <1>10 DEF TranscriptionBusy, At
<1>11. ASSUME NEW p \in Procs, WriteManifest(p) PROVE (LockInv /\ CopiesInv /\ RunInv)'
  BY <1>11 DEF WriteManifest, At
<1>12. ASSUME NEW p \in Procs, ReuseRaw(p) PROVE (LockInv /\ CopiesInv /\ RunInv)'
  BY <1>12 DEF ReuseRaw, At
<1>36. ASSUME NEW p \in Procs, StartModel(p) PROVE (LockInv /\ CopiesInv /\ RunInv)'
  BY <1>36 DEF StartModel, At
<1>13. ASSUME NEW p \in Procs, Infer(p) PROVE (LockInv /\ CopiesInv /\ RunInv)'
  BY <1>13 DEF Infer, At
<1>14. ASSUME NEW p \in Procs, InferFails(p) PROVE (LockInv /\ CopiesInv /\ RunInv)'
  BY <1>14 DEF InferFails, Release, At
<1>15. ASSUME NEW p \in Procs, NoSpeechDetected(p) PROVE (LockInv /\ CopiesInv /\ RunInv)'
  BY <1>15 DEF NoSpeechDetected, Release, At
<1>16. ASSUME NEW p \in Procs, Import(p) PROVE (LockInv /\ CopiesInv /\ RunInv)'
  BY <1>16 DEF Import, At, CreateIfAbsent
<1>17. ASSUME NEW p \in Procs, ImportFails(p) PROVE (LockInv /\ CopiesInv /\ RunInv)'
  BY <1>17 DEF ImportFails, Release, At
<1>18. ASSUME NEW p \in Procs, Finish(p) PROVE (LockInv /\ CopiesInv /\ RunInv)'
  BY <1>18 DEF Finish, Release, At
<1>19. ASSUME NEW p \in Procs, Kill(p) PROVE (LockInv /\ CopiesInv /\ RunInv)'
  BY <1>19 DEF Kill
<1>20. ASSUME NEW p \in Procs, KillImporting(p) PROVE (LockInv /\ CopiesInv /\ RunInv)'
  BY <1>20 DEF KillImporting, Release, At
<1>21. ASSUME NEW k \in Keys, OrphanCommits(k) PROVE (LockInv /\ CopiesInv /\ RunInv)'
  BY <1>21 DEF OrphanCommits, CreateIfAbsent
<1>22. ASSUME NEW r \in Recordings, DelCheck(r) PROVE (LockInv /\ CopiesInv /\ RunInv)'
  BY <1>22 DEF DelCheck, DelGoto
<1>23. ASSUME NEW k \in Keys, DelConversation(k) PROVE (LockInv /\ CopiesInv /\ RunInv)'
  BY <1>23 DEF DelConversation
<1>24. ASSUME NEW k \in Keys, Rmtree(k) PROVE (LockInv /\ CopiesInv /\ RunInv)'
  BY <1>24 DEF Rmtree
<1>25. ASSUME NEW k \in Keys, RmtreeStops(k) PROVE (LockInv /\ CopiesInv /\ RunInv)'
  BY <1>25 DEF RmtreeStops, DelReturn
<1>26. CASE DelLock
  BY <1>26 DEF DelLock, DelGoto, Twins
<1>27. CASE DelBusy
  BY <1>27 DEF DelBusy, DelGoto
<1>28. CASE DelScan
  BY <1>28 DEF DelScan, DelGoto
<1>29. CASE DelShared
  BY <1>29 DEF DelShared
<1>30. CASE DelDatabaseDone
  BY <1>30 DEF DelDatabaseDone, DelGoto
<1>31. CASE DelFoldersDone
  BY <1>31 DEF DelFoldersDone, DelGoto
<1>32. CASE DelAudio
  BY <1>32 DEF DelAudio, DelGoto
<1>33. CASE DelMetadata
  BY <1>33 DEF DelMetadata, DelReturn
<1>34. CASE DelStops
  BY <1>34 DEF DelStops, DelReturn
<1>35. CASE UNCHANGED vars
  BY <1>35 DEF vars
<1> QED
  BY <1>1, <1>2, <1>3, <1>4, <1>5, <1>6, <1>7, <1>8, <1>9, <1>10, <1>11, <1>12, <1>13, <1>14, <1>15, <1>16, <1>17, <1>18, <1>19, <1>20, <1>21, <1>22, <1>23, <1>24, <1>25, <1>26, <1>27, <1>28, <1>29, <1>30, <1>31, <1>32, <1>33, <1>34, <1>35, <1>36
  DEF Next, Environment, transcribe, Stopped, delete_recording

(* Whatever faults happen, the lock is exclusive, and what its holder found *)
(* under it stays true.                                                     *)
LEMMA CriticalInvariance == Spec => [](TypeOK /\ LockInv /\ CopiesInv /\ RunInv)
<1>1. Init => TypeOK /\ LockInv /\ CopiesInv /\ RunInv
  BY TypeInit DEF Init, LockInv, CopiesInv, RunInv
<1>2. TypeOK /\ LockInv /\ CopiesInv /\ RunInv /\ [Next]_vars
        => (TypeOK /\ LockInv /\ CopiesInv /\ RunInv)'
  BY TypeStep, CriticalStep
<1> QED
  BY <1>1, <1>2, PTL DEF Spec

(* No transcriber, repeated, concurrent or restarted, writes over a result  *)
(* that is on disk: between the look for it and the write the lock keeps    *)
(* everybody else out.                                                      *)
THEOREM ResultsAreReused == Spec => ResultIsReused
<1>1. ASSUME TypeOK, RunInv, [Next]_vars, NEW k \in Keys, raw[k] # "none", raw'[k] # "none"
      PROVE  raw'[k] = raw[k]
  <2> USE <1>1 DEF TypeOK, RunInv
  <2>1. CASE Environment
    BY <2>1 DEF Environment, Appear, Edit, Lose, PreviewTakes, PreviewReleases
  <2>2. CASE Stopped
    BY <2>2 DEF Stopped, Kill, KillImporting, OrphanCommits
  <2>3. ASSUME NEW p \in Procs, Infer(p) PROVE raw'[k] = raw[k]
    BY <2>3 DEF Infer, At
  <2>4. ASSUME NEW p \in Procs, transcribe(p), ~Infer(p) PROVE raw' = raw
    BY <2>4 DEF transcribe, Inspect, Preflight, PreflightFails, Lock, TranscriptionBusy,
       WriteManifest, ReuseRaw, StartModel, InferFails, NoSpeechDetected, Import, ImportFails, Finish
  <2>5. ASSUME NEW j \in Keys, Rmtree(j) \/ RmtreeStops(j) PROVE raw'[k] = raw[k]
    BY <2>5 DEF Rmtree, RmtreeStops
  <2>6. ASSUME delete_recording, \A j \in Keys : ~Rmtree(j) /\ ~RmtreeStops(j)
        PROVE  raw' = raw
    BY <2>6 DEF delete_recording, DelCheck, DelLock, DelBusy, DelScan, DelShared,
       DelConversation, DelDatabaseDone, DelFoldersDone, DelAudio, DelMetadata, DelStops
  <2>7. CASE UNCHANGED vars
    BY <2>7 DEF vars
  <2> QED
    BY <2>1, <2>2, <2>3, <2>4, <2>5, <2>6, <2>7 DEF Next, Environment, Stopped
<1>2. TypeOK /\ RunInv /\ [Next]_vars =>
        [\A k \in Keys : raw[k] # "none" /\ raw'[k] # "none" => raw'[k] = raw[k]]_vars
  BY <1>1
<1> QED
  BY <1>2, CriticalInvariance, PTL DEF Spec, ResultIsReused

(* Deleting one of several copies of an audio keeps their transcript.       *)
THEOREM SharedTranscriptKept == Spec => SharedIsKept
<1>1. ASSUME TypeOK, LockInv, CopiesInv, [Next]_vars, lock = Deleter, copies # {}
      PROVE  manifest' = manifest /\ raw' = raw /\ dpc # "database"
  <2> USE <1>1 DEF TypeOK, LockInv, CopiesInv
  <2>1. CASE Environment
    BY <2>1 DEF Environment, Appear, Edit, Lose, PreviewTakes, PreviewReleases
  <2>2. CASE Stopped
    BY <2>2 DEF Stopped, Kill, KillImporting, OrphanCommits
  <2>3. ASSUME NEW p \in Procs, transcribe(p) PROVE manifest' = manifest /\ raw' = raw
    <3>1. pc[p] \notin Holding
      OBVIOUS
    <3> QED
      BY <2>3, <3>1 DEF transcribe, Inspect, Preflight, PreflightFails, Lock, TranscriptionBusy,
         WriteManifest, ReuseRaw, StartModel, Infer, InferFails, NoSpeechDetected, Import, ImportFails,
         Finish, Release, At
  <2>4. CASE delete_recording
    BY <2>4 DEF delete_recording, DelCheck, DelLock, DelBusy, DelScan, DelShared,
       DelConversation, Rmtree, RmtreeStops, DelDatabaseDone, DelFoldersDone, DelAudio,
       DelMetadata, DelStops
  <2>5. CASE UNCHANGED vars
    BY <2>5 DEF vars
  <2> QED
    BY <2>1, <2>2, <2>3, <2>4, <2>5 DEF Next
<1>2. TypeOK /\ LockInv /\ CopiesInv /\ [Next]_vars =>
        [lock = Deleter /\ copies # {} =>
           manifest' = manifest /\ raw' = raw /\ dpc # "database"]_vars
  BY <1>1
<1> QED
  BY <1>2, CriticalInvariance, PTL DEF Spec, SharedIsKept
=============================================================================
