# Omiloc in TLA+

Omiloc is the local-only edition of Omi: a phone app streams audio from a
wearable or the phone's microphone to a backend on the owner's Mac, which keeps
every recording as a WAV file, transcribes it with a local model and stores the
transcript as a conversation in a local database. This directory models two parts
of the code. One is what the fork adds and what carries its guarantees: that no
audio is lost, that what appears in the library is whole, that transcription
happens once and is retried sensibly, that deletion is complete and touches nothing
else, and that the live preview gets in nobody's way. The other is the core of the
inherited backend that is hardest to get right: the durable finalization of a
conversation, its processing without a durable job, and the sweep that recovers what
crashed processors leave behind.

## The system

| Part | Code | State it keeps | Operations | Module |
|---|---|---|---|---|
| Durable capture | `backend/utils/offline_audio_capture.py`, driven by `backend/routers/listen/` and `backend/main.py` | one directory per session with `audio.pcm.part`, `metadata.json.part`, `audio.wav`, `metadata.json`; counters in memory | constructor, `record_decoded_frame`, `record_decode_error`, `finalize`, startup recovery | `Capture`, abstractly `Archive` |
| Transcription | `dev_harness/local_stt.py` | one folder per result key with `manifest.json` and `audio.json`; the lock `local-transcripts/.lock` | `transcribe` | `Transcripts` |
| Import | `backend/scripts/import_local_transcript.py` | conversations in the emulated database | preflight, create-if-absent | `Transcripts` |
| Deletion | `dev_harness/local_library_delete.py`, `backend/utils/local_recording_delete.py`, `backend/scripts/delete_local_recording.py` | all of the above | `delete_recording` | `Transcripts` |
| Transcription queue | `dev_harness/local_stt_watch.py` | `watch-queue.json`, `stt-watch.json`, the lock `.watch.lock` | `enable`, `disable`, the worker's loop and `tick` | `Watch` |
| Library server | `dev_harness/local_library.py` | scan result, token map, its own lock | scan, serve, delete | only its deletion lock |
| Live preview | `backend/utils/local_live_preview.py`, `scripts/local_live_preview/serve_parakeet.py`, `ParakeetWorker.swift` | client: queue of audio, byte count, flags; server: `ready`, `active`, the inference lock; worker: one stream, two pipes | `feed`, `end_input`, `finish`, `_run`, `_send`, `_receive`; `lifespan`, `/asr`; the worker's loop | `Preview` |
| Durable finalization | `backend/database/conversation_finalization_jobs.py`, `routers/conversation_finalization.py`, `utils/pusher_finalization.py`, `utils/conversations/finalizer.py`, `services/conversation_finalization.py`, `utils/cloud_tasks.py` | the job document with status, generation, lease epoch and fanout; the conversation's status; one Cloud Task per generation; the run lock; projection counters | admit, enqueue, deliver, claim, persist, fanout, complete, fence, fail, replay, resume and abandon of BYOK jobs | `Finalization` |
| Processing without a job | `backend/utils/conversations/lifecycle.py`, `routers/conversations.py`, the orphan transactions of `conversation_finalization_jobs.py` | the conversation's status, `deferred` and `processing_admitted_at`; a heartbeat per processor | admit, reacquire, renew, persist, roll back, recover, scan, close | `Admission` |
| Bounded sweep | the paged scans and cursors of `conversation_finalization_jobs.py` | a persisted cursor with a generation | read cursor, scan, advance, act | `Sweep` |
| Process harness | `dev_harness/cli.py`, `safety.py`, `supervise.py`, `owned_child.py` | service records, the ownership sentinel | start, stop, status | not modelled |
| Pairing | `backend/utils/local_transport_auth.py`, `dev_harness/local_mac.py` | pairing file, key | configure, rotate, check | not modelled |
| Transcript normalisation | `backend/utils/local_transcript.py` | none | `normalize_segments`, `build_conversation` | not modelled |
| Installers, launcher, web page, phone app, rest of the upstream backend | see `PROJECT.json` | | | not modelled |

How they interact:

- The parts share **files, not messages**. Capture publishes a directory; the
  queue worker, `transcribe`, the library and the deletion look at it from other
  processes, at any time, and decide by a common gate: `audio.wav` and
  `metadata.json` are there, `audio.pcm.part` is gone, the status is `completed`.
- `transcribe` (run by the worker and by hand), `delete_recording` (run by the
  library server) and the live preview exclude each other with a non-blocking
  `flock` on one file. The kernel drops it when a process dies.
- `transcribe` and `delete_recording` change the database through child
  processes with a 60 second timeout, which do not inherit the lock.
- The worker and `transcribe` communicate by exceptions: busy, no speech, error.
- The backend's preview client talks to the ASR server over a WebSocket, the server
  to its resident worker process over two pipes. Three coroutines on each side
  interleave at every `await`. The teardown of a recording waits for the preview before it
  finalizes the capture.
- Finalization has no shared memory at all: handlers in several pods meet in
  Firestore transactions, a Redis lock and named Cloud Tasks. Every transaction is
  atomic; a handler can be lost, overtaken or run twice between any two.

What is hard: every process may die or get an I/O error between any two file
operations; checks are made before locks are taken; the same work is retried
after a crash that happened after it was done; two recordings may be identical
and share a transcript; storage may be missing for a moment; a lease expires
under a handler that lives on; a queue delivers twice, late or not at all; a
bounded scan has to reach every row; a task that is awaited no longer answers. `PROJECT.json`
lists these hazards at their lines, with the properties that cover them.

## The modules

### Archive and Capture

`Archive` is what capture promises: a session is *heard*, frame by frame, and at
one instant turns from invisible into a recording that holds all that was heard
and never changes again. A `completed` one is exact in every number; a
`recovered` one is exact in its audio and may miss the last frame in its frame
and error counters.

`Capture` is the code. `pc[s]` is the place in the constructor, in a recording
call, in `finalize` or in `_recover_one` that works on session `s`; `pcm`, `part`,
`wav`, `meta` are its four files; `mem` the counters of the capture object.
After a crash `mem` stays as the record of what the session had received. Audio is
its byte count: the part only grows at its end, so the count says which prefix
of the audio a file holds. Metadata is its status and three counters. Each write or
unlink that can be separated from the next by a crash is an action; the
temporary-file-and-rename of `_atomic_json` and `_write_wav_atomic` is one step,
since a reader sees the old or the new file. The in-memory steps between two
file operations are merged into the earlier one. I/O errors are `StartFails`,
`RecordFails`, `FinalizeFails` and `RecoverFails`; the process dying is `Crash`.
Recovery (`Restart`, `Recover*`, `Serve`) runs before the backend serves, as
`startup_event` awaits it. `ShortWrites` lets the unbuffered write store a part of a
frame (`Stored`), which it may on a full disk.

### Transcripts

One module for the three programs that share the lock. `cap[r]` is what is left of
recording `r`; `manifest`, `raw` and `conv` are the folder's two files and the
conversation of each key, a key being the pair of audio digest and engine
profile whose hash is the folder's name and the conversation's id. Transcribers
`p` go through `pc[p]` = inspected, ready, locked, prepared, running, have, committed. The look for a
saved result (`StartModel`) and the write of a new one (`Infer`) are two steps, with the model's run
between them: only the lock keeps another transcriber from writing in between. The deleter goes through
`dpc` = checked, locked, scanned, database, files, audio, metadata. `copies` is
a history variable for `SharedIsKept`. Files that a
model run leaves in its temporary folder, symlink checks and the segments'
content are left out; a raw result is speech, silence or segments that the import
rejects. Deletions are one at a time because `do_DELETE` holds the library's lock.
A recording appears in one step, which is what `Archive` promises and
`CaptureProofs` proves. Losing the database (`Lose`) is always possible: it also
stands for a deletion child that outlives its parent.

The constant `Faults` switches on the two stops under which the code does not keep
all of its promises: `orphanImport`, the transcriber is killed while its import child lives
on, and `rmtreeStops`, a deletion ends inside `rmtree`. All other stops (`Kill`,
`DelStops`, every error exit) are always possible.

### Watch

The opt-in settings, the queue and the worker loop. `cap[r]` is the capture as the
worker finds it, `jobs[r]` its queue entry (state, attempts, and whether
`retry_at` has passed), `arrival` the order of the entries, `wpc` the place in
the loop: sleep, drop, admit, start, run, record. `errors` and `archive` are history
variables: how often `r` really failed, and what existed at the first opt-in.
Memory and queue file are one variable, because each change is followed by
`save`, which replaces the file, and a worker that stops in between has changed
nothing that anybody sees. `transcribe` is one of its outcomes. A signal inside
the `try` is `Interrupt`, elsewhere it acts like `Kill`.
`Outages` says whether the storage may also be missing inside a tick
(`midTick`) or at the first opt-in (`optIn`); between ticks it always may.

### Finalization

One conversation and its job, in the `cloud_tasks` dispatch mode. `conv` is the
conversation document, `job` the outbox row, `tasks[g]` the named task of
generation `g`, `lock` the run lock of the task handlers, `worker[w]` the local state of one
handler invocation (its place, the generation it was woken for, the epoch of its lease, whether
this is its last attempt), `proj` what this job has added to its projection
shard, `effects` a history variable for what the fanout did. Each Firestore transaction is one
action; between two of them a handler can be lost (`Crash`), pass its deadline, or
be overtaken after its lease ran out. The owner discards, restores, merges and
deletes at any time. `Kinds` is what `process_conversation` does with this account:
processes at once (`eager`), stores a deferred row, returns early for the
paywall, or refuses because the account is being migrated. Time is not measured:
lease, replay delay and abandonment age run out as steps of their own.

### Admission

The same conversation when no durable job exists: the synchronous REST route and the
first opening of a deferred desktop row. The owner of the row is whoever wrote
`processing_admitted_at` last; a stamp is a number, and only its identity and
its age past the threshold matter. The threshold is four renewals long, so a stamp
gets old (`Ages`) only when nobody is `Renewing` it: when there is no heartbeat, or one whose
last `Patience` = 3 renewals did not stamp the row. There are several ways to come to that. A
renewal of a discarded row is refused while the heartbeat goes on (`RenewRefused`); one error ends
the heartbeat for good (`RenewFails`); and a first opening is stamped when it is reacquired, but
gets its heartbeat only when the executor runs it (`RunEnrichment`), and its first renewal an interval
later. `Starts` has the rows there can be: a
session's row, one stranded by a release without stamps (`legacy`), one too large
to be stamped (`huge`), a deferred one, and a deferred one that carries a job id (`bound`). The reprocess route
(`routers/conversations.py:496`) processes a row without asking for admission and is outside: what is
said of processors is said of the two lanes that are admitted.

### Sweep

The loop behind three scans: rows are positions in document order; `StopsAt`,
`Exhausted`, `Window` and `NextCursor` are the result of the paged loop with its
three reasons to end (limit, `max_scan`, a short page). The scan is one step
because its query pages are reads; the cursor's read, its compare-and-swap and the
transaction on each candidate are steps of their own. The cursor's generation is
seen from each pod as "still the one I read".

### Preview

`cli[s]` is `LocalLivePreview` of one recording, `srv[s]` the handler of its
connection, `up` and `down` the two directions of its socket, `worker` the resident process with
its pipes, `server` and `ready` the server's lifespan, `lock` the inference lock that
`Transcripts` also models. Audio is counted in frames; a text is the session it came
from. Socket and pipe have a capacity, so that senders wait. The worker can die or hang at any
place; time limits pass by themselves when it hangs and otherwise count as faults.
`heard` is a history variable: what the model took in. `finish` ends in one of three ways: the
preview is done, its time limit passes, which is a failure, or the teardown that awaits it is itself
cancelled (`FinishCancelled`); then the preview ends with neither a failure nor an
acknowledgement, and the exception goes on to the `finally` blocks that finalize the capture.

## Runs

All bounds are constants of the modules. Two sessions or recordings are enough for
every interaction: the code treats different ones independently except for the
recovery loop, the shared transcript, the queue order and the locks, and each of
these is between two.

| Run | Bounds | Shows |
|---|---|---|
| `capture` | 2 sessions, frames of 1 and 2 bytes (1 is rejected), 3 frames, 3 faults | `NoAudioLost`, `AdmittedIsWhole`, `RecoveredAccount`, `StartupAccounts`, `ImplementsArchive`, and `LeftoversAreRecovered`. Three faults reach a failed finalize, a crash during the recovery that follows, and a third one during the next recovery; a constructor that failed or was cut off leaves a part without metadata, which recovery rejects. `PublishedIsFinal` is part of what `Archive` says, and proved. |
| `transcripts_shared` | 2 recordings of the same audio, 2 profiles, 2 transcribers | `NothingOutlivesAudio`, `SharedIsKept`, `ReplaySource` |
| `transcripts_stops` | 2 equal recordings, 1 profile, 2 transcribers, both faults | `EditsPreserved`, `ResultIsReused`, `LockIsReleased` |
| `watch` | 2 recordings, 1 fault | `OnlyErrorsCount`, `ErrorsAreBounded`, `ArchiveStaysOut`, `NoJobLost`, `TerminalIsFinal`, `EveryRecordingSettles`. The one fault (a kill, an interrupt, a busy lock, missing storage, broken settings or an opt-out) can come at any place of the loop and during any of the three attempts, which fail without counting as faults. |
| `finalization` | 2 handlers, 3 generations, 2 attempts, 3 lease epochs, 2 faults, all kinds of account | `ProjectionMatches`, `LeaseIsExclusive`, `SuccessHadItsFanout`, `NoPlatformTask`, `TerminalIsFinal`, `NoJobLeavesProcessing`, `DeletedStaysDeleted`, `EveryJobSettles`. Two handlers are one that was overtaken and the one that overtook it; three generations are the first dispatch, its replay and the replay of that. |
| `admission` | 2 processors, 2 pods, 5 stamps, 3 faults | `OneProcessor`, `SweepSparesTheRenewed`, `ResultIsKept`, `ProcessingEnds`. `ResultIsKept` is about the rollback to `in_progress`; a first opening that fails in the derived effects re-arms `deferred` on a stored result, as the code means it to. `ProcessingEnds` assumes that the sweep reaches the row, which is what `sweep` and `sweep_starves` are about. |
| `sweep` | 3 rows, limit 2, `max_scan` 2, 2 pods, 1 fault | `CursorIsNotRewound`, `EveryOrphanIsClosed` when there are no rows that are collected but refused. Three rows with windows of two make the cursor wrap inside and at the end of a page. |
| `preview` | 2 recordings (of 2 frames and of none), a queue, socket and pipe of 1, 1 fault | `InferenceUnderLock`, `OneSession`, `WorkerIsFresh`, `PendingIsExact`, `AckIsComplete`, `TeardownGoesOn`, `LockComesBack`. All buffers can be full at once, audio can come that the queue has no room for, and the second recording can connect at every stage of the first. |

`capture`, `finalization`, `admission` and `preview` do not check
deadlock: when the faults are used up and all sessions, jobs or rows are settled,
nothing remains to be done. The other runs check it. Symmetry is used in runs without
liveness only. The type invariants are not part of a run; they are proved (below).

### Where code and documents disagree

Four runs end with a violation. Each is listed with its quotation under
`findings` in `PROJECT.json`.

- `capture_short_write`: the result of the unbuffered `write` is ignored; on a
  disk that fills up a completed recording claims audio it does not hold.
- `finalization_paywall`: the early return for a paywalled account sets the status on
  the object in memory only. The finalizer takes the missing write for a lost row
  and fences the job, and the stored conversation stays on `processing`: it carries
  a job id, so that no sweep looks at it.
- `admission_restored` (`SweepSparesTheLiving`): a docstring says that a live processor "can never be
  terminalized". But a discarded row is not renewed. If its owner restores it after its stamp has
  passed the threshold, a sweep that comes before the next renewal closes it, under a processor
  whose heartbeat runs.
- `sweep_starves`: a page in which the limit filled up counts as the last one if it is
  short, so the rows behind that place are skipped and the cursor wraps. Discarded
  rows on `processing` are collected and refused in every round; if they fill the
  limit, an orphan behind them on the last page is never examined.

Further disagreements have no run of their own. The first four show when the
constant that allows them is set; the theorems name them as assumptions.

- `Faults = {"orphanImport"}`, `NothingOutlivesAudio`: the lock does not cover an
  import child whose parent was killed; it can commit after the deletion, although
  `local_library_delete.py:39` says that the lock stops that race.
- `Faults = {"rmtreeStops"}`, `NothingOutlivesAudio`: a deletion that stops inside
  `rmtree` after the manifest leaves a transcript which the retry does not find.
- `Outages = {"midTick"}`, `NoJobLost`: storage that goes away between the listing
  and the checks of one tick empties the queue, although `local_stt_watch.py:152`
  says that missing storage is no evidence of deletion.
- `Outages = {"optIn"}`, `ArchiveStaysOut`: a first opt-in while the storage is
  missing excludes nothing, and the old archive is queued later.
- `ProcessingEnds` leaves out rows with a job id: a crash during the first opening
  of a row that a durable job left deferred is recovered by nobody.
- `SweepSparesTheLiving` is broken in two more ways, which show with `MaxFaults = 1` and with
  `Starts = {"deferred"}`. One failed renewal, persistent or not, ends the heartbeat
  (`lifecycle.py:288`; line 279 speaks of a persistent error), and the processor lives on. And a first
  opening that waits for the bounded executor longer than the threshold has no heartbeat yet
  (`routers/conversations.py:220`), although line 168 says that the sweep cannot come "between clear
  and first heartbeat".
- A job that ends fenced may have had its effects delivered: a handler that is overtaken between the
  effects and their acknowledgement leaves both.
- `LockComesBack` has one exception, `Jammed`: `drain` has no time limit
  (`serve_parakeet.py:56`), so a worker that hangs with its input pipe full keeps the
  lock from the final transcription until the server is stopped.

## Fairness

- `Capture`: an open session is eventually disconnected and its `finalize`
  runs on (the runtime's `finally` blocks); the owner starts the backend again
  after a crash, and startup runs on. Nothing is assumed of the client's frames.
- `Transcripts`: a process that holds the lock runs on, because model and
  database calls have timeouts (3600 and 60 seconds) and end in one of the
  modelled ways; a preview session ends with its socket. Nobody has to ask for the lock.
- `Watch`: the loop runs on, `retry_at` passes, and the owner starts a worker that
  stopped, repairs settings and brings back storage. The number of faults is
  bounded: a worker that is killed in every attempt makes no progress, in the
  model as in the code.
- `Finalization`: a handler that is not lost runs on; Cloud Tasks delivers what is
  ready; the periodic reconciler replays and abandons; leases, locks and delays run
  out. Nothing is assumed of the owner or of sessions that bring keys, so
  `EveryJobSettles` is about jobs that wait for none.
- `Admission`, `Sweep`: a processor that is not killed ends, every pod sweeps
  periodically (`main.py`), and a row that nobody renews gets old.
- `Preview`: both event loops run what is ready, recordings end, and the worker works
  unless it hangs. Nobody has to start the server; a hung worker stays hung.

## Proofs

The proofs hold for every value of the constants. TLC checks the same
definitions on the small instances above.

**`CaptureProofs`**. `LoopInv` says what holds of every session even if a write
can be short: where the code needs the PCM part it is there (`PartInv`), which process may
be at work (`ProcessInv`), and while startup runs every PCM part is still to be
visited or was counted as failed (`PassInv`). It is inductive with `TypeOK`, and gives
`TypeCorrect` and `StartupIsAccounted` also when writes are short.

The rest assumes `~ShortWrites`. `NoAudioLost` and the others are
not inductive: that a published WAV is whole depends on what each place in
`finalize` and `_recover_one` has already done. `SessionInv` says, for every
session, what the files are at each place (`FilesInv`), what holds at
any place (`AudioInv`: a PCM part that exists holds all that was received, the
progress counters lag by at most one frame, and a part is gone only after the
WAV and exact metadata are there), and which process may be at work
(`ProcessInv`). `OwnStep` and `OthersUntouched` show that each step keeps it. From it
follow `AudioIsKept`, `AdmissionIsExact`, `RecoveryIsExact`, then
`PublicationIsFinal` and `Refinement`: `Capture` implements `Archive` with
`heard <- mem` and `shown` the directory seen through the readers' gate. The
unlink of the PCM part is the publication, recording calls are
`HearFrame` and `HearError`, everything else stutters.

**`TranscriptsProofs`**. `TypeCorrect`, `EditsAreKept`, `ResultsAreReused` and `SharedTranscriptKept`
hold whatever faults happen; `ReplaySourceKept` unless imports are orphaned;
`DeletionIsComplete` without both. The invariants are `LockInv` (the lock is held
exactly by the process in its critical part), `FolderInv` (what it knows of its
folder), `OrderInv` (folders are removed after their conversations) for
`ReplaySource`; `ResultInv`, `KeyInv` and `SweepInv` (the deleter knows all
folders of its audio until they are gone) for `NothingOutlivesAudio`; `CopiesInv`
(the copies seen under the lock are still there when they are looked for) for
`SharedIsKept`. `ResultsAreReused` rests on the lock: `RunInv` says that the folder of a
transcriber whose model runs has no result, and that stays so because, by `LockInv`, no other process is
in its critical part (`CriticalStep`).

**`WatchProofs`**. `TypeCorrect`, `AttemptsAccounted` and `TerminalStays` hold
for all outages, `JobsAreKept` and `RetriesAreBounded` unless storage vanishes inside a tick
(then an entry is dropped and queued again with its attempts at zero),
`ArchiveIsExcluded` unless it is missing at the first opt-in. The invariants are
`CurInv` (the entry the worker is busy with), `AttemptInv` (what each state of an
entry says of attempts and errors), `ErrorInv` (each error used up an attempt or was cut
off by a fault before it was written down; `Unspent` is the attempt that has not
failed), `StorageInv` (a tick about to drop entries has
seen all of them) and `ArchiveInv` (nothing is queued before the first opt-in).

**`FinalizationProofs`**. Nothing is assumed of the number of handlers, generations,
attempts, epochs or faults. The invariant is `IInv`, the conjunction of

- `TypeOK`;
- `JobInv`: a job that exists has a generation, it has an outcome only when it is
  terminal, and a job with keys is hidden from the reconciler;
- `LeaseInv`: a handler at work presents an epoch which the job has reached, and no other
  handler has it. That is what fences one that was overtaken;
- `FanoutInv`: the fanout is acknowledged only after its effects, a handler about to
  acknowledge has had them, and a job that succeeded has had its fanout; needed for
  `SuccessHadItsFanout`;
- `PlatformInv`: there is no task, and no handler that a task woke, before the job
  or for a job with keys;
- `CourseInv`: a handler past the processing has seen the conversation leave it (for accounts
  that process at once or defer), for `NoJobLeavesProcessing`;
- `ProjectionMatches`, which is inductive with `JobInv`.

There is one lemma per part of `IInv` (`TypeStep`, `JobStep`, `LeaseStep`, `FanoutStep`,
`PlatformStep`, `CourseStep`, `ProjectionStep`) with one case per action. From them follow
`TypeCorrect`, `ProjectionIsExact`, `LeasesAreFenced`, `FanoutBeforeSuccess`,
`KeysStayWithSessions`, `TerminalStays`, `DeletionStays` and `NoConversationIsStranded`.

**`AdmissionProofs`**. `TokenInv`: the two tokens of admission that the row carries
(`in_progress` and `deferred`) are never up together, and both are down while a
processor is at work, who is alone; it gives `ProcessorIsAlone`. `ResultInv`: whoever could still
roll the row back has not stored a result into it; it gives `ResultStays`.
`StampInv`: nobody renews an old row, and a stamp that a sweep scanned and
finds unchanged is an old one; it gives `TheRenewedAreSpared`. There is one lemma per
action.

**`SweepProofs`**. `CursorInv`: a pod whose generation is still current began its scan
at the cursor. `TypeCorrect` needs that windows have a least and a greatest
position, which is proved from the well-foundedness of the numbers; `CursorIsFenced`
follows.

**`PreviewProofs`**. `ServerInv` says that handlers exist only while the server is up, that one
at most is in session and that it, or a start of the server, holds the lock; it
is inductive with `TypeOK` and gives `SessionIsAlone`. `WorkerInv` is the protocol between
handler and worker: at each place of the handler, `Chat` says what can be in the
two pipes (a start command or its answer; audio and texts; audio, then
stop; texts, then finished), so that a session which passed, and only such a session is
followed by another with the same worker, has left nothing behind. From both follow
`LockCoversInference` and `FreshWorker`.

**`DeliveryProofs`** follows the audio of a preview through all of its queues, and the
acknowledgement back. `AckIsComplete` relates the first and the last station of that way, so
`DeliveryInv` has to account for the frames in between:

- `ClientInv`: the counter is the number of frames in the queue, and the end of the input
  stands behind all audio in the queue, in the sender's hand and on the socket;
- `FlowInv`: what the client accepted is what waits there, in the worker's pipe, and
  what the worker has taken in, as long as the handler reads the worker's
  lines; once the feeder has passed the end on, nothing waits but the pipe;
  once "finished" is said or read, nothing waits at all (`Complete`);
- `AckInv`: an acknowledgement, on the socket or at the client, comes from a handler that is gone
  and means `Complete`; a client closes without a failure only with it, unless its teardown
  was cancelled;
- `LinesInv`: also the lines a dead worker has left say "finished" once at most and only in
  the session that is read;
- `StreamInv`: the worker's stream and input are those of the session.

It is inductive together with the invariants of `PreviewProofs`. That a queue is counted right
rests on lemmas about `FramesIn` (`FramesInAppend`, `FramesInTail`), proved with cardinalities
and a bijection. One lemma says for each kind of step what it does to the
invariant of its own session (`Keeps`, `KeepsTake`, `Fed`, `Heard`, `Stopped`, `Fails`), `OwnStep` that the
others are not touched. `PendingCounts` and `AcknowledgedIsHeard` follow, for any number
of recordings, any buffers and any faults.

Only model-checked: the liveness properties and everything under fairness, which
the prover cannot treat. Every invariant and every other action property of a
passing run is proved.

## Not modelled

- Loss of unsynced pages in a power failure: a crash here ends a process.
- What segments and words contain, audio codecs, the models themselves.
- Path, symlink and permission checks, HTTP and authentication.
- Of finalization: meeting receipts and their backfill, the metrics summary, and the
  dispatch modes other than `cloud_tasks`.
- Of capture: the steps of `_teardown_components` before `finalize` other than the wait for the
  preview. `finalize` stands in a `finally` block behind them; that it is reached is not shown.
- Of processing without a job: the reprocess route.
- Of the preview: a cancellation inside the cleanup of a handler, which only the shutdown of the
  server brings about and which leaves the unlock to `lifespan`; the alternative WLK server, and a server that is killed while its
  worker lives on until it reads the end of its input.
- The rest of the upstream backend (sync, memories, chat, apps, LLM gateway): it is many
  times the size of all this, mostly calls to external services whose answers decide
  what happens, and switched off in offline mode.
- The phone app, installers, launcher and web page, and the other components marked `not_modelled`
  in `PROJECT.json`.

## Plan

1. Done: capture and its abstract specification; transcription, import and
   deletion; the queue; the live preview; durable finalization, admission and the sweep; the proofs
   above.
2. A composition of `Capture`, `Watch` and `Transcripts` on one set of
   directories, in place of the environment actions `Appear`, `CaptureEnds` and
   `Deleted`, with the property that every finished recording ends up with its
   conversation.
3. Library server: scan and token cache against captures that appear and deletions
   that stop half way. Process harness: service records, ownership, stop and restart.
   Pairing and key rotation.
4. Pure algorithms: `normalize_segments`, the WhisperKit normalisation,
   `byte_range`, against reference definitions.
5. Proofs about the modules of 2 and 3; what is modelled now is proved up to liveness.
