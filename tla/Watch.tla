------------------------------- MODULE Watch -------------------------------
(***************************************************************************)
(* The automatic transcription worker and its queue                        *)
(* (dev_harness/local_stt_watch.py): opting in and out, the polling tick   *)
(* that drops, admits and runs jobs, retries, interrupts and restarts.     *)
(*                                                                         *)
(* What transcribe does is in module Transcripts; here it is one of its    *)
(* outcomes.  The queue in memory and the queue file agree at every step,  *)
(* because each change is followed by save, which replaces the file: a     *)
(* worker that stops before save has changed nothing.                      *)
(***************************************************************************)
EXTENDS Integers

CONSTANTS
  Recordings,   \* capture directories
  MaxFaults,    \* bound: interrupts, kills, busy locks, outages, opt-outs
  Outages       \* when else than between ticks the storage may be missing:
                \*   "midTick" inside a tick, "optIn" at the first opt-in

ASSUME WatchAssumption ==
  /\ MaxFaults \in Nat
  /\ Outages \subseteq {"midTick", "optIn"}

VARIABLES
  cap,        \* cap[r]: the capture as the worker finds it
  root,       \* the listen-captures directory is reachable
  enabled,    \* stt-watch.json: enabled
  optedIn,    \* stt-watch.json holds an excluded list
  excluded,   \* the captures that were found at the first opt-in
  archive,    \* history: the captures that existed at the first opt-in
  engineOk,   \* stt-engine.json loads
  jobs,       \* jobs[r]: the queue entry of r, or NoJob
  arrival,    \* arrival[r]: place of r's entry in the order of the queue's dict
  arrivals,   \* entries made so far
  wpc,        \* the worker: off, or its place in the loop
  paths,      \* the captures this tick listed
  todo,       \* those of them it has still to look at
  cur,        \* the recording being transcribed
  outcome,    \* how its transcription ended
  errors,     \* errors[r]: how often transcribing r really failed
  faults

capVars == <<cap, root>>
settingVars == <<enabled, optedIn, excluded, archive, engineOk>>
orderVars == <<arrival, arrivals>>
jobVars == <<jobs, orderVars>>
tickVars == <<paths, todo, cur, outcome>>
vars == <<capVars, settingVars, jobVars, wpc, tickVars, errors, faults>>

MAX_ATTEMPTS == 3

Terminal == {"completed", "no_speech", "failed"}

Job == [state : {"none", "pending", "processing"} \cup Terminal,
        attempts : Int, due : BOOLEAN]

NoJob == [state |-> "none", attempts |-> 0, due |-> FALSE]

Queued(r) == jobs[r].state # "none"

Running == {"sleep", "drop", "admit", "start", "run", "record"}

Init ==
  /\ cap = [r \in Recordings |-> "absent"]
  /\ root = TRUE
  /\ enabled = FALSE
  /\ optedIn = FALSE
  /\ excluded = {}
  /\ archive = {}
  /\ engineOk = TRUE
  /\ jobs = [r \in Recordings |-> NoJob]
  /\ arrival = [r \in Recordings |-> 0]
  /\ arrivals = 0
  /\ wpc = "off"
  /\ paths = {}
  /\ todo = {}
  /\ cur \in Recordings
  /\ outcome = "none"
  /\ errors = [r \in Recordings |-> 0]
  /\ faults = 0

Fault ==
  /\ faults < MaxFaults
  /\ faults' = faults + 1

----------------------------------------------------------------------------
(* The environment.                                                         *)

(* A capture starts, is finished or recovered, and is deleted.              *)
CaptureStarts(r) ==
  /\ cap[r] = "absent"
  /\ cap' = [cap EXCEPT ![r] = "recording"]
  /\ UNCHANGED <<root, settingVars, jobVars, wpc, tickVars, errors, faults>>

CaptureEnds(r) ==
  /\ cap[r] = "recording"
  /\ \E c \in {"finished", "recovered"} : cap' = [cap EXCEPT ![r] = c]
  /\ UNCHANGED <<root, settingVars, jobVars, wpc, tickVars, errors, faults>>

Deleted(r) ==
  /\ cap[r] = "finished"
  /\ cap' = [cap EXCEPT ![r] = "deleted"]
  /\ UNCHANGED <<root, settingVars, jobVars, wpc, tickVars, errors, faults>>

(* The storage directory goes away and comes back.                          *)
RootVanishes ==
  /\ root
  /\ "midTick" \in Outages \/ wpc # "drop"
  /\ Fault
  /\ root' = FALSE
  /\ UNCHANGED <<cap, settingVars, jobVars, wpc, tickVars, errors>>

RootReturns ==
  /\ ~root
  /\ root' = TRUE
  /\ UNCHANGED <<cap, settingVars, jobVars, wpc, tickVars, errors, faults>>

(* The owner breaks and repairs stt-engine.json.                            *)
EngineBreaks ==
  /\ engineOk
  /\ Fault
  /\ engineOk' = FALSE
  /\ UNCHANGED <<capVars, enabled, optedIn, excluded, archive, jobVars, wpc, tickVars, errors>>

EngineRepaired ==
  /\ ~engineOk
  /\ engineOk' = TRUE
  /\ UNCHANGED <<capVars, enabled, optedIn, excluded, archive, jobVars, wpc, tickVars, errors, faults>>

----------------------------------------------------------------------------
(* enable, disable and the life of the worker process.                      *)

Stored == {r \in Recordings : cap[r] \notin {"absent", "deleted"}}

(* captures: without require_root a missing directory counts as empty.      *)
Present == IF root THEN Stored ELSE {}

(* Mutant: captures still in progress are not excluded.                     *)
EnableExcludesFinished ==
  /\ engineOk
  /\ ~enabled
  /\ root \/ optedIn \/ "optIn" \in Outages
  /\ enabled' = TRUE
  /\ optedIn' = TRUE
  /\ excluded' = IF optedIn THEN excluded ELSE {r \in Present : cap[r] # "recording"}
  /\ archive' = IF optedIn THEN archive ELSE Stored
  /\ UNCHANGED <<capVars, engineOk, jobVars, wpc, tickVars, errors, faults>>

(* The captures found at the first opt-in are excluded for good.            *)
enable ==
  /\ engineOk
  /\ ~enabled
  /\ root \/ optedIn \/ "optIn" \in Outages
  /\ enabled' = TRUE
  /\ optedIn' = TRUE
  /\ excluded' = IF optedIn THEN excluded ELSE Present
  /\ archive' = IF optedIn THEN archive ELSE Stored
  /\ UNCHANGED <<capVars, engineOk, jobVars, wpc, tickVars, errors, faults>>

(* The flag is written before the worker is told to stop.                   *)
disable ==
  /\ enabled
  /\ Fault
  /\ enabled' = FALSE
  /\ UNCHANGED <<capVars, optedIn, excluded, archive, engineOk, jobVars, wpc, tickVars, errors>>

(* Mutant: the attempt of an interrupted run stays counted.                 *)
RequeuedCounted(job) ==
  IF job.state = "processing" THEN [job EXCEPT !.state = "pending", !.due = TRUE] ELSE job

(* Mutant: a restart gives failed jobs another round.                       *)
RequeuedFailed(job) ==
  IF job.state \in {"processing", "failed"}
    THEN [state |-> "pending", due |-> TRUE,
          attempts |-> IF job.attempts >= 1 THEN job.attempts - 1 ELSE 0]
    ELSE job

(* An entry a stopped worker left as "processing" is queued again and the   *)
(* attempt it had begun is taken back.                                      *)
Requeued(job) ==
  IF job.state = "processing"
    THEN [state |-> "pending", due |-> TRUE,
          attempts |-> IF job.attempts >= 1 THEN job.attempts - 1 ELSE 0]
    ELSE job

(* start_if_enabled after its preflight, and Worker.__init__; .watch.lock   *)
(* admits one worker at a time.                                             *)
StartWorker ==
  /\ wpc = "off"
  /\ enabled
  /\ engineOk
  /\ wpc' = "sleep"
  /\ jobs' = [r \in Recordings |-> Requeued(jobs[r])]
  /\ UNCHANGED <<capVars, settingVars, orderVars, tickVars, errors, faults>>

(* The process is killed, or an exception leaves tick.                      *)
Kill ==
  /\ wpc \in Running
  /\ Fault
  /\ wpc' = "off"
  /\ UNCHANGED <<capVars, settingVars, jobVars, tickVars, errors>>

----------------------------------------------------------------------------
(* One turn of the loop in main and tick.                                   *)

(* The flag is off: the loop ends and the worker exits.                     *)
Leave ==
  /\ wpc = "sleep"
  /\ ~enabled
  /\ wpc' = "off"
  /\ UNCHANGED <<capVars, settingVars, jobVars, tickVars, errors, faults>>

(* Mutant: a missing directory is taken for an empty one.                   *)
ListWithoutRoot ==
  /\ wpc = "sleep"
  /\ enabled
  /\ wpc' = "drop"
  /\ paths' = Present
  /\ UNCHANGED <<capVars, settingVars, jobVars, todo, cur, outcome, errors, faults>>

(* Without the directory nothing is concluded about any recording.          *)
List ==
  /\ wpc = "sleep"
  /\ enabled
  /\ wpc' = IF root THEN "drop" ELSE "sleep"
  /\ paths' = Present
  /\ UNCHANGED <<capVars, settingVars, jobVars, todo, cur, outcome, errors, faults>>

(* audio.wav or audio.pcm.part can be seen.                                 *)
AudioSeen(r) == r \in paths /\ r \in Present

Drop ==
  /\ wpc = "drop"
  /\ wpc' = "admit"
  /\ jobs' = [r \in Recordings |-> IF AudioSeen(r) THEN jobs[r] ELSE NoJob]
  /\ todo' = paths
  /\ UNCHANGED <<capVars, settingVars, orderVars, paths, cur, outcome, errors, faults>>

(* The gate: finished, not excluded, not queued yet.                        *)
Admissible(r) ==
  /\ r \notin excluded
  /\ ~Queued(r)
  /\ root /\ cap[r] = "finished"

Skip(r) ==
  /\ wpc = "admit"
  /\ r \in todo
  /\ ~Admissible(r)
  /\ todo' = todo \ {r}
  /\ UNCHANGED <<capVars, settingVars, jobVars, wpc, paths, cur, outcome, errors, faults>>

Admit(r) ==
  /\ wpc = "admit"
  /\ r \in todo
  /\ Admissible(r)
  /\ engineOk
  /\ todo' = todo \ {r}
  /\ jobs' = [jobs EXCEPT ![r] = [state |-> "pending", attempts |-> 0, due |-> TRUE]]
  /\ arrivals' = arrivals + 1
  /\ arrival' = [arrival EXCEPT ![r] = arrivals']
  /\ UNCHANGED <<capVars, settingVars, wpc, paths, cur, outcome, errors, faults>>

(* EngineConfig.load raises outside any handler: the worker exits.          *)
AdmitRaises(r) ==
  /\ wpc = "admit"
  /\ r \in todo
  /\ Admissible(r)
  /\ ~engineOk
  /\ wpc' = "off"
  /\ UNCHANGED <<capVars, settingVars, jobVars, tickVars, errors, faults>>

Ready(r) == jobs[r].state = "pending" /\ jobs[r].due

(* The first entry that is pending and due.                                 *)
Pick(r) ==
  /\ wpc = "admit"
  /\ todo = {}
  /\ Ready(r)
  /\ \A q \in Recordings : Ready(q) => arrival[r] <= arrival[q]
  /\ cur' = r
  /\ jobs' = [jobs EXCEPT ![r] =
       [state |-> "processing", attempts |-> @.attempts + 1, due |-> TRUE]]
  /\ wpc' = "start"
  /\ UNCHANGED <<capVars, settingVars, orderVars, paths, todo, outcome, errors, faults>>

PickNone ==
  /\ wpc = "admit"
  /\ todo = {}
  /\ \A r \in Recordings : ~Ready(r)
  /\ wpc' = "sleep"
  /\ UNCHANGED <<capVars, settingVars, jobVars, tickVars, errors, faults>>

(* The try block is entered.                                                *)
Try ==
  /\ wpc = "start"
  /\ wpc' = "run"
  /\ UNCHANGED <<capVars, settingVars, jobVars, tickVars, errors, faults>>

Ends(result) ==
  /\ wpc = "run"
  /\ wpc' = "record"
  /\ outcome' = result
  /\ UNCHANGED <<capVars, settingVars, jobVars, paths, todo, cur>>

Succeeds ==
  /\ root /\ cap[cur] = "finished" /\ engineOk
  /\ \E result \in {"completed", "no_speech"} : Ends(result)
  /\ UNCHANGED <<errors, faults>>

Busy ==
  /\ Ends("busy")
  /\ Fault
  /\ UNCHANGED errors

Errs ==
  /\ Ends("error")
  /\ errors' = [errors EXCEPT ![cur] = @ + 1]
  /\ UNCHANGED faults

(* Mutant: an error is not counted, like a busy lock.                       *)
HandledUncounted(job, result) ==
  IF result \in {"completed", "no_speech"}
    THEN [job EXCEPT !.state = result, !.due = TRUE]
    ELSE [state |-> "pending", attempts |-> job.attempts - 1, due |-> FALSE]

(* Mutant: a busy lock leaves the entry as "processing".                    *)
HandledBusyStays(job, result) ==
  CASE result \in {"completed", "no_speech"} -> [job EXCEPT !.state = result, !.due = TRUE]
    [] result = "busy" -> [job EXCEPT !.attempts = @ - 1, !.due = FALSE]
    [] result = "error" ->
         [job EXCEPT !.state = IF job.attempts >= MAX_ATTEMPTS THEN "failed" ELSE "pending",
                     !.due = FALSE]

(* The handlers of tick: what becomes of the entry after each outcome.      *)
Handled(job, result) ==
  CASE result \in {"completed", "no_speech"} -> [job EXCEPT !.state = result, !.due = TRUE]
    [] result = "busy" -> [state |-> "pending", attempts |-> job.attempts - 1, due |-> FALSE]
    [] result = "error" ->
         [job EXCEPT !.state = IF job.attempts >= MAX_ATTEMPTS THEN "failed" ELSE "pending",
                     !.due = FALSE]

Record ==
  /\ wpc = "record"
  /\ jobs' = [jobs EXCEPT ![cur] = Handled(@, outcome)]
  /\ wpc' = "sleep"
  /\ outcome' = "none"
  /\ UNCHANGED <<capVars, settingVars, orderVars, paths, todo, cur, errors, faults>>

(* SIGTERM or SIGINT while transcribe runs: the same handler as for a busy  *)
(* lock, and the worker exits.  Elsewhere the signal is like Kill.          *)
Interrupt ==
  /\ wpc = "run"
  /\ Fault
  /\ jobs' = [jobs EXCEPT ![cur] = Handled(@, "busy")]
  /\ wpc' = "off"
  /\ UNCHANGED <<capVars, settingVars, orderVars, tickVars, errors>>

(* retry_at is reached.                                                     *)
Elapse(r) ==
  /\ jobs[r].state = "pending"
  /\ ~jobs[r].due
  /\ jobs' = [jobs EXCEPT ![r].due = TRUE]
  /\ UNCHANGED <<capVars, settingVars, orderVars, wpc, tickVars, errors, faults>>

----------------------------------------------------------------------------
Environment ==
  \/ \E r \in Recordings : CaptureStarts(r) \/ CaptureEnds(r) \/ Deleted(r) \/ Elapse(r)
  \/ RootVanishes \/ RootReturns \/ EngineBreaks \/ EngineRepaired

tick ==
  \/ List \/ Drop
  \/ \E r \in Recordings : Skip(r) \/ Admit(r) \/ AdmitRaises(r) \/ Pick(r)
  \/ PickNone \/ Try
  \/ Succeeds \/ Busy \/ Errs
  \/ Record

Next ==
  \/ Environment
  \/ enable \/ disable
  \/ StartWorker \/ Leave \/ Kill \/ Interrupt
  \/ tick

Spec == Init /\ [][Next]_vars

(* The worker's loop runs on and transcribe ends; the owner starts it again *)
(* after it stopped, repairs broken settings and brings back the storage;   *)
(* time passes.                                                             *)
Fairness ==
  /\ WF_vars(tick)
  /\ WF_vars(StartWorker)
  /\ WF_vars(RootReturns)
  /\ WF_vars(EngineRepaired)
  /\ \A r \in Recordings : WF_vars(Elapse(r))

FairSpec == Spec /\ Fairness

----------------------------------------------------------------------------
(* Every variable holds a value of its kind. *)
TypeOK ==
  /\ cap \in [Recordings -> {"absent", "recording", "finished", "recovered", "deleted"}]
  /\ root \in BOOLEAN /\ enabled \in BOOLEAN /\ optedIn \in BOOLEAN /\ engineOk \in BOOLEAN
  /\ excluded \in SUBSET Recordings /\ archive \in SUBSET Recordings
  /\ jobs \in [Recordings -> Job]
  /\ arrival \in [Recordings -> Nat] /\ arrivals \in Nat
  /\ wpc \in {"off"} \cup Running
  /\ paths \in SUBSET Recordings
  /\ todo \in SUBSET Recordings
  /\ cur \in Recordings
  /\ outcome \in {"none", "completed", "no_speech", "busy", "error"}
  /\ errors \in [Recordings -> Nat]
  /\ faults \in 0..MaxFaults

(* The attempt that is running or ended well.                               *)
Good(r) == IF jobs[r].state \in {"processing", "completed", "no_speech"} THEN 1 ELSE 0

(* Only real errors use up attempts: a busy lock, an interrupt, a kill and  *)
(* a restart at any point give the attempt back, so that a job is reported  *)
(* as failed only after three errors, and it never gets more than three     *)
(* attempts.                                                                *)
OnlyErrorsCount ==
  \A r \in Recordings :
    /\ jobs[r].attempts \in 0..MAX_ATTEMPTS
    /\ jobs[r].attempts - Good(r) <= errors[r]
    /\ jobs[r].state = "failed" => errors[r] >= MAX_ATTEMPTS

(* Every error uses up an attempt unless the worker stopped before it was   *)
(* written down: a recording that cannot be transcribed is not tried for    *)
(* ever.                                                                    *)
ErrorsAreBounded ==
  \A r \in Recordings : errors[r] <= MAX_ATTEMPTS + faults

(* A recording that existed at the first opt-in, finished or not, is never  *)
(* queued, however often processing is switched off and on.                 *)
ArchiveStaysOut == \A r \in archive : ~Queued(r)

(* A queue entry disappears only when its recording was deleted: missing    *)
(* storage is not evidence of that.                                         *)
NoJobLost ==
  [][\A r \in Recordings : Queued(r) /\ ~Queued(r)' => cap[r] = "deleted"]_vars

(* A finished job is not run again by itself, also not after a restart.     *)
TerminalIsFinal ==
  [][\A r \in Recordings :
       jobs[r].state \in Terminal /\ Queued(r)' => jobs'[r] = jobs[r]]_vars

(* Every finished recording that is not excluded is eventually settled      *)
(* (transcribed, without speech, or failed), or deleted, or processing was  *)
(* switched off: no retry, busy lock or other job keeps it waiting.         *)
EveryRecordingSettles ==
  \A r \in Recordings :
    (enabled /\ r \notin excluded /\ cap[r] = "finished") ~>
      (jobs[r].state \in Terminal \/ cap[r] = "deleted" \/ ~enabled)
=============================================================================
