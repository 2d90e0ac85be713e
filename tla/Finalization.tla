---------------------------- MODULE Finalization ----------------------------
(***************************************************************************)
(* The durable finalization of one conversation, as the upstream backend   *)
(* does it in its "cloud_tasks" dispatch mode.  The outbox row (job) in    *)
(* Firestore is the source of truth; Cloud Tasks only wakes workers, and a *)
(* live pusher session runs the jobs that need the user's own keys (BYOK). *)
(* Several handlers can work on the job at once: a slow one whose lease    *)
(* has expired, and the one that claimed it next.  Every Firestore         *)
(* transaction is one action; a handler can be lost between any two.       *)
(*                                                                         *)
(* Source: backend/database/conversation_finalization_jobs.py,             *)
(* routers/conversation_finalization.py, utils/pusher_finalization.py,     *)
(* utils/conversations/{finalizer,lifecycle,process_conversation}.py,      *)
(* services/conversation_finalization.py, utils/cloud_tasks.py.            *)
(*                                                                         *)
(* Time is the environment's: a lease, the replay delay and the            *)
(* abandonment age run out as steps of their own.  The job's projection    *)
(* shard is seen from this one job: proj is what the job has added to it.  *)
(***************************************************************************)
EXTENDS Integers, FiniteSets

CONSTANTS
    Workers,      \* handler invocations that can be alive at the same time
    MaxGen,       \* bound on dispatch_generation
    MaxAttempts,  \* LISTEN_FINALIZATION_TASKS_MAX_ATTEMPTS, the queue's maxAttempts
    MaxEpoch,     \* bound on the leases a pusher session still asks for
    MaxFaults,    \* bound on crashes, failures and deadlines that pass
    Kinds         \* what process_conversation does with this account's recording

ASSUME WorkersAssumption == {"nobody", "orphan"} \cap Workers = {}
ASSUME BoundsAssumption ==
    /\ MaxGen \in Nat \ {0} /\ MaxAttempts \in Nat \ {0}
    /\ MaxEpoch \in Nat /\ MaxFaults \in Nat
    /\ Kinds \subseteq {"eager", "deferred", "paywalled", "migrating"}

VARIABLES
    conv,     \* the conversation document: status, discarded, deferred
    job,      \* the finalization job document
    tasks,    \* Cloud Tasks: one named task per dispatch generation
    lock,     \* the Redis run lock of the task handlers
    worker,   \* the local state of each handler invocation
    proj,     \* the job's contribution to its projection shard
    effects,  \* history: what the fanout did ("sent", or "dropped" on the last attempt)
    faults    \* faults so far

vars == <<conv, job, tasks, lock, worker, proj, effects, faults>>

-----------------------------------------------------------------------------
(* State *)

Terminal == {"completed", "dead_letter"}
Gens == 1 .. MaxGen
Counters == {"accepted", "queued", "leased", "blocked_byok", "completed",
             "dead_letter", "success", "failure", "stale"}

NoJob == [status |-> "none", byok |-> FALSE, gen |-> 0, epoch |-> 0,
          fanout |-> "pending", outcome |-> "none", live |-> FALSE,
          fresh |-> FALSE, aged |-> FALSE, reconcile |-> FALSE]

Idle == [pc |-> "idle", task |-> FALSE, gen |-> 1, epoch |-> 0, final |-> FALSE]
Working == {"read", "process", "fanout", "effects", "ack", "complete", "fence", "fail"}

Task(s, n, w) == [state |-> s, retry |-> n, by |-> w]

Conversation == [status: {"absent", "in_progress", "processing", "completed",
                          "failed", "merging"},
                 discarded: BOOLEAN, deferred: BOOLEAN, kind: Kinds]
Job == [status: {"none", "queued", "leased", "blocked_byok"} \cup Terminal,
        byok: BOOLEAN, gen: 0 .. MaxGen, epoch: Nat,
        fanout: {"pending", "leased", "completed", "fenced"},
        outcome: {"none", "success", "failure", "stale"},
        live: BOOLEAN, fresh: BOOLEAN, aged: BOOLEAN, reconcile: BOOLEAN]
NamedTask == [state: {"none", "ready", "out", "done"}, retry: 0 .. MaxAttempts - 1,
              by: Workers \cup {"nobody"}]
Invocation == [pc: {"idle", "claim"} \cup Working, task: BOOLEAN, gen: Gens,
               epoch: Nat, final: BOOLEAN]

TypeOK ==
    /\ conv \in Conversation
    /\ job \in Job
    /\ tasks \in [Gens -> NamedTask]
    /\ lock \in Workers \cup {"nobody", "orphan"}
    /\ worker \in [Workers -> Invocation]
    /\ proj \in [Counters -> Int]
    /\ effects \subseteq {"sent", "dropped"}
    /\ faults \in 0 .. MaxFaults

Init ==
    /\ \E k \in Kinds : conv = [status |-> "in_progress", discarded |-> FALSE,
                                deferred |-> FALSE, kind |-> k]
    /\ job = NoJob
    /\ tasks = [g \in Gens |-> Task("none", 0, "nobody")]
    /\ lock = "nobody"
    /\ worker = [w \in Workers |-> Idle]
    /\ proj = [n \in Counters |-> 0]
    /\ effects = {}
    /\ faults = 0

-----------------------------------------------------------------------------
(* Helpers *)

Fault == faults < MaxFaults /\ faults' = faults + 1
NoFault == UNCHANGED faults

(* Mutant: what the job was before is not taken off the shard. *)
BumpOnly(up, down) == [n \in Counters |-> proj[n] + (IF n \in up THEN 1 ELSE 0)]

(* The deltas a transaction adds to the projection shard. *)
Bump(up, down) ==
    [n \in Counters |-> proj[n] + (IF n \in up THEN 1 ELSE 0)
                                - (IF n \in down THEN 1 ELSE 0)]

(* The worker still presents the job's current lease. *)
IsCurrentLease(w) ==
    /\ job.status = "leased"
    /\ job.gen = worker[w].gen
    /\ job.epoch = worker[w].epoch

Goto(w, pc) == worker' = [worker EXCEPT ![w].pc = pc]

(* A named task is created once; the creation can fail. *)
Enqueue(g) ==
    \/ tasks' = [tasks EXCEPT ![g] = Task("ready", 0, "nobody")] /\ NoFault
    \/ UNCHANGED tasks /\ Fault

(* Cloud Tasks delivers again until the queue's maxAttempts is used up. *)
Redelivered(t) ==
    IF t.retry < MaxAttempts - 1 THEN Task("ready", t.retry + 1, "nobody")
                                 ELSE Task("done", 0, "nobody")

(* The handler answers: 2xx ends the task, anything else redelivers it.    *)
(* Its run lock is released.  A pusher session has neither.                *)
Answer(w, ok) ==
    LET g == worker[w].gen IN
    /\ worker' = [worker EXCEPT ![w] = Idle]
    /\ tasks' = IF worker[w].task /\ tasks[g].by = w
                THEN [tasks EXCEPT ![g] = IF ok THEN Task("done", 0, "nobody")
                                                ELSE Redelivered(@)]
                ELSE tasks
    /\ lock' = IF lock = w THEN "nobody" ELSE lock

(* The terminal no-fanout state shared by every fencing boundary. *)
FencedJob == [job EXCEPT !.status = "completed", !.outcome = "stale", !.live = FALSE,
                         !.fanout = "fenced", !.reconcile = FALSE, !.aged = FALSE]

-----------------------------------------------------------------------------
(* Admission: request_finalization, from a listen session or the REST route *)

NewJob(keys) ==
    [NoJob EXCEPT !.status = IF keys THEN "blocked_byok" ELSE "queued",
                  !.byok = keys, !.gen = 1, !.fresh = TRUE, !.reconcile = ~keys]

(* The outbox row and the conversation's processing status are one         *)
(* transaction; the task is created after it.                              *)
RequestNew(keys) ==
    /\ conv.status = "in_progress" /\ ~conv.discarded /\ job.status = "none"
    /\ job' = NewJob(keys)
    /\ conv' = [conv EXCEPT !.status = "processing"]
    /\ proj' = Bump({"accepted", job'.status}, {})
    /\ IF keys THEN UNCHANGED tasks /\ NoFault ELSE Enqueue(1)
    /\ UNCHANGED <<lock, worker, effects>>

(* A later request finds the bound job and hands the same generation off:  *)
(* a no-op unless the first task was never created.                        *)
RequestAgain ==
    /\ conv.status \in {"in_progress", "processing", "merging"}
    /\ ~conv.discarded /\ ~conv.deferred
    /\ job.status \in {"queued", "leased"} /\ ~job.byok
    /\ tasks[job.gen].state = "none"
    /\ tasks' = [tasks EXCEPT ![job.gen] = Task("ready", 0, "nobody")]
    /\ UNCHANGED <<conv, job, lock, worker, proj, effects, faults>>

(* Mutant: the resumed job is made visible to the reconciler. *)
ResumeReconciled ==
    /\ job.status = "blocked_byok" /\ conv.status = "processing"
    /\ job' = [job EXCEPT !.status = "queued", !.reconcile = TRUE, !.fresh = FALSE]
    /\ proj' = Bump({"queued"}, {"blocked_byok"})
    /\ UNCHANGED <<conv, tasks, lock, worker, effects, faults>>

(* A live session that presents keys resumes the blocked job. *)
ResumeBlockedByok ==
    /\ job.status = "blocked_byok"
    /\ ~conv.discarded /\ ~conv.deferred /\ conv.status = "processing"
    /\ job' = [job EXCEPT !.status = "queued", !.reconcile = FALSE, !.aged = FALSE]
    /\ proj' = Bump({"queued"}, {"blocked_byok"})
    /\ UNCHANGED <<conv, tasks, lock, worker, effects, faults>>

-----------------------------------------------------------------------------
(* Wake-up: Cloud Tasks, the reconciler, the pusher session *)

(* The handler takes the run lock before it claims; without it, 409.       *)
(* (That the queue gives up on a task this way is one of the faults.)      *)
Deliver(w, g) ==
    /\ tasks[g].state = "ready" /\ worker[w] = Idle
    /\ IF lock = "nobody"
       THEN /\ lock' = w
            /\ tasks' = [tasks EXCEPT ![g] = Task("out", @.retry, w)]
            /\ worker' = [worker EXCEPT ![w] = [Idle EXCEPT
                             !.pc = "claim", !.task = TRUE, !.gen = g,
                             !.final = tasks[g].retry >= MaxAttempts - 1]]
            /\ NoFault
       ELSE /\ tasks' = [tasks EXCEPT ![g] = Redelivered(@)]
            /\ IF tasks'[g].state = "ready" THEN NoFault ELSE Fault
            /\ UNCHANGED <<lock, worker>>
    /\ UNCHANGED <<conv, job, proj, effects>>

(* A session with keys hands the BYOK job to its pusher. *)
StartPusher(w) ==
    /\ job.byok /\ job.status \in {"queued", "leased"} /\ worker[w] = Idle
    /\ job.epoch < MaxEpoch
    /\ worker' = [worker EXCEPT ![w] = [Idle EXCEPT !.pc = "claim", !.gen = job.gen]]
    /\ UNCHANGED <<conv, job, tasks, lock, proj, effects, faults>>

(* Mutant: only a handoff that was never claimed is replayed. *)
ReplayableQueued == job.reconcile /\ job.status = "queued" /\ ~job.fresh

(* The reconciler only sees rows with reconcile_after_at. *)
Replayable ==
    /\ job.reconcile
    /\ \/ job.status = "queued" /\ ~job.fresh
       \/ job.status = "leased" /\ ~job.live

(* It re-dispatches a job whose handoff or lease went stale, under a new   *)
(* generation.                                                             *)
Replay ==
    /\ Replayable /\ job.gen < MaxGen
    /\ job' = [job EXCEPT !.status = "queued", !.gen = @ + 1, !.fresh = TRUE,
                          !.live = FALSE, !.aged = FALSE]
    /\ proj' = IF job.status = "leased" THEN Bump({"queued"}, {"leased"}) ELSE proj
    /\ Enqueue(job.gen + 1)
    /\ UNCHANGED <<conv, lock, worker, effects>>

(* Mutant: the sweep closes the job and not its conversation. *)
AbandonedStays == conv

AbandonedConversation ==
    IF conv.status = "processing" /\ ~conv.discarded /\ ~conv.deferred
    THEN [conv EXCEPT !.status = "completed"] ELSE conv

(* The sweep that ends BYOK jobs no session came back for.  Its            *)
(* transaction repeats every condition of the scan, so the two are one.    *)
AbandonByok ==
    /\ job.byok /\ job.aged
    /\ job.status = "queued" \/ (job.status = "leased" /\ ~job.live)
    /\ job' = [job EXCEPT !.status = "dead_letter", !.outcome = "failure",
                          !.fanout = "fenced", !.live = FALSE, !.reconcile = FALSE,
                          !.aged = FALSE]
    /\ proj' = Bump({"dead_letter", "failure"}, {job.status})
    /\ conv' = AbandonedConversation
    /\ UNCHANGED <<tasks, lock, worker, effects, faults>>

-----------------------------------------------------------------------------
(* The handler *)

(* Mutant: every claim starts the epochs again. *)
FirstEpoch == 1

NextEpoch == job.epoch + 1

(* Mutant: a terminal job can be claimed again. *)
ClaimableAgain(w) == (job.byok => ~worker[w].task) /\ job.gen = worker[w].gen

Claimable(w) ==
    /\ job.status = "queued" \/ (job.status = "leased" /\ ~job.live)
    /\ job.byok => ~worker[w].task
    /\ job.gen = worker[w].gen

(* A claim raises the epoch that fences every earlier holder.  A live      *)
(* lease is answered 409; a terminal, blocked or superseded job ends the   *)
(* task.  A pusher session's last attempt is counted by its claims.        *)
Claim(w) ==
    /\ worker[w].pc = "claim"
    /\ IF Claimable(w)
       THEN LET e == NextEpoch IN
            /\ job' = [job EXCEPT !.status = "leased", !.live = TRUE, !.epoch = e,
                                  !.reconcile = ~job.byok, !.aged = FALSE]
            /\ proj' = IF job.status = "queued" THEN Bump({"leased"}, {"queued"}) ELSE proj
            /\ worker' = [worker EXCEPT ![w].pc = "read", ![w].epoch = e,
                             ![w].final = IF worker[w].task THEN @ ELSE e >= MaxAttempts]
            /\ UNCHANGED <<tasks, lock>>
       ELSE /\ Answer(w, ~(job.status = "leased" /\ job.gen = worker[w].gen /\ ~job.byok))
            /\ UNCHANGED <<job, proj>>
    /\ UNCHANGED <<conv, effects, faults>>

(* The first read of the conversation decides the handler's course; a      *)
(* task for an account that is being migrated is fenced before it.  (A row *)
(* in progress would be admitted here; a row with a job has left that      *)
(* state, in the transaction that made the job, and does not return to it.)*)
ReadConversation(w) ==
    /\ worker[w].pc = "read"
    /\ \/ Goto(w, CASE conv.status = "processing" -> "process"
                    [] conv.status \in {"completed", "absent"} -> "fanout"
                    [] OTHER -> "fence")
       \/ conv.kind = "migrating" /\ worker[w].task /\ Goto(w, "fence")
    /\ UNCHANGED <<conv, job, tasks, lock, proj, effects, faults>>

(* Mutant: a missing document is written again. *)
PersistAlways(r) == [conv EXCEPT !.status = r.status, !.discarded = r.discarded,
                                 !.deferred = r.deferred]

(* persist_processing_result merges the result into the document, if any.  *)
Persist(r) ==
    IF conv.status = "absent" THEN conv
    ELSE [conv EXCEPT !.status = r.status, !.discarded = r.discarded,
                      !.deferred = r.deferred]

(* process_conversation: the result is merged into whatever document is    *)
(* there, status and discarded included, unless the document is gone.      *)
(* A desktop account may only get a deferred row, or nothing at all.       *)
Process(w) ==
    /\ worker[w].pc = "process"
    /\ \/ \E verdict \in BOOLEAN :
             /\ conv.kind \in {"eager", "migrating"}
             /\ conv' = Persist([status |-> "completed", discarded |-> verdict,
                                 deferred |-> FALSE])
             /\ Goto(w, IF conv.status = "absent" THEN "fence" ELSE "fanout") /\ NoFault
       \/ /\ conv.kind = "deferred"
          /\ conv' = Persist([status |-> "processing", discarded |-> FALSE,
                              deferred |-> TRUE])
          /\ Goto(w, "fence") /\ NoFault
       \/ conv.kind = "paywalled" /\ Goto(w, "fence") /\ NoFault /\ UNCHANGED conv
       \/ Goto(w, "fail") /\ Fault /\ UNCHANGED conv
    /\ UNCHANGED <<job, tasks, lock, proj, effects>>

(* The job still names a completed conversation that is not discarded. *)
ConversationAdmitsFanout == conv.status = "completed" /\ ~conv.discarded

(* Mutant: the fanout is recorded as done when it is claimed. *)
ClaimFanoutAtOnce(w) ==
    /\ worker[w].pc = "fanout"
    /\ IF job.fanout = "completed"
       THEN Goto(w, "complete") /\ UNCHANGED job
       ELSE IF IsCurrentLease(w) /\ ConversationAdmitsFanout
       THEN job' = [job EXCEPT !.fanout = "completed"] /\ Goto(w, "effects")
       ELSE Goto(w, "fail") /\ UNCHANGED job
    /\ UNCHANGED <<conv, tasks, lock, proj, effects, faults>>

(* The fence before every side effect: the lease and the conversation are  *)
(* read in one transaction.                                                *)
ClaimFanout(w) ==
    /\ worker[w].pc = "fanout"
    /\ IF job.fanout = "completed"
       THEN Goto(w, "complete") /\ UNCHANGED <<job, proj>>
       ELSE IF ~IsCurrentLease(w)
       THEN Goto(w, "fail") /\ UNCHANGED <<job, proj>>
       ELSE IF ConversationAdmitsFanout
       THEN /\ job' = [job EXCEPT !.fanout = "leased", !.aged = FALSE]
            /\ Goto(w, "effects") /\ UNCHANGED proj
       ELSE /\ job' = FencedJob
            /\ proj' = Bump({"completed", "stale"}, {"leased"})
            /\ Goto(w, "fence")
    /\ UNCHANGED <<conv, tasks, lock, effects, faults>>

(* Derived effects and the integrations.  A delivery that fails is dropped *)
(* on the last attempt and retried on any other.                           *)
EmitEffects(w) ==
    /\ worker[w].pc = "effects"
    /\ \/ effects' = effects \cup {"sent"} /\ Goto(w, "ack") /\ NoFault
       \/ worker[w].final /\ effects' = effects \cup {"dropped"} /\ Goto(w, "ack") /\ Fault
       \/ UNCHANGED effects /\ Goto(w, "fail") /\ Fault
    /\ UNCHANGED <<conv, job, tasks, lock, proj>>

CompleteFanout(w) ==
    /\ worker[w].pc = "ack"
    /\ IF IsCurrentLease(w)
       THEN job' = [job EXCEPT !.fanout = "completed", !.aged = FALSE] /\ Goto(w, "complete")
       ELSE Goto(w, "fail") /\ UNCHANGED job
    /\ UNCHANGED <<conv, tasks, lock, proj, effects, faults>>

MarkCompleted(w) ==
    /\ worker[w].pc = "complete"
    /\ IF IsCurrentLease(w) /\ job.fanout = "completed"
       THEN /\ job' = [job EXCEPT !.status = "completed", !.outcome = "success",
                                  !.live = FALSE, !.reconcile = FALSE, !.aged = FALSE]
            /\ proj' = Bump({"completed", "success"}, {"leased"})
            /\ Answer(w, TRUE)
       ELSE /\ Answer(w, job.status = "completed" /\ job.epoch = worker[w].epoch)
            /\ UNCHANGED <<job, proj>>
    /\ UNCHANGED <<conv, effects, faults>>

(* A handler that lost to the conversation's own state ends the job without *)
(* a fanout, but only while no fanout has been claimed.                     *)
MarkFenced(w) ==
    /\ worker[w].pc = "fence"
    /\ IF IsCurrentLease(w) /\ job.fanout = "pending"
       THEN /\ job' = FencedJob
            /\ proj' = Bump({"completed", "stale"}, {"leased"})
            /\ Answer(w, TRUE)
       ELSE /\ Answer(w, /\ job.status = "completed" /\ job.outcome = "stale"
                         /\ job.epoch = worker[w].epoch)
            /\ UNCHANGED <<job, proj>>
    /\ UNCHANGED <<conv, effects, faults>>

(* A failed attempt hands the job back; the last one dead-letters it and   *)
(* closes the conversation it still processes, in the same transaction.    *)
RecordFailure(w) ==
    /\ worker[w].pc = "fail"
    /\ IF ~IsCurrentLease(w)
       THEN Answer(w, FALSE) /\ UNCHANGED <<conv, job, proj>>
       ELSE IF worker[w].final
       THEN /\ job' = [job EXCEPT !.status = "dead_letter", !.outcome = "failure",
                                  !.live = FALSE, !.reconcile = FALSE, !.aged = FALSE]
            /\ proj' = Bump({"dead_letter", "failure"}, {"leased"})
            /\ conv' = IF conv.status = "processing" /\ ~conv.discarded
                       THEN [conv EXCEPT !.status = "failed", !.discarded = TRUE] ELSE conv
            /\ Answer(w, TRUE)
       ELSE /\ job' = [job EXCEPT !.status = "queued", !.live = FALSE, !.fresh = TRUE,
                                  !.reconcile = ~job.byok, !.aged = FALSE]
            /\ proj' = Bump({"queued"}, {"leased"})
            /\ Answer(w, FALSE) /\ UNCHANGED conv
    /\ UNCHANGED <<effects, faults>>

-----------------------------------------------------------------------------
(* The environment: lost handlers, clocks, the user *)

(* The handler is lost (or cancelled): its run lock stays until its TTL.   *)
Crash(w) ==
    /\ worker[w].pc # "idle" /\ Fault
    /\ worker' = [worker EXCEPT ![w] = Idle]
    /\ lock' = IF lock = w THEN "orphan" ELSE lock
    /\ tasks' = IF worker[w].task /\ tasks[worker[w].gen].by = w
                THEN [tasks EXCEPT ![worker[w].gen] = Redelivered(@)] ELSE tasks
    /\ UNCHANGED <<conv, job, proj, effects>>

LockExpires ==
    /\ \/ lock = "orphan" /\ NoFault
       \/ lock \in Workers /\ Fault
    /\ lock' = "nobody"
    /\ UNCHANGED <<conv, job, tasks, worker, proj, effects>>

(* The dispatch deadline passes while the handler still runs. *)
DeadlinePasses(g) ==
    /\ tasks[g].state = "out" /\ Fault
    /\ tasks' = [tasks EXCEPT ![g] = Redelivered(@)]
    /\ UNCHANGED <<conv, job, lock, worker, proj, effects>>

(* A handler that is still at work is overtaken by its clock. *)
Overtaken ==
    IF \E w \in Workers : worker[w].pc \in Working /\ IsCurrentLease(w)
    THEN Fault ELSE NoFault

LeaseExpires ==
    /\ job.status = "leased" /\ job.live /\ Overtaken
    /\ job' = [job EXCEPT !.live = FALSE]
    /\ UNCHANGED <<conv, tasks, lock, worker, proj, effects>>

(* The replay delay passes: with nothing under way, or with a slow queue. *)
DispatchGoesStale ==
    /\ job.reconcile /\ job.status = "queued" /\ job.fresh
    /\ IF tasks[job.gen].state \in {"ready", "out"} THEN Fault ELSE NoFault
    /\ job' = [job EXCEPT !.fresh = FALSE]
    /\ UNCHANGED <<conv, tasks, lock, worker, proj, effects>>

ByokAges ==
    /\ job.byok /\ job.status \in {"queued", "leased"} /\ ~job.live /\ ~job.aged
    /\ Overtaken
    /\ job' = [job EXCEPT !.aged = TRUE]
    /\ UNCHANGED <<conv, tasks, lock, worker, proj, effects>>

Discard ==
    /\ conv.status # "absent" /\ ~conv.discarded
    /\ conv' = [conv EXCEPT !.discarded = TRUE]
    /\ UNCHANGED <<job, tasks, lock, worker, proj, effects, faults>>

RestoreDiscarded ==
    /\ conv.status # "absent" /\ conv.discarded
    /\ conv' = [conv EXCEPT !.discarded = FALSE]
    /\ UNCHANGED <<job, tasks, lock, worker, proj, effects, faults>>

DeleteConversation ==
    /\ conv.status # "absent"
    /\ conv' = [conv EXCEPT !.status = "absent", !.discarded = FALSE, !.deferred = FALSE]
    /\ UNCHANGED <<job, tasks, lock, worker, proj, effects, faults>>

(* A merge takes the completed conversation, and rolls back or is done. *)
BeginMerge ==
    /\ conv.status = "completed"
    /\ conv' = [conv EXCEPT !.status = "merging"]
    /\ UNCHANGED <<job, tasks, lock, worker, proj, effects, faults>>

CompleteMerge ==
    /\ conv.status = "merging" /\ ~conv.discarded
    /\ conv' = [conv EXCEPT !.status = "completed"]
    /\ UNCHANGED <<job, tasks, lock, worker, proj, effects, faults>>

-----------------------------------------------------------------------------
Handler(w) ==
    \/ Claim(w) \/ ReadConversation(w) \/ Process(w) \/ ClaimFanout(w)
    \/ EmitEffects(w) \/ CompleteFanout(w) \/ MarkCompleted(w) \/ MarkFenced(w)
    \/ RecordFailure(w)

Next ==
    \/ \E keys \in BOOLEAN : RequestNew(keys)
    \/ RequestAgain \/ ResumeBlockedByok \/ Replay \/ AbandonByok
    \/ \E w \in Workers :
          \/ \E g \in Gens : Deliver(w, g)
          \/ StartPusher(w) \/ Handler(w) \/ Crash(w)
    \/ LockExpires \/ LeaseExpires \/ DispatchGoesStale \/ ByokAges
    \/ \E g \in Gens : DeadlinePasses(g)
    \/ Discard \/ RestoreDiscarded \/ DeleteConversation \/ BeginMerge \/ CompleteMerge

Spec == Init /\ [][Next]_vars

(* Handlers that are not lost go on; Cloud Tasks delivers what is ready;   *)
(* the reconcilers run every few minutes (main.py); deadlines do pass when *)
(* nobody is at work.  The user, the sessions and the faults are not fair. *)
Fairness ==
    /\ \A w \in Workers : WF_vars(Handler(w))
    /\ \A g \in Gens : WF_vars(\E w \in Workers : Deliver(w, g))
    /\ WF_vars(Replay) /\ WF_vars(AbandonByok)
    /\ WF_vars(ByokAges /\ NoFault)
    /\ WF_vars(LockExpires /\ NoFault)
    /\ WF_vars(LeaseExpires /\ NoFault)
    /\ WF_vars(DispatchGoesStale /\ NoFault)

FairSpec == Spec /\ Fairness

-----------------------------------------------------------------------------
(* Properties *)

(* What the projection shard should hold for this job. *)
Census ==
    [n \in Counters |->
        IF \/ n \in {job.status, job.outcome}
           \/ n = "accepted" /\ job.status # "none"
        THEN 1 ELSE 0]

(* The counters the metrics are read from never drift from the job: every  *)
(* transaction, replayed or raced as it may be, adds exactly the deltas of *)
(* the transition it commits (_record_projection_delta).                   *)
ProjectionMatches == proj = Census

(* Two handlers at work never hold the same lease epoch, so that the epoch *)
(* fences whoever resumes after his lease was reclaimed.                   *)
LeaseIsExclusive ==
    \A v, w \in Workers :
       v # w /\ worker[v].pc \in Working /\ worker[w].pc \in Working
          => worker[v].epoch # worker[w].epoch

(* A job that reports success has had its fanout: sent, or given up on in  *)
(* the last attempt.  No crash, replay or discard lets a job succeed       *)
(* without it.                                                             *)
SuccessHadItsFanout == job.outcome = "success" => effects # {}

(* No wake-up without credentials ever exists for a job that needs the     *)
(* user's keys, whatever was retried, resumed or reconciled.               *)
NoPlatformTask == job.byok => \A g \in Gens : tasks[g].state = "none"

(* The first terminal outcome is the only one: no late handler, replay or  *)
(* sweep changes it.                                                       *)
TerminalIsFinal == [][job.status \in Terminal => job' = job]_vars

(* The step that ends a job does not leave its conversation on a visible,  *)
(* undeferred "processing" that nobody owns any more.  (An account that is *)
(* being migrated must not be touched at all; that a paywalled one is left *)
(* there is what ProcessingIsOwned is about.)                              *)
NoJobLeavesProcessing ==
    [][job.status \notin Terminal /\ job'.status \in Terminal
             /\ conv.kind \in {"eager", "deferred"}
          => ~(conv'.status = "processing" /\ ~conv'.discarded /\ ~conv'.deferred)]_vars

(* A conversation its owner deleted is not brought back by a processor     *)
(* that was at work on it.                                                 *)
DeletedStaysDeleted == [][conv.status = "absent" => conv'.status = "absent"]_vars

(* Every admitted job that is not waiting for keys reaches a terminal      *)
(* outcome, whatever was lost on the way.  (While a merge holds its        *)
(* conversation, or a migration its account, a handler that finds an       *)
(* interrupted fanout can neither fence nor finish it.)                    *)
EveryJobSettles ==
    [](conv.status # "merging" /\ conv.kind # "migrating")
       => (job.status \in {"queued", "leased"} ~> job.status \in Terminal)

(* A visible conversation on "processing" has a live job behind it, or is  *)
(* a deferred row that waits for its first opening: the early return of    *)
(* process_conversation for a paywalled account marks it processed, so     *)
(* that the client does not show it as stuck for ever.                     *)
ProcessingIsOwned ==
    conv.status = "processing" /\ ~conv.discarded /\ ~conv.deferred
       => job.status \notin Terminal

=============================================================================
