------------------------- MODULE FinalizationProofs -------------------------
(***************************************************************************)
(* Proofs about Finalization for any handlers, dispatch generations,       *)
(* attempts and faults.  IInv, at the end, is the inductive invariant; the *)
(* lemmas before it treat its parts one by one.                            *)
(***************************************************************************)
EXTENDS Finalization, TLAPS

(* A job has a generation, an outcome only when it is over, and is hidden  *)
(* from the reconciler when it needs the user's keys.                      *)
JobInv ==
  /\ job.status # "none" => job.gen >= 1
  /\ job.status \notin Terminal => job.outcome = "none"
  /\ job.byok => ~job.reconcile

(* A handler at work presents an epoch the job has reached, and no other   *)
(* handler has it.                                                         *)
LeaseInv ==
  /\ \A w \in Workers :
        worker[w].pc \in Working => job.status # "none" /\ worker[w].epoch <= job.epoch
  /\ LeaseIsExclusive

(* The fanout is acknowledged after its effects, and the job succeeds after *)
(* the acknowledgement.                                                    *)
FanoutInv ==
  /\ job.fanout = "completed" => effects # {}
  /\ \A w \in Workers : worker[w].pc = "ack" => effects # {}
  /\ SuccessHadItsFanout

(* No task and no task handler exists before the job, or for a job that    *)
(* needs the user's keys.                                                  *)
PlatformInv ==
  job.byok \/ job.status = "none" =>
     /\ \A g \in Gens : tasks[g].state = "none"
     /\ \A w \in Workers : ~worker[w].task

(* A handler that is past processing has seen the conversation leave it.   *)
Past == {"fanout", "effects", "ack", "complete", "fence"}
CourseInv ==
  \A w \in Workers :
     worker[w].pc \in Past /\ conv.kind \in {"eager", "deferred"}
        => ~(conv.status = "processing" /\ ~conv.deferred)

USE WorkersAssumption, BoundsAssumption

(* Tasks, created, delivered or redelivered, are tasks. *)
LEMMA TaskTypes ==
  /\ Task("ready", 0, "nobody") \in NamedTask
  /\ Task("done", 0, "nobody") \in NamedTask
  /\ \A t \in NamedTask, w \in Workers : Task("out", t.retry, w) \in NamedTask
  /\ \A t \in NamedTask : Redelivered(t) \in NamedTask
  BY DEF Redelivered, Task, NamedTask

(* What is stored of a handler invocation is one. *)
LEMMA InvocationTypes ==
  /\ Idle \in Invocation
  /\ \A i \in Invocation, p \in {"idle", "claim"} \cup Working :
        [i EXCEPT !.pc = p] \in Invocation
  /\ \A g \in Gens, f \in BOOLEAN :
        [Idle EXCEPT !.pc = "claim", !.task = TRUE, !.gen = g, !.final = f] \in Invocation
  /\ \A g \in Gens : [Idle EXCEPT !.pc = "claim", !.gen = g] \in Invocation
  /\ \A i \in Invocation, e \in Nat, f \in BOOLEAN :
        [i EXCEPT !.pc = "read", !.epoch = e, !.final = f] \in Invocation
<1>1. Idle \in Invocation
  BY DEF Idle, Invocation, Gens
<1>2. \A i \in Invocation, p \in {"idle", "claim"} \cup Working :
        [i EXCEPT !.pc = p] \in Invocation
  BY DEF Invocation, Working
<1>3. \A i \in Invocation, g \in Gens, f \in BOOLEAN :
        [i EXCEPT !.pc = "claim", !.task = TRUE, !.gen = g, !.final = f] \in Invocation
  BY DEF Invocation
<1>4. \A i \in Invocation, g \in Gens : [i EXCEPT !.pc = "claim", !.gen = g] \in Invocation
  BY DEF Invocation
<1>5. \A i \in Invocation, e \in Nat, f \in BOOLEAN :
        [i EXCEPT !.pc = "read", !.epoch = e, !.final = f] \in Invocation
  BY DEF Invocation, Working
<1> QED
  BY <1>1, <1>2, <1>3, <1>4, <1>5

(* An answer keeps the types of what it changes. *)
LEMMA AnswerType ==
  ASSUME TypeOK, NEW w \in Workers, NEW ok \in BOOLEAN, Answer(w, ok)
  PROVE  /\ worker' \in [Workers -> Invocation]
         /\ tasks' \in [Gens -> NamedTask]
         /\ lock' \in Workers \cup {"nobody", "orphan"}
<1>1. worker[w].gen \in Gens
  BY DEF TypeOK, Invocation
<1> QED
  BY <1>1, TaskTypes, InvocationTypes DEF TypeOK, Answer

(* So does a handler that moves on. *)
LEMMA GotoType ==
  ASSUME TypeOK, NEW w \in Workers, NEW p \in {"idle", "claim"} \cup Working, Goto(w, p)
  PROVE  worker' \in [Workers -> Invocation]
<1>1. worker[w] \in Invocation
  BY DEF TypeOK
<1>2. [worker[w] EXCEPT !.pc = p] \in Invocation
  BY <1>1, InvocationTypes
<1> QED
  BY <1>2 DEF TypeOK, Goto

(* Deltas keep the shard a shard. *)
LEMMA BumpType ==
  ASSUME NEW up, NEW down, proj \in [Counters -> Int]
  PROVE  Bump(up, down) \in [Counters -> Int]
  BY DEF Bump

(* Creating a task, or failing to, keeps the types. *)
LEMMA EnqueueType ==
  ASSUME TypeOK, NEW g \in Gens, Enqueue(g)
  PROVE  tasks' \in [Gens -> NamedTask] /\ faults' \in 0 .. MaxFaults
  BY TaskTypes DEF TypeOK, Enqueue, Fault, NoFault

(* Faults stay within their bound. *)
LEMMA FaultType ==
  ASSUME faults \in 0 .. MaxFaults, Fault \/ NoFault
  PROVE  faults' \in 0 .. MaxFaults
  BY DEF Fault, NoFault

(* Every update of the job document gives a job document. *)
LEMMA JobTypes ==
  ASSUME job \in Job
  PROVE  /\ FencedJob \in Job
         /\ job.gen < MaxGen =>
              [job EXCEPT !.status = "queued", !.gen = @ + 1, !.fresh = TRUE,
                          !.live = FALSE, !.aged = FALSE] \in Job
         /\ [job EXCEPT !.status = "leased", !.live = TRUE, !.epoch = NextEpoch,
                        !.reconcile = ~job.byok, !.aged = FALSE] \in Job
         /\ [job EXCEPT !.fanout = "leased", !.aged = FALSE] \in Job
         /\ [job EXCEPT !.fanout = "completed", !.aged = FALSE] \in Job
         /\ [job EXCEPT !.status = "completed", !.outcome = "success",
                        !.live = FALSE, !.reconcile = FALSE, !.aged = FALSE] \in Job
         /\ [job EXCEPT !.status = "dead_letter", !.outcome = "failure",
                        !.live = FALSE, !.reconcile = FALSE, !.aged = FALSE] \in Job
         /\ [job EXCEPT !.status = "queued", !.live = FALSE, !.fresh = TRUE,
                        !.reconcile = ~job.byok, !.aged = FALSE] \in Job
<1> USE DEF Job, Terminal
<1>1. FencedJob \in Job
  BY DEF FencedJob
<1>3. job.gen < MaxGen =>
              [job EXCEPT !.status = "queued", !.gen = @ + 1, !.fresh = TRUE,
                          !.live = FALSE, !.aged = FALSE] \in Job
  <2>1. job.gen < MaxGen => job.gen + 1 \in 0 .. MaxGen
    OBVIOUS
  <2> DEFINE n == job.gen + 1
  <2>2. n \in 0 .. MaxGen => [job EXCEPT !.status = "queued", !.gen = n, !.fresh = TRUE,
                                          !.live = FALSE, !.aged = FALSE] \in Job
    <3> HIDE DEF n
    <3> QED
      OBVIOUS
  <2> QED
    BY <2>1, <2>2
<1>4. [job EXCEPT !.status = "leased", !.live = TRUE, !.epoch = NextEpoch,
                        !.reconcile = ~job.byok, !.aged = FALSE] \in Job
  <2>1. NextEpoch \in Nat
    BY DEF NextEpoch
  <2> QED
    BY <2>1
<1>5. [job EXCEPT !.fanout = "leased", !.aged = FALSE] \in Job
  OBVIOUS
<1>6. [job EXCEPT !.fanout = "completed", !.aged = FALSE] \in Job
  OBVIOUS
<1>7. [job EXCEPT !.status = "completed", !.outcome = "success",
                        !.live = FALSE, !.reconcile = FALSE, !.aged = FALSE] \in Job
  OBVIOUS
<1>8. [job EXCEPT !.status = "dead_letter", !.outcome = "failure",
                        !.live = FALSE, !.reconcile = FALSE, !.aged = FALSE] \in Job
  OBVIOUS
<1>9. [job EXCEPT !.status = "queued", !.live = FALSE, !.fresh = TRUE,
                        !.reconcile = ~job.byok, !.aged = FALSE] \in Job
  OBVIOUS
<1> QED
  BY <1>1, <1>3, <1>4, <1>5, <1>6, <1>7, <1>8, <1>9

(* A new job is a job document. *)
LEMMA NewJobType ==
  ASSUME NEW b \in BOOLEAN
  PROVE  NewJob(b) \in Job
<1>1. NoJob \in Job
  BY DEF NoJob, Job
<1>2. \A j \in Job, s \in {"queued", "blocked_byok"}, c \in BOOLEAN, n \in 0 .. MaxGen :
        [j EXCEPT !.status = s, !.byok = b, !.gen = n, !.fresh = TRUE,
                  !.reconcile = c] \in Job
  BY DEF Job
<1>3. 1 \in 0 .. MaxGen
  OBVIOUS
<1>4. (~b) \in BOOLEAN
  OBVIOUS
<1>5. (IF b THEN "blocked_byok" ELSE "queued") \in {"queued", "blocked_byok"}
  OBVIOUS
<1> QED
  BY <1>1, <1>2, <1>3, <1>4, <1>5, Zenon DEF NewJob

(* The type invariant is inductive. *)
LEMMA TypeStep ==
  ASSUME TypeOK, JobInv, [Next]_vars
  PROVE  TypeOK'
<1>1. ASSUME NEW keys \in BOOLEAN, RequestNew(keys) PROVE TypeOK'
  <2>1. conv' \in Conversation
    BY <1>1 DEF TypeOK, RequestNew, Conversation
  <2>2. job' \in Job
    BY <1>1, NewJobType DEF TypeOK, RequestNew
  <2>3. proj' \in [Counters -> Int]
    BY <1>1, BumpType DEF TypeOK, RequestNew
  <2>4. tasks' \in [Gens -> NamedTask]
    BY <1>1, EnqueueType DEF TypeOK, RequestNew, Gens, NoFault
  <2>5. faults' \in 0 .. MaxFaults
    BY <1>1, EnqueueType DEF TypeOK, RequestNew, Gens, NoFault
  <2> QED
    BY <1>1, <2>1, <2>2, <2>3, <2>4, <2>5 DEF TypeOK, RequestNew
<1>2. CASE RequestAgain
  BY <1>2, TaskTypes DEF TypeOK, RequestAgain
<1>3. CASE ResumeBlockedByok
  <2>1. job' \in Job
    BY <1>3 DEF TypeOK, ResumeBlockedByok, Job
  <2>2. proj' \in [Counters -> Int]
    BY <1>3, BumpType DEF TypeOK, ResumeBlockedByok
  <2> QED
    BY <1>3, <2>1, <2>2 DEF TypeOK, ResumeBlockedByok
<1>4. CASE Replay
  <2>1. job' \in Job
    BY <1>4, JobTypes DEF TypeOK, Replay
  <2>2. proj' \in [Counters -> Int]
    BY <1>4, BumpType DEF TypeOK, Replay
  <2>3. tasks' \in [Gens -> NamedTask]
    BY <1>4, EnqueueType DEF TypeOK, Replay, Gens, Job
  <2>4. faults' \in 0 .. MaxFaults
    BY <1>4, EnqueueType DEF TypeOK, Replay, Gens, Job
  <2> QED
    BY <1>4, <2>1, <2>2, <2>3, <2>4 DEF TypeOK, Replay
<1>5. CASE AbandonByok
  <2>1. job' \in Job
    BY <1>5 DEF TypeOK, AbandonByok, Job, Terminal
  <2>2. proj' \in [Counters -> Int]
    BY <1>5, BumpType DEF TypeOK, AbandonByok
  <2>3. conv' \in Conversation
    BY <1>5 DEF TypeOK, AbandonByok, AbandonedConversation, Conversation
  <2> QED
    BY <1>5, <2>1, <2>2, <2>3 DEF TypeOK, AbandonByok
<1>6. ASSUME NEW w \in Workers, NEW g \in Gens, Deliver(w, g) PROVE TypeOK'
  <2> DEFINE f == tasks[g].retry >= MaxAttempts - 1
             i == [Idle EXCEPT !.pc = "claim", !.task = TRUE, !.gen = g, !.final = f]
  <2>1. tasks[g] \in NamedTask
    BY DEF TypeOK
  <2>2. Task("out", tasks[g].retry, w) \in NamedTask /\ Redelivered(tasks[g]) \in NamedTask
    BY <2>1, TaskTypes
  <2>3. i \in Invocation
    <3>1. f \in BOOLEAN
      OBVIOUS
    <3> HIDE DEF f
    <3> QED
      BY <3>1, InvocationTypes
  <2>4. CASE lock = "nobody"
    <3>1. /\ lock' = w /\ NoFault /\ UNCHANGED <<conv, job, proj, effects>>
          /\ tasks' = [tasks EXCEPT ![g] = Task("out", tasks[g].retry, w)]
          /\ worker' = [worker EXCEPT ![w] = i]
      BY <1>6, <2>4 DEF Deliver
    <3> HIDE DEF i
    <3> QED
      BY <2>2, <2>3, <3>1, FaultType DEF TypeOK
  <2>5. CASE lock # "nobody"
    <3>1. tasks' = [tasks EXCEPT ![g] = Redelivered(tasks[g])] /\ (Fault \/ NoFault)
      BY <1>6, <2>5 DEF Deliver
    <3> QED
      BY <1>6, <2>2, <2>5, <3>1, FaultType DEF TypeOK, Deliver
  <2> QED
    BY <2>4, <2>5
<1>7. ASSUME NEW w \in Workers, StartPusher(w) PROVE TypeOK'
  <2>1. job.gen \in Gens
    BY <1>7 DEF TypeOK, JobInv, Job, Gens, StartPusher
  <2> QED
    BY <1>7, <2>1, InvocationTypes DEF TypeOK, StartPusher
<1>8. ASSUME NEW w \in Workers, Claim(w) PROVE TypeOK'
  <2>1. job' \in Job
    BY <1>8, JobTypes DEF TypeOK, Claim
  <2>2. proj' \in [Counters -> Int]
    BY <1>8, BumpType DEF TypeOK, Claim
  <2>3. worker' \in [Workers -> Invocation]
    <3> DEFINE e == NextEpoch
               f == IF worker[w].task THEN worker[w].final ELSE e >= MaxAttempts
               i == [worker[w] EXCEPT !.pc = "read", !.epoch = e, !.final = f]
    <3>1. worker[w] \in Invocation /\ e \in Nat
      BY DEF TypeOK, Job, NextEpoch
    <3>2. f \in BOOLEAN
      <4>1. worker[w].final \in BOOLEAN /\ worker[w].task \in BOOLEAN
        BY <3>1 DEF Invocation
      <4>2. (e >= MaxAttempts) \in BOOLEAN
        OBVIOUS
      <4> QED
        BY <4>1, <4>2, Zenon
    <3>3. i \in Invocation
      <4> HIDE DEF e, f
      <4> QED
        BY <3>1, <3>2, InvocationTypes
    <3>4. CASE Claimable(w)
      <4>1. worker' = [worker EXCEPT ![w] = i]
        BY <1>8, <3>4 DEF Claim, TypeOK
      <4> HIDE DEF i
      <4> QED
        BY <3>3, <4>1 DEF TypeOK
    <3>5. CASE ~Claimable(w)
      BY <1>8, <3>5, AnswerType DEF Claim
    <3> QED
      BY <3>4, <3>5
  <2>4. tasks' \in [Gens -> NamedTask]
    BY <1>8, AnswerType DEF TypeOK, Claim
  <2>5. lock' \in Workers \cup {"nobody", "orphan"}
    BY <1>8, AnswerType DEF TypeOK, Claim
  <2> QED
    BY <1>8, <2>1, <2>2, <2>3, <2>4, <2>5 DEF TypeOK, Claim
<1>9. ASSUME NEW w \in Workers, ReadConversation(w) PROVE TypeOK'
  BY <1>9, GotoType DEF TypeOK, ReadConversation, Working
<1>10. ASSUME NEW w \in Workers, Process(w) PROVE TypeOK'
  <2>1. conv' \in Conversation
    BY <1>10 DEF TypeOK, Process, Persist, Conversation
  <2>2. worker' \in [Workers -> Invocation]
    BY <1>10, GotoType DEF TypeOK, Process, Working
  <2>3. faults' \in 0 .. MaxFaults
    BY <1>10, FaultType DEF TypeOK, Process
  <2> QED
    BY <1>10, <2>1, <2>2, <2>3 DEF TypeOK, Process
<1>11. ASSUME NEW w \in Workers, ClaimFanout(w) PROVE TypeOK'
  <2>1. job' \in Job
    BY <1>11, JobTypes DEF TypeOK, ClaimFanout
  <2>2. proj' \in [Counters -> Int]
    BY <1>11, BumpType DEF TypeOK, ClaimFanout
  <2>3. worker' \in [Workers -> Invocation]
    BY <1>11, GotoType DEF TypeOK, ClaimFanout, Working
  <2> QED
    BY <1>11, <2>1, <2>2, <2>3 DEF TypeOK, ClaimFanout
<1>12. ASSUME NEW w \in Workers, EmitEffects(w) PROVE TypeOK'
  <2>1. effects' \subseteq {"sent", "dropped"}
    BY <1>12 DEF TypeOK, EmitEffects
  <2>2. worker' \in [Workers -> Invocation]
    BY <1>12, GotoType DEF TypeOK, EmitEffects, Working
  <2>3. faults' \in 0 .. MaxFaults
    BY <1>12, FaultType DEF TypeOK, EmitEffects
  <2> QED
    BY <1>12, <2>1, <2>2, <2>3 DEF TypeOK, EmitEffects
<1>13. ASSUME NEW w \in Workers, CompleteFanout(w) PROVE TypeOK'
  <2>1. job' \in Job
    BY <1>13, JobTypes DEF TypeOK, CompleteFanout
  <2>2. worker' \in [Workers -> Invocation]
    BY <1>13, GotoType DEF TypeOK, CompleteFanout, Working
  <2> QED
    BY <1>13, <2>1, <2>2 DEF TypeOK, CompleteFanout
<1>14. ASSUME NEW w \in Workers, MarkCompleted(w) PROVE TypeOK'
  <2>1. job' \in Job
    BY <1>14, JobTypes DEF TypeOK, MarkCompleted
  <2>2. proj' \in [Counters -> Int]
    <3>1. proj' = proj \/ \E up, down : proj' = Bump(up, down)
      BY <1>14, Zenon DEF MarkCompleted
    <3> QED
      BY <3>1, BumpType DEF TypeOK
  <2>3. worker' \in [Workers -> Invocation]
    BY <1>14, AnswerType DEF TypeOK, MarkCompleted
  <2>4. tasks' \in [Gens -> NamedTask]
    BY <1>14, AnswerType DEF TypeOK, MarkCompleted
  <2>5. lock' \in Workers \cup {"nobody", "orphan"}
    BY <1>14, AnswerType DEF TypeOK, MarkCompleted
  <2> QED
    BY <1>14, <2>1, <2>2, <2>3, <2>4, <2>5 DEF TypeOK, MarkCompleted
<1>15. ASSUME NEW w \in Workers, MarkFenced(w) PROVE TypeOK'
  <2>1. job' \in Job
    BY <1>15, JobTypes DEF TypeOK, MarkFenced
  <2>2. proj' \in [Counters -> Int]
    <3>1. proj' = proj \/ \E up, down : proj' = Bump(up, down)
      BY <1>15, Zenon DEF MarkFenced
    <3> QED
      BY <3>1, BumpType DEF TypeOK
  <2>3. worker' \in [Workers -> Invocation]
    BY <1>15, AnswerType DEF TypeOK, MarkFenced
  <2>4. tasks' \in [Gens -> NamedTask]
    BY <1>15, AnswerType DEF TypeOK, MarkFenced
  <2>5. lock' \in Workers \cup {"nobody", "orphan"}
    BY <1>15, AnswerType DEF TypeOK, MarkFenced
  <2> QED
    BY <1>15, <2>1, <2>2, <2>3, <2>4, <2>5 DEF TypeOK, MarkFenced
<1>16. ASSUME NEW w \in Workers, RecordFailure(w) PROVE TypeOK'
  <2>1. conv' \in Conversation
    BY <1>16 DEF TypeOK, RecordFailure, Conversation
  <2>2. job' \in Job
    BY <1>16, JobTypes DEF TypeOK, RecordFailure
  <2>3. proj' \in [Counters -> Int]
    <3>1. proj' = proj \/ \E up, down : proj' = Bump(up, down)
      BY <1>16, Zenon DEF RecordFailure
    <3> QED
      BY <3>1, BumpType DEF TypeOK
  <2>4. worker' \in [Workers -> Invocation]
    BY <1>16, AnswerType DEF TypeOK, RecordFailure
  <2>5. tasks' \in [Gens -> NamedTask]
    BY <1>16, AnswerType DEF TypeOK, RecordFailure
  <2>6. lock' \in Workers \cup {"nobody", "orphan"}
    BY <1>16, AnswerType DEF TypeOK, RecordFailure
  <2> QED
    BY <1>16, <2>1, <2>2, <2>3, <2>4, <2>5, <2>6 DEF TypeOK, RecordFailure
<1>17. ASSUME NEW w \in Workers, Crash(w) PROVE TypeOK'
  <2>1. worker' \in [Workers -> Invocation]
    BY <1>17, InvocationTypes DEF TypeOK, Crash
  <2>2. lock' \in Workers \cup {"nobody", "orphan"}
    BY <1>17 DEF TypeOK, Crash
  <2>3. tasks' \in [Gens -> NamedTask]
    BY <1>17, TaskTypes DEF TypeOK, Crash, Invocation
  <2>4. faults' \in 0 .. MaxFaults
    BY <1>17, FaultType DEF TypeOK, Crash
  <2> QED
    BY <1>17, <2>1, <2>2, <2>3, <2>4 DEF TypeOK, Crash
<1>18. CASE LockExpires
  <2>1. lock' \in Workers \cup {"nobody", "orphan"}
    BY <1>18 DEF TypeOK, LockExpires
  <2>2. faults' \in 0 .. MaxFaults
    BY <1>18, FaultType DEF TypeOK, LockExpires
  <2> QED
    BY <1>18, <2>1, <2>2 DEF TypeOK, LockExpires
<1>19. CASE LeaseExpires
  <2>1. job' \in Job
    BY <1>19 DEF TypeOK, LeaseExpires, Job
  <2>2. faults' \in 0 .. MaxFaults
    BY <1>19, FaultType DEF TypeOK, LeaseExpires, Overtaken
  <2> QED
    BY <1>19, <2>1, <2>2 DEF TypeOK, LeaseExpires
<1>20. CASE DispatchGoesStale
  <2>1. job' \in Job
    BY <1>20 DEF TypeOK, DispatchGoesStale, Job
  <2>2. faults' \in 0 .. MaxFaults
    BY <1>20, FaultType DEF TypeOK, DispatchGoesStale
  <2> QED
    BY <1>20, <2>1, <2>2 DEF TypeOK, DispatchGoesStale
<1>21. CASE ByokAges
  <2>1. job' \in Job
    BY <1>21 DEF TypeOK, ByokAges, Job
  <2>2. faults' \in 0 .. MaxFaults
    BY <1>21, FaultType DEF TypeOK, ByokAges, Overtaken
  <2> QED
    BY <1>21, <2>1, <2>2 DEF TypeOK, ByokAges
<1>22. ASSUME NEW g \in Gens, DeadlinePasses(g) PROVE TypeOK'
  <2>1. tasks' \in [Gens -> NamedTask]
    BY <1>22, TaskTypes DEF TypeOK, DeadlinePasses
  <2>2. faults' \in 0 .. MaxFaults
    BY <1>22, FaultType DEF TypeOK, DeadlinePasses
  <2> QED
    BY <1>22, <2>1, <2>2 DEF TypeOK, DeadlinePasses
<1>23. CASE Discard
  BY <1>23 DEF TypeOK, Discard, Conversation
<1>24. CASE RestoreDiscarded
  BY <1>24 DEF TypeOK, RestoreDiscarded, Conversation
<1>25. CASE DeleteConversation
  BY <1>25 DEF TypeOK, DeleteConversation, Conversation
<1>26. CASE BeginMerge
  BY <1>26 DEF TypeOK, BeginMerge, Conversation
<1>27. CASE CompleteMerge
  BY <1>27 DEF TypeOK, CompleteMerge, Conversation
<1>28. CASE UNCHANGED vars
  BY <1>28 DEF TypeOK, vars
<1> QED
  BY <1>1, <1>2, <1>3, <1>4, <1>5, <1>6, <1>7, <1>8, <1>9, <1>10, <1>11, <1>12, <1>13,
     <1>14, <1>15, <1>16, <1>17, <1>18, <1>19, <1>20, <1>21, <1>22, <1>23, <1>24,
     <1>25, <1>26, <1>27, <1>28 DEF Next, Handler

(* A claim leases the job, or leaves it alone. *)
LEMMA ClaimJob ==
  ASSUME TypeOK, NEW w \in Workers, Claim(w)
  PROVE  \/ job' = job
         \/ /\ Claimable(w)
            /\ job'.status = "leased" /\ job'.gen = job.gen /\ job'.epoch = NextEpoch
            /\ job'.fanout = job.fanout /\ job'.outcome = job.outcome
            /\ (job'.byok <=> job.byok) /\ (job'.reconcile <=> ~job.byok)
<1>0. job \in Job
  BY DEF TypeOK
<1>1. \/ job' = job
      \/ /\ Claimable(w)
         /\ job' = [job EXCEPT !.status = "leased", !.live = TRUE, !.epoch = NextEpoch,
                            !.reconcile = ~job.byok, !.aged = FALSE]
  BY Zenon DEF Claim
<1>2. ASSUME job' = [job EXCEPT !.status = "leased", !.live = TRUE, !.epoch = NextEpoch,
                            !.reconcile = ~job.byok, !.aged = FALSE]
      PROVE  /\ job'.status = "leased" /\ job'.gen = job.gen /\ job'.epoch = NextEpoch
             /\ job'.fanout = job.fanout /\ job'.outcome = job.outcome
             /\ (job'.byok <=> job.byok) /\ (job'.reconcile <=> ~job.byok)
  BY <1>0, <1>2 DEF Job
<1> QED
  BY <1>1, <1>2, Zenon

(* Only the holder of the lease claims the fanout or fences the job. *)
LEMMA ClaimFanoutJob ==
  ASSUME TypeOK, NEW w \in Workers, ClaimFanout(w)
  PROVE  \/ job' = job
         \/ /\ IsCurrentLease(w)
            /\ job'.status = job.status /\ job'.gen = job.gen /\ job'.epoch = job.epoch
            /\ job'.fanout = "leased" /\ job'.outcome = job.outcome
            /\ (job'.byok <=> job.byok) /\ (job'.reconcile <=> job.reconcile)
         \/ /\ IsCurrentLease(w)
            /\ job'.status = "completed" /\ job'.gen = job.gen /\ job'.epoch = job.epoch
            /\ job'.fanout = "fenced" /\ job'.outcome = "stale"
            /\ (job'.byok <=> job.byok) /\ ~job'.reconcile
<1>0. job \in Job
  BY DEF TypeOK
<1>1. \/ job' = job
      \/ /\ IsCurrentLease(w)
         /\ job' = [job EXCEPT !.fanout = "leased", !.aged = FALSE]
      \/ /\ IsCurrentLease(w)
         /\ job' = FencedJob
  BY Zenon DEF ClaimFanout
<1>2. ASSUME job' = [job EXCEPT !.fanout = "leased", !.aged = FALSE]
      PROVE  /\ job'.status = job.status /\ job'.gen = job.gen /\ job'.epoch = job.epoch
             /\ job'.fanout = "leased" /\ job'.outcome = job.outcome
             /\ (job'.byok <=> job.byok) /\ (job'.reconcile <=> job.reconcile)
  BY <1>0, <1>2 DEF Job
<1>3. ASSUME job' = FencedJob
      PROVE  /\ job'.status = "completed" /\ job'.gen = job.gen /\ job'.epoch = job.epoch
             /\ job'.fanout = "fenced" /\ job'.outcome = "stale"
             /\ (job'.byok <=> job.byok) /\ ~job'.reconcile
  BY <1>0, <1>3 DEF Job, FencedJob
<1> QED
  BY <1>1, <1>2, <1>3, Zenon

(* Only the holder of the lease acknowledges the fanout. *)
LEMMA CompleteFanoutJob ==
  ASSUME TypeOK, NEW w \in Workers, CompleteFanout(w)
  PROVE  \/ job' = job
         \/ /\ IsCurrentLease(w)
            /\ job'.status = job.status /\ job'.gen = job.gen /\ job'.epoch = job.epoch
            /\ job'.fanout = "completed" /\ job'.outcome = job.outcome
            /\ (job'.byok <=> job.byok) /\ (job'.reconcile <=> job.reconcile)
<1>0. job \in Job
  BY DEF TypeOK
<1>1. \/ job' = job
      \/ /\ IsCurrentLease(w)
         /\ job' = [job EXCEPT !.fanout = "completed", !.aged = FALSE]
  BY Zenon DEF CompleteFanout
<1>2. ASSUME job' = [job EXCEPT !.fanout = "completed", !.aged = FALSE]
      PROVE  /\ job'.status = job.status /\ job'.gen = job.gen /\ job'.epoch = job.epoch
             /\ job'.fanout = "completed" /\ job'.outcome = job.outcome
             /\ (job'.byok <=> job.byok) /\ (job'.reconcile <=> job.reconcile)
  BY <1>0, <1>2 DEF Job
<1> QED
  BY <1>1, <1>2, Zenon

(* A job succeeds only in the hands of its holder, after the fanout. *)
LEMMA MarkCompletedJob ==
  ASSUME TypeOK, NEW w \in Workers, MarkCompleted(w)
  PROVE  \/ job' = job
         \/ /\ IsCurrentLease(w) /\ job.fanout = "completed"
            /\ job'.status = "completed" /\ job'.gen = job.gen /\ job'.epoch = job.epoch
            /\ job'.fanout = job.fanout /\ job'.outcome = "success"
            /\ (job'.byok <=> job.byok) /\ ~job'.reconcile
<1>0. job \in Job
  BY DEF TypeOK
<1>1. \/ job' = job
      \/ /\ IsCurrentLease(w) /\ job.fanout = "completed"
         /\ job' = [job EXCEPT !.status = "completed", !.outcome = "success",
                            !.live = FALSE, !.reconcile = FALSE, !.aged = FALSE]
  BY Zenon DEF MarkCompleted
<1>2. ASSUME job' = [job EXCEPT !.status = "completed", !.outcome = "success",
                            !.live = FALSE, !.reconcile = FALSE, !.aged = FALSE]
      PROVE  /\ job'.status = "completed" /\ job'.gen = job.gen /\ job'.epoch = job.epoch
             /\ job'.fanout = job.fanout /\ job'.outcome = "success"
             /\ (job'.byok <=> job.byok) /\ ~job'.reconcile
  BY <1>0, <1>2 DEF Job
<1> QED
  BY <1>1, <1>2, Zenon

(* Only the holder of the lease fences the job. *)
LEMMA MarkFencedJob ==
  ASSUME TypeOK, NEW w \in Workers, MarkFenced(w)
  PROVE  \/ job' = job
         \/ /\ IsCurrentLease(w)
            /\ job'.status = "completed" /\ job'.gen = job.gen /\ job'.epoch = job.epoch
            /\ job'.fanout = "fenced" /\ job'.outcome = "stale"
            /\ (job'.byok <=> job.byok) /\ ~job'.reconcile
<1>0. job \in Job
  BY DEF TypeOK
<1>1. \/ job' = job
      \/ /\ IsCurrentLease(w)
         /\ job' = FencedJob
  BY Zenon DEF MarkFenced
<1>2. ASSUME job' = FencedJob
      PROVE  /\ job'.status = "completed" /\ job'.gen = job.gen /\ job'.epoch = job.epoch
             /\ job'.fanout = "fenced" /\ job'.outcome = "stale"
             /\ (job'.byok <=> job.byok) /\ ~job'.reconcile
  BY <1>0, <1>2 DEF Job, FencedJob
<1> QED
  BY <1>1, <1>2, Zenon

(* Only the holder of the lease ends or returns the job. *)
LEMMA RecordFailureJob ==
  ASSUME TypeOK, NEW w \in Workers, RecordFailure(w)
  PROVE  \/ job' = job
         \/ /\ IsCurrentLease(w)
            /\ job'.status = "dead_letter" /\ job'.gen = job.gen /\ job'.epoch = job.epoch
            /\ job'.fanout = job.fanout /\ job'.outcome = "failure"
            /\ (job'.byok <=> job.byok) /\ ~job'.reconcile
         \/ /\ IsCurrentLease(w)
            /\ job'.status = "queued" /\ job'.gen = job.gen /\ job'.epoch = job.epoch
            /\ job'.fanout = job.fanout /\ job'.outcome = job.outcome
            /\ (job'.byok <=> job.byok) /\ (job'.reconcile <=> ~job.byok)
<1>0. job \in Job
  BY DEF TypeOK
<1>1. \/ job' = job
      \/ /\ IsCurrentLease(w)
         /\ job' = [job EXCEPT !.status = "dead_letter", !.outcome = "failure",
                            !.live = FALSE, !.reconcile = FALSE, !.aged = FALSE]
      \/ /\ IsCurrentLease(w)
         /\ job' = [job EXCEPT !.status = "queued", !.live = FALSE, !.fresh = TRUE,
                            !.reconcile = ~job.byok, !.aged = FALSE]
  BY Zenon DEF RecordFailure
<1>2. ASSUME job' = [job EXCEPT !.status = "dead_letter", !.outcome = "failure",
                            !.live = FALSE, !.reconcile = FALSE, !.aged = FALSE]
      PROVE  /\ job'.status = "dead_letter" /\ job'.gen = job.gen /\ job'.epoch = job.epoch
             /\ job'.fanout = job.fanout /\ job'.outcome = "failure"
             /\ (job'.byok <=> job.byok) /\ ~job'.reconcile
  BY <1>0, <1>2 DEF Job
<1>3. ASSUME job' = [job EXCEPT !.status = "queued", !.live = FALSE, !.fresh = TRUE,
                            !.reconcile = ~job.byok, !.aged = FALSE]
      PROVE  /\ job'.status = "queued" /\ job'.gen = job.gen /\ job'.epoch = job.epoch
             /\ job'.fanout = job.fanout /\ job'.outcome = job.outcome
             /\ (job'.byok <=> job.byok) /\ (job'.reconcile <=> ~job.byok)
  BY <1>0, <1>3 DEF Job
<1> QED
  BY <1>1, <1>2, <1>3, Zenon


(* What the job document says of itself is kept by every step. *)
LEMMA JobStep ==
  ASSUME TypeOK, JobInv, [Next]_vars
  PROVE  JobInv'
<1>0. job \in Job
  BY DEF TypeOK
<1> USE <1>0 DEF JobInv, Job, Terminal
<1>1. ASSUME NEW keys \in BOOLEAN, RequestNew(keys) PROVE JobInv'
  BY <1>1 DEF RequestNew, NewJob, NoJob
<1>2. CASE RequestAgain
  BY <1>2 DEF RequestAgain
<1>3. CASE ResumeBlockedByok
  BY <1>3 DEF ResumeBlockedByok
<1>4. CASE Replay
  BY <1>4 DEF Replay, Replayable
<1>5. CASE AbandonByok
  BY <1>5 DEF AbandonByok
<1>6. ASSUME NEW w \in Workers, NEW g \in Gens, Deliver(w, g) PROVE JobInv'
  BY <1>6 DEF Deliver
<1>7. ASSUME NEW w \in Workers, StartPusher(w) PROVE JobInv'
  BY <1>7 DEF StartPusher
<1>8. ASSUME NEW w \in Workers, Claim(w) PROVE JobInv'
  BY <1>8, ClaimJob DEF Claimable, NextEpoch
<1>9. ASSUME NEW w \in Workers, ReadConversation(w) PROVE JobInv'
  BY <1>9 DEF ReadConversation
<1>10. ASSUME NEW w \in Workers, Process(w) PROVE JobInv'
  BY <1>10 DEF Process
<1>11. ASSUME NEW w \in Workers, ClaimFanout(w) PROVE JobInv'
  BY <1>11, ClaimFanoutJob DEF IsCurrentLease
<1>12. ASSUME NEW w \in Workers, EmitEffects(w) PROVE JobInv'
  BY <1>12 DEF EmitEffects
<1>13. ASSUME NEW w \in Workers, CompleteFanout(w) PROVE JobInv'
  BY <1>13, CompleteFanoutJob DEF IsCurrentLease
<1>14. ASSUME NEW w \in Workers, MarkCompleted(w) PROVE JobInv'
  BY <1>14, MarkCompletedJob DEF IsCurrentLease
<1>15. ASSUME NEW w \in Workers, MarkFenced(w) PROVE JobInv'
  BY <1>15, MarkFencedJob DEF IsCurrentLease
<1>16. ASSUME NEW w \in Workers, RecordFailure(w) PROVE JobInv'
  BY <1>16, RecordFailureJob DEF IsCurrentLease
<1>17. ASSUME NEW w \in Workers, Crash(w) PROVE JobInv'
  BY <1>17 DEF Crash
<1>18. CASE LockExpires
  BY <1>18 DEF LockExpires
<1>19. CASE LeaseExpires
  BY <1>19 DEF LeaseExpires
<1>20. CASE DispatchGoesStale
  BY <1>20 DEF DispatchGoesStale
<1>21. CASE ByokAges
  BY <1>21 DEF ByokAges
<1>22. ASSUME NEW g \in Gens, DeadlinePasses(g) PROVE JobInv'
  BY <1>22 DEF DeadlinePasses
<1>23. CASE Discard
  BY <1>23 DEF Discard
<1>24. CASE RestoreDiscarded
  BY <1>24 DEF RestoreDiscarded
<1>25. CASE DeleteConversation
  BY <1>25 DEF DeleteConversation
<1>26. CASE BeginMerge
  BY <1>26 DEF BeginMerge
<1>27. CASE CompleteMerge
  BY <1>27 DEF CompleteMerge
<1>28. CASE UNCHANGED vars
  BY <1>28 DEF vars
<1> QED
  BY <1>1, <1>2, <1>3, <1>4, <1>5, <1>6, <1>7, <1>8, <1>9, <1>10, <1>11, <1>12, <1>13,
     <1>14, <1>15, <1>16, <1>17, <1>18, <1>19, <1>20, <1>21, <1>22, <1>23, <1>24,
     <1>25, <1>26, <1>27, <1>28 DEF Next, Handler

(* A job that exists stays, with its credential class; its epoch only      *)
(* grows.                                                                  *)
LEMMA JobGrows ==
  ASSUME TypeOK, [Next]_vars, job.status # "none"
  PROVE  job'.status # "none" /\ (job'.byok <=> job.byok) /\ job'.epoch >= job.epoch
<1> DEFINE Goal == job'.status # "none" /\ (job'.byok <=> job.byok) /\ job'.epoch >= job.epoch
<1>0. job.epoch \in Nat
  BY DEF TypeOK, Job
<1> USE <1>0
<1>1. ASSUME NEW keys \in BOOLEAN, RequestNew(keys) PROVE Goal
  BY <1>1 DEF RequestNew
<1>2. CASE RequestAgain
  BY <1>2 DEF RequestAgain
<1>3. CASE ResumeBlockedByok
  BY <1>3 DEF ResumeBlockedByok
<1>4. CASE Replay
  BY <1>4 DEF Replay
<1>5. CASE AbandonByok
  BY <1>5 DEF AbandonByok
<1>6. ASSUME NEW w \in Workers, NEW g \in Gens, Deliver(w, g) PROVE Goal
  BY <1>6 DEF Deliver
<1>7. ASSUME NEW w \in Workers, StartPusher(w) PROVE Goal
  BY <1>7 DEF StartPusher
<1>8. ASSUME NEW w \in Workers, Claim(w) PROVE Goal
  BY <1>8, ClaimJob DEF NextEpoch
<1>9. ASSUME NEW w \in Workers, ReadConversation(w) PROVE Goal
  BY <1>9 DEF ReadConversation
<1>10. ASSUME NEW w \in Workers, Process(w) PROVE Goal
  BY <1>10 DEF Process
<1>11. ASSUME NEW w \in Workers, ClaimFanout(w) PROVE Goal
  BY <1>11, ClaimFanoutJob
<1>12. ASSUME NEW w \in Workers, EmitEffects(w) PROVE Goal
  BY <1>12 DEF EmitEffects
<1>13. ASSUME NEW w \in Workers, CompleteFanout(w) PROVE Goal
  BY <1>13, CompleteFanoutJob
<1>14. ASSUME NEW w \in Workers, MarkCompleted(w) PROVE Goal
  BY <1>14, MarkCompletedJob
<1>15. ASSUME NEW w \in Workers, MarkFenced(w) PROVE Goal
  BY <1>15, MarkFencedJob
<1>16. ASSUME NEW w \in Workers, RecordFailure(w) PROVE Goal
  BY <1>16, RecordFailureJob
<1>17. ASSUME NEW w \in Workers, Crash(w) PROVE Goal
  BY <1>17 DEF Crash
<1>18. CASE LockExpires
  BY <1>18 DEF LockExpires
<1>19. CASE LeaseExpires
  BY <1>19 DEF LeaseExpires
<1>20. CASE DispatchGoesStale
  BY <1>20 DEF DispatchGoesStale
<1>21. CASE ByokAges
  BY <1>21 DEF ByokAges
<1>22. ASSUME NEW g \in Gens, DeadlinePasses(g) PROVE Goal
  BY <1>22 DEF DeadlinePasses
<1>23. CASE Discard
  BY <1>23 DEF Discard
<1>24. CASE RestoreDiscarded
  BY <1>24 DEF RestoreDiscarded
<1>25. CASE DeleteConversation
  BY <1>25 DEF DeleteConversation
<1>26. CASE BeginMerge
  BY <1>26 DEF BeginMerge
<1>27. CASE CompleteMerge
  BY <1>27 DEF CompleteMerge
<1>28. CASE UNCHANGED vars
  BY <1>28 DEF vars
<1> QED
  BY <1>1, <1>2, <1>3, <1>4, <1>5, <1>6, <1>7, <1>8, <1>9, <1>10, <1>11, <1>12, <1>13,
     <1>14, <1>15, <1>16, <1>17, <1>18, <1>19, <1>20, <1>21, <1>22, <1>23, <1>24,
     <1>25, <1>26, <1>27, <1>28 DEF Next, Handler

(* A handler that moves on keeps its lease, its task and its generation. *)
LEMMA GotoWorker ==
  ASSUME TypeOK, NEW w \in Workers, NEW p, Goto(w, p)
  PROVE  /\ \A v \in Workers : v # w => worker'[v] = worker[v]
         /\ worker'[w].pc = p /\ worker'[w].epoch = worker[w].epoch
         /\ worker'[w].task = worker[w].task
  BY DEF TypeOK, Invocation, Goto

(* A handler that answers is idle; the others do not notice. *)
LEMMA AnswerWorker ==
  ASSUME TypeOK, NEW w \in Workers, NEW ok \in BOOLEAN, Answer(w, ok)
  PROVE  /\ \A v \in Workers : v # w => worker'[v] = worker[v]
         /\ worker'[w] = Idle
  BY DEF TypeOK, Answer

(* Handler w goes from one place to one of others, or answers; nobody else *)
(* moves.                                                                  *)
Moved(w, from, to) ==
  /\ worker[w].pc = from
  /\ \A v \in Workers : v # w => worker'[v] = worker[v]
  /\ \/ worker'[w] = Idle
     \/ /\ worker'[w].pc \in to /\ worker'[w].epoch = worker[w].epoch
        /\ worker'[w].task = worker[w].task

(* Where each handler step leads. *)
LEMMA Moves ==
  ASSUME TypeOK, NEW w \in Workers
  PROVE
  /\ ReadConversation(w) => Moved(w, "read", {"process", "fanout", "fence"})
  /\ Process(w) => Moved(w, "process", {"fanout", "fence", "fail"})
  /\ ClaimFanout(w) => Moved(w, "fanout", {"complete", "effects", "fence", "fail"})
  /\ EmitEffects(w) => Moved(w, "effects", {"ack", "fail"})
  /\ CompleteFanout(w) => Moved(w, "ack", {"complete", "fail"})
  /\ MarkCompleted(w) => Moved(w, "complete", {})
  /\ MarkFenced(w) => Moved(w, "fence", {})
  /\ RecordFailure(w) => Moved(w, "fail", {})
<1>1. ASSUME ReadConversation(w) PROVE Moved(w, "read", {"process", "fanout", "fence"})
  <2>1. PICK p \in {"process", "fanout", "fence"} : Goto(w, p)
    BY <1>1 DEF ReadConversation
  <2> QED
    BY <1>1, <2>1, GotoWorker DEF ReadConversation, Moved
<1>2. ASSUME Process(w) PROVE Moved(w, "process", {"fanout", "fence", "fail"})
  <2>1. PICK p \in {"fanout", "fence", "fail"} : Goto(w, p)
    BY <1>2 DEF Process
  <2> QED
    BY <1>2, <2>1, GotoWorker DEF Process, Moved
<1>3. ASSUME ClaimFanout(w) PROVE Moved(w, "fanout", {"complete", "effects", "fence", "fail"})
  <2>1. PICK p \in {"complete", "effects", "fence", "fail"} : Goto(w, p)
    BY <1>3 DEF ClaimFanout
  <2> QED
    BY <1>3, <2>1, GotoWorker DEF ClaimFanout, Moved
<1>4. ASSUME EmitEffects(w) PROVE Moved(w, "effects", {"ack", "fail"})
  <2>1. PICK p \in {"ack", "fail"} : Goto(w, p)
    BY <1>4 DEF EmitEffects
  <2> QED
    BY <1>4, <2>1, GotoWorker DEF EmitEffects, Moved
<1>5. ASSUME CompleteFanout(w) PROVE Moved(w, "ack", {"complete", "fail"})
  <2>1. PICK p \in {"complete", "fail"} : Goto(w, p)
    BY <1>5 DEF CompleteFanout
  <2> QED
    BY <1>5, <2>1, GotoWorker DEF CompleteFanout, Moved
<1>6. ASSUME MarkCompleted(w) PROVE Moved(w, "complete", {})
  <2>1. \E ok \in BOOLEAN : Answer(w, ok)
    BY <1>6 DEF MarkCompleted
  <2> QED
    BY <1>6, <2>1, AnswerWorker DEF MarkCompleted, Moved
<1>7. ASSUME MarkFenced(w) PROVE Moved(w, "fence", {})
  <2>1. \E ok \in BOOLEAN : Answer(w, ok)
    BY <1>7 DEF MarkFenced
  <2> QED
    BY <1>7, <2>1, AnswerWorker DEF MarkFenced, Moved
<1>8. ASSUME RecordFailure(w) PROVE Moved(w, "fail", {})
  <2>1. \E ok \in BOOLEAN : Answer(w, ok)
    BY <1>8 DEF RecordFailure
  <2> QED
    BY <1>8, <2>1, AnswerWorker DEF RecordFailure, Moved
<1> QED
  BY <1>1, <1>2, <1>3, <1>4, <1>5, <1>6, <1>7, <1>8

(* A claim takes the next epoch for the handler and the job alike, or ends *)
(* the invocation.                                                         *)
LEMMA ClaimWorker ==
  ASSUME TypeOK, NEW w \in Workers, Claim(w)
  PROVE  /\ worker[w].pc = "claim"
         /\ \A v \in Workers : v # w => worker'[v] = worker[v]
         /\ \/ worker'[w] = Idle
            \/ /\ worker'[w].pc = "read" /\ worker'[w].epoch = NextEpoch
               /\ job'.epoch = NextEpoch /\ job'.status = "leased"
               /\ worker'[w].task = worker[w].task
<1>1. CASE Claimable(w)
  <2>1. worker' = [worker EXCEPT ![w].pc = "read", ![w].epoch = NextEpoch,
                      ![w].final = IF worker[w].task THEN @ ELSE NextEpoch >= MaxAttempts]
    BY <1>1, Zenon DEF Claim
  <2>2. worker[w] \in Invocation /\ worker \in [Workers -> Invocation]
    BY DEF TypeOK
  <2>3. job' = [job EXCEPT !.status = "leased", !.live = TRUE, !.epoch = NextEpoch,
                           !.reconcile = ~job.byok, !.aged = FALSE]
    BY <1>1, Zenon DEF Claim
  <2>4. job'.epoch = NextEpoch /\ job'.status = "leased"
    BY <2>3 DEF TypeOK, Job
  <2>5. /\ \A v \in Workers : v # w => worker'[v] = worker[v]
        /\ worker'[w].pc = "read" /\ worker'[w].epoch = NextEpoch
        /\ worker'[w].task = worker[w].task
    BY <2>1, <2>2 DEF Invocation
  <2> QED
    BY <1>1, <2>4, <2>5 DEF Claim
<1>2. CASE ~Claimable(w)
  <2>1. \E ok \in BOOLEAN : Answer(w, ok)
    BY <1>2 DEF Claim
  <2> QED
    BY <2>1, AnswerWorker DEF Claim
<1> QED
  BY <1>1, <1>2

(* A delivery and a pusher's start lead a handler to its claim; a crash    *)
(* leaves it idle.                                                         *)
LEMMA Starts ==
  ASSUME TypeOK, NEW w \in Workers,
         StartPusher(w) \/ Crash(w) \/ \E g \in Gens : Deliver(w, g)
  PROVE  /\ \A v \in Workers : v # w => worker'[v] = worker[v]
         /\ worker'[w] = worker[w] \/ worker'[w].pc = "claim" \/ worker'[w] = Idle
<1>1. CASE StartPusher(w)
  BY <1>1 DEF StartPusher, TypeOK, Idle
<1>2. CASE Crash(w)
  BY <1>2 DEF Crash, TypeOK
<1>3. ASSUME NEW g \in Gens, Deliver(w, g)
      PROVE  /\ \A v \in Workers : v # w => worker'[v] = worker[v]
             /\ worker'[w] = worker[w] \/ worker'[w].pc = "claim"
  <2>1. CASE lock = "nobody"
    <3> DEFINE i == [Idle EXCEPT !.pc = "claim", !.task = TRUE, !.gen = g,
                                 !.final = tasks[g].retry >= MaxAttempts - 1]
    <3>1. worker' = [worker EXCEPT ![w] = i]
      BY <1>3, <2>1 DEF Deliver
    <3>2. i.pc = "claim"
      BY DEF Idle
    <3> HIDE DEF i
    <3> QED
      BY <3>1, <3>2 DEF TypeOK
  <2>2. CASE lock # "nobody"
    BY <1>3, <2>2 DEF Deliver
  <2> QED
    BY <2>1, <2>2
<1> QED
  BY <1>1, <1>2, <1>3

(* The epochs stay distinct when one handler moves with its own lease. *)
LEMMA LeaseKept ==
  ASSUME TypeOK, TypeOK', LeaseInv, [Next]_vars, NEW w \in Workers,
         \A v \in Workers : v # w => worker'[v] = worker[v],
         \/ worker'[w].pc \notin Working
         \/ worker[w].pc \in Working /\ worker'[w].epoch = worker[w].epoch
  PROVE  LeaseInv'
<1>1. /\ \A v \in Workers : worker[v].epoch \in Nat
      /\ job.epoch \in Nat
  BY DEF TypeOK, Invocation, Job
<1>2. \A v \in Workers : worker'[v].pc \in Working =>
        worker[v].pc \in Working /\ worker'[v].epoch = worker[v].epoch
  OBVIOUS
<1>3. \A v \in Workers : worker'[v].pc \in Working =>
        job'.status # "none" /\ worker'[v].epoch <= job'.epoch
  <2> SUFFICES ASSUME NEW v \in Workers, worker'[v].pc \in Working
               PROVE  job'.status # "none" /\ worker'[v].epoch <= job'.epoch
    OBVIOUS
  <2>1. job.status # "none" /\ worker[v].epoch <= job.epoch
    BY <1>2 DEF LeaseInv
  <2>2. job'.status # "none" /\ job'.epoch >= job.epoch
    BY <2>1, JobGrows
  <2>3. job'.epoch \in Nat
    BY DEF TypeOK, Job
  <2> QED
    BY <1>1, <1>2, <2>1, <2>2, <2>3
<1>4. LeaseIsExclusive'
  BY <1>2 DEF LeaseInv, LeaseIsExclusive
<1> QED
  BY <1>3, <1>4 DEF LeaseInv

(* The epochs of the handlers at work stay distinct. *)
LEMMA LeaseStep ==
  ASSUME TypeOK, TypeOK', LeaseInv, [Next]_vars
  PROVE  LeaseInv'
<1>0. ASSUME worker' = worker PROVE LeaseInv'
  <2>1. CASE Workers = {}
    BY <2>1 DEF LeaseInv, LeaseIsExclusive
  <2>2. ASSUME NEW w \in Workers PROVE LeaseInv'
    <3>1. worker'[w].pc \notin Working
             \/ (worker[w].pc \in Working /\ worker'[w].epoch = worker[w].epoch)
      BY <1>0
    <3> QED
      BY <1>0, <3>1, LeaseKept
  <2> QED
    BY <2>1, <2>2
<1>1. ASSUME NEW keys \in BOOLEAN, RequestNew(keys) PROVE LeaseInv'
  BY <1>1, <1>0 DEF RequestNew, vars
<1>2. CASE RequestAgain
  BY <1>2, <1>0 DEF RequestAgain, vars
<1>3. CASE ResumeBlockedByok
  BY <1>3, <1>0 DEF ResumeBlockedByok, vars
<1>4. CASE Replay
  BY <1>4, <1>0 DEF Replay, vars
<1>5. CASE AbandonByok
  BY <1>5, <1>0 DEF AbandonByok, vars
<1>6. ASSUME NEW w \in Workers, NEW g \in Gens, Deliver(w, g) PROVE LeaseInv'
  BY <1>6, LeaseKept, Starts DEF Idle, Working
<1>7. ASSUME NEW w \in Workers, StartPusher(w) PROVE LeaseInv'
  BY <1>7, LeaseKept, Starts DEF Idle, Working
<1>8. ASSUME NEW w \in Workers, Claim(w) PROVE LeaseInv'
  <2>1. \A v \in Workers : worker[v].epoch \in Nat
    BY DEF TypeOK, Invocation
  <2>2. CASE worker'[w] = Idle
    BY <1>8, <2>2, ClaimWorker, LeaseKept DEF Idle, Working
  <2>3. CASE worker'[w] # Idle
    <3>1. /\ worker'[w].epoch = job.epoch + 1
          /\ job'.epoch = job.epoch + 1 /\ job'.status = "leased"
          /\ \A v \in Workers : v # w => worker'[v] = worker[v]
      BY <1>8, <2>3, ClaimWorker DEF NextEpoch
    <3>2. \A v \in Workers : worker[v].pc \in Working => worker[v].epoch <= job.epoch
      BY DEF LeaseInv
    <3>3. job.epoch \in Nat
      BY DEF TypeOK, Job
    <3>4. \A v \in Workers : worker'[v].pc \in Working =>
            job'.status # "none" /\ worker'[v].epoch <= job'.epoch
      BY <2>1, <3>1, <3>2, <3>3
    <3>5. LeaseIsExclusive'
      BY <2>1, <3>1, <3>2, <3>3 DEF LeaseInv, LeaseIsExclusive
    <3> QED
      BY <3>4, <3>5 DEF LeaseInv
  <2> QED
    BY <2>2, <2>3
<1>9. ASSUME NEW w \in Workers, ReadConversation(w) PROVE LeaseInv'
  BY <1>9, LeaseKept, Moves DEF Moved, Idle, Working
<1>10. ASSUME NEW w \in Workers, Process(w) PROVE LeaseInv'
  BY <1>10, LeaseKept, Moves DEF Moved, Idle, Working
<1>11. ASSUME NEW w \in Workers, ClaimFanout(w) PROVE LeaseInv'
  BY <1>11, LeaseKept, Moves DEF Moved, Idle, Working
<1>12. ASSUME NEW w \in Workers, EmitEffects(w) PROVE LeaseInv'
  BY <1>12, LeaseKept, Moves DEF Moved, Idle, Working
<1>13. ASSUME NEW w \in Workers, CompleteFanout(w) PROVE LeaseInv'
  BY <1>13, LeaseKept, Moves DEF Moved, Idle, Working
<1>14. ASSUME NEW w \in Workers, MarkCompleted(w) PROVE LeaseInv'
  BY <1>14, LeaseKept, Moves DEF Moved, Idle, Working
<1>15. ASSUME NEW w \in Workers, MarkFenced(w) PROVE LeaseInv'
  BY <1>15, LeaseKept, Moves DEF Moved, Idle, Working
<1>16. ASSUME NEW w \in Workers, RecordFailure(w) PROVE LeaseInv'
  BY <1>16, LeaseKept, Moves DEF Moved, Idle, Working
<1>17. ASSUME NEW w \in Workers, Crash(w) PROVE LeaseInv'
  BY <1>17, LeaseKept, Starts DEF Idle, Working
<1>18. CASE LockExpires
  BY <1>18, <1>0 DEF LockExpires, vars
<1>19. CASE LeaseExpires
  BY <1>19, <1>0 DEF LeaseExpires, vars
<1>20. CASE DispatchGoesStale
  BY <1>20, <1>0 DEF DispatchGoesStale, vars
<1>21. CASE ByokAges
  BY <1>21, <1>0 DEF ByokAges, vars
<1>22. ASSUME NEW g \in Gens, DeadlinePasses(g) PROVE LeaseInv'
  BY <1>22, <1>0 DEF DeadlinePasses, vars
<1>23. CASE Discard
  BY <1>23, <1>0 DEF Discard, vars
<1>24. CASE RestoreDiscarded
  BY <1>24, <1>0 DEF RestoreDiscarded, vars
<1>25. CASE DeleteConversation
  BY <1>25, <1>0 DEF DeleteConversation, vars
<1>26. CASE BeginMerge
  BY <1>26, <1>0 DEF BeginMerge, vars
<1>27. CASE CompleteMerge
  BY <1>27, <1>0 DEF CompleteMerge, vars
<1>28. CASE UNCHANGED vars
  BY <1>28, <1>0 DEF vars
<1> QED
  BY <1>1, <1>2, <1>3, <1>4, <1>5, <1>6, <1>7, <1>8, <1>9, <1>10, <1>11, <1>12, <1>13,
     <1>14, <1>15, <1>16, <1>17, <1>18, <1>19, <1>20, <1>21, <1>22, <1>23, <1>24,
     <1>25, <1>26, <1>27, <1>28 DEF Next, Handler

(* Effects come before their acknowledgement, and that before success. *)
LEMMA FanoutStep ==
  ASSUME TypeOK, FanoutInv, [Next]_vars
  PROVE  FanoutInv'
<1> USE DEF FanoutInv, SuccessHadItsFanout
<1>1. ASSUME NEW keys \in BOOLEAN, RequestNew(keys) PROVE FanoutInv'
  BY <1>1 DEF RequestNew, NewJob, NoJob
<1>2. CASE RequestAgain
  BY <1>2 DEF RequestAgain
<1>3. CASE ResumeBlockedByok
  BY <1>3 DEF ResumeBlockedByok
<1>4. CASE Replay
  BY <1>4 DEF Replay
<1>5. CASE AbandonByok
  BY <1>5 DEF AbandonByok
<1>6. ASSUME NEW w \in Workers, NEW g \in Gens, Deliver(w, g) PROVE FanoutInv'
  <2>1. UNCHANGED <<effects, job>>
    BY <1>6 DEF Deliver
  <2> QED
    BY <1>6, <2>1, Starts DEF Idle
<1>7. ASSUME NEW w \in Workers, StartPusher(w) PROVE FanoutInv'
  BY <1>7, Starts DEF StartPusher, Idle
<1>8. ASSUME NEW w \in Workers, Claim(w) PROVE FanoutInv'
  <2>1. UNCHANGED effects
    BY <1>8 DEF Claim
  <2> QED
    BY <1>8, <2>1, ClaimWorker, ClaimJob DEF Idle
<1>9. ASSUME NEW w \in Workers, ReadConversation(w) PROVE FanoutInv'
  BY <1>9, Moves DEF ReadConversation, Moved, Idle
<1>10. ASSUME NEW w \in Workers, Process(w) PROVE FanoutInv'
  BY <1>10, Moves DEF Process, Moved, Idle
<1>11. ASSUME NEW w \in Workers, ClaimFanout(w) PROVE FanoutInv'
  BY <1>11, Moves, ClaimFanoutJob DEF ClaimFanout, Moved, Idle
<1>12. ASSUME NEW w \in Workers, EmitEffects(w) PROVE FanoutInv'
  <2>1. job' = job /\ effects \subseteq effects'
    BY <1>12 DEF EmitEffects
  <2>2. worker'[w].pc = "ack" => effects' # {}
    BY <1>12, GotoWorker DEF EmitEffects
  <2>3. \A v \in Workers : v # w => worker'[v] = worker[v]
    BY <1>12, Moves DEF Moved
  <2> QED
    BY <2>1, <2>2, <2>3
<1>13. ASSUME NEW w \in Workers, CompleteFanout(w) PROVE FanoutInv'
  BY <1>13, Moves, CompleteFanoutJob DEF CompleteFanout, Moved, Idle
<1>14. ASSUME NEW w \in Workers, MarkCompleted(w) PROVE FanoutInv'
  <2>1. UNCHANGED effects
    BY <1>14 DEF MarkCompleted
  <2> QED
    BY <1>14, <2>1, Moves, MarkCompletedJob DEF Moved, Idle
<1>15. ASSUME NEW w \in Workers, MarkFenced(w) PROVE FanoutInv'
  <2>1. UNCHANGED effects
    BY <1>15 DEF MarkFenced
  <2> QED
    BY <1>15, <2>1, Moves, MarkFencedJob DEF Moved, Idle
<1>16. ASSUME NEW w \in Workers, RecordFailure(w) PROVE FanoutInv'
  <2>1. UNCHANGED effects
    BY <1>16 DEF RecordFailure
  <2> QED
    BY <1>16, <2>1, Moves, RecordFailureJob DEF Moved, Idle
<1>17. ASSUME NEW w \in Workers, Crash(w) PROVE FanoutInv'
  BY <1>17, Starts DEF Crash, Idle
<1>18. CASE LockExpires
  BY <1>18 DEF LockExpires
<1>19. CASE LeaseExpires
  BY <1>19 DEF LeaseExpires
<1>20. CASE DispatchGoesStale
  BY <1>20 DEF DispatchGoesStale
<1>21. CASE ByokAges
  BY <1>21 DEF ByokAges
<1>22. ASSUME NEW g \in Gens, DeadlinePasses(g) PROVE FanoutInv'
  BY <1>22 DEF DeadlinePasses
<1>23. CASE Discard
  BY <1>23 DEF Discard
<1>24. CASE RestoreDiscarded
  BY <1>24 DEF RestoreDiscarded
<1>25. CASE DeleteConversation
  BY <1>25 DEF DeleteConversation
<1>26. CASE BeginMerge
  BY <1>26 DEF BeginMerge
<1>27. CASE CompleteMerge
  BY <1>27 DEF CompleteMerge
<1>28. CASE UNCHANGED vars
  BY <1>28 DEF vars
<1> QED
  BY <1>1, <1>2, <1>3, <1>4, <1>5, <1>6, <1>7, <1>8, <1>9, <1>10, <1>11, <1>12, <1>13,
     <1>14, <1>15, <1>16, <1>17, <1>18, <1>19, <1>20, <1>21, <1>22, <1>23, <1>24,
     <1>25, <1>26, <1>27, <1>28 DEF Next, Handler

(* No step makes a task for a job that needs the user's keys. *)
LEMMA PlatformStep ==
  ASSUME TypeOK, JobInv, PlatformInv, [Next]_vars
  PROVE  PlatformInv'
<1> DEFINE Quiet == /\ \A g \in Gens : tasks[g].state = "none"
                    /\ \A w \in Workers : ~worker[w].task
<1> SUFFICES ASSUME job'.byok \/ job'.status = "none"
             PROVE  Quiet'
  BY DEF PlatformInv
<1>a. Quiet
  BY JobGrows DEF PlatformInv
<1>b. job'.byok => job.byok \/ job.status = "none"
  BY JobGrows
<1> USE <1>a, <1>b
<1>1. ASSUME NEW keys \in BOOLEAN, RequestNew(keys) PROVE Quiet'
  BY <1>1 DEF RequestNew, NewJob, NoJob
<1>2. CASE RequestAgain
  BY <1>2 DEF RequestAgain
<1>3. CASE ResumeBlockedByok
  BY <1>3 DEF ResumeBlockedByok
<1>4. CASE Replay
  BY <1>4 DEF Replay, Replayable, JobInv
<1>5. CASE AbandonByok
  BY <1>5 DEF AbandonByok
<1>6. ASSUME NEW w \in Workers, NEW g \in Gens, Deliver(w, g) PROVE Quiet'
  BY <1>6 DEF Deliver
<1>7. ASSUME NEW w \in Workers, StartPusher(w) PROVE Quiet'
  BY <1>7 DEF StartPusher, TypeOK, Idle
<1>8. ASSUME NEW w \in Workers, Claim(w) PROVE Quiet'
  <2>1. UNCHANGED tasks
    <3>1. (\E ok \in BOOLEAN : Answer(w, ok)) \/ UNCHANGED tasks
      BY <1>8 DEF Claim
    <3> QED
      BY <3>1 DEF Answer
  <2> QED
    BY <1>8, <2>1, ClaimWorker DEF Idle
<1>9. ASSUME NEW w \in Workers, ReadConversation(w) PROVE Quiet'
  <2>1. UNCHANGED tasks
    BY <1>9 DEF ReadConversation
  <2> QED
    BY <1>9, <2>1, Moves DEF Moved, Idle
<1>10. ASSUME NEW w \in Workers, Process(w) PROVE Quiet'
  <2>1. UNCHANGED tasks
    BY <1>10 DEF Process
  <2> QED
    BY <1>10, <2>1, Moves DEF Moved, Idle
<1>11. ASSUME NEW w \in Workers, ClaimFanout(w) PROVE Quiet'
  <2>1. UNCHANGED tasks
    BY <1>11 DEF ClaimFanout
  <2> QED
    BY <1>11, <2>1, Moves DEF Moved, Idle
<1>12. ASSUME NEW w \in Workers, EmitEffects(w) PROVE Quiet'
  <2>1. UNCHANGED tasks
    BY <1>12 DEF EmitEffects
  <2> QED
    BY <1>12, <2>1, Moves DEF Moved, Idle
<1>13. ASSUME NEW w \in Workers, CompleteFanout(w) PROVE Quiet'
  <2>1. UNCHANGED tasks
    BY <1>13 DEF CompleteFanout
  <2> QED
    BY <1>13, <2>1, Moves DEF Moved, Idle
<1>14. ASSUME NEW w \in Workers, MarkCompleted(w) PROVE Quiet'
  <2>1. UNCHANGED tasks
    <3>1. \E ok \in BOOLEAN : Answer(w, ok)
      BY <1>14 DEF MarkCompleted
    <3> QED
      BY <3>1 DEF Answer
  <2> QED
    BY <1>14, <2>1, Moves DEF Moved, Idle
<1>15. ASSUME NEW w \in Workers, MarkFenced(w) PROVE Quiet'
  <2>1. UNCHANGED tasks
    <3>1. \E ok \in BOOLEAN : Answer(w, ok)
      BY <1>15 DEF MarkFenced
    <3> QED
      BY <3>1 DEF Answer
  <2> QED
    BY <1>15, <2>1, Moves DEF Moved, Idle
<1>16. ASSUME NEW w \in Workers, RecordFailure(w) PROVE Quiet'
  <2>1. UNCHANGED tasks
    <3>1. \E ok \in BOOLEAN : Answer(w, ok)
      BY <1>16 DEF RecordFailure
    <3> QED
      BY <3>1 DEF Answer
  <2> QED
    BY <1>16, <2>1, Moves DEF Moved, Idle
<1>17. ASSUME NEW w \in Workers, Crash(w) PROVE Quiet'
  BY <1>17 DEF Crash, TypeOK, Idle
<1>18. CASE LockExpires
  BY <1>18 DEF LockExpires
<1>19. CASE LeaseExpires
  BY <1>19 DEF LeaseExpires
<1>20. CASE DispatchGoesStale
  BY <1>20 DEF DispatchGoesStale
<1>21. CASE ByokAges
  BY <1>21 DEF ByokAges
<1>22. ASSUME NEW g \in Gens, DeadlinePasses(g) PROVE Quiet'
  BY <1>22 DEF DeadlinePasses
<1>23. CASE Discard
  BY <1>23 DEF Discard
<1>24. CASE RestoreDiscarded
  BY <1>24 DEF RestoreDiscarded
<1>25. CASE DeleteConversation
  BY <1>25 DEF DeleteConversation
<1>26. CASE BeginMerge
  BY <1>26 DEF BeginMerge
<1>27. CASE CompleteMerge
  BY <1>27 DEF CompleteMerge
<1>28. CASE UNCHANGED vars
  BY <1>28 DEF vars
<1> QED
  BY <1>1, <1>2, <1>3, <1>4, <1>5, <1>6, <1>7, <1>8, <1>9, <1>10, <1>11, <1>12, <1>13,
     <1>14, <1>15, <1>16, <1>17, <1>18, <1>19, <1>20, <1>21, <1>22, <1>23, <1>24,
     <1>25, <1>26, <1>27, <1>28 DEF Next, Handler

(* What the client shows as a spinner. *)
Visible == conv.status = "processing" /\ ~conv.deferred

(* A conversation is put on processing by its admission only; a deleted    *)
(* one stays deleted.                                                      *)
LEMMA ConversationStep ==
  ASSUME TypeOK, [Next]_vars
  PROVE  /\ conv'.kind = conv.kind
         /\ conv.status = "absent" => conv'.status = "absent"
         /\ job.status # "none" /\ Visible' => Visible
<1> DEFINE Goal == /\ conv'.kind = conv.kind
                   /\ conv.status = "absent" => conv'.status = "absent"
                   /\ job.status # "none" /\ Visible' => Visible
<1>0. conv \in Conversation
  BY DEF TypeOK
<1> USE <1>0 DEF Conversation, Visible
<1>1. ASSUME NEW keys \in BOOLEAN, RequestNew(keys) PROVE Goal
  BY <1>1 DEF RequestNew
<1>2. CASE RequestAgain
  BY <1>2 DEF RequestAgain
<1>3. CASE ResumeBlockedByok
  BY <1>3 DEF ResumeBlockedByok
<1>4. CASE Replay
  BY <1>4 DEF Replay
<1>5. CASE AbandonByok
  BY <1>5 DEF AbandonByok, AbandonedConversation
<1>6. ASSUME NEW w \in Workers, NEW g \in Gens, Deliver(w, g) PROVE Goal
  BY <1>6 DEF Deliver
<1>7. ASSUME NEW w \in Workers, StartPusher(w) PROVE Goal
  BY <1>7 DEF StartPusher
<1>8. ASSUME NEW w \in Workers, Claim(w) PROVE Goal
  BY <1>8 DEF Claim
<1>9. ASSUME NEW w \in Workers, ReadConversation(w) PROVE Goal
  BY <1>9 DEF ReadConversation
<1>10. ASSUME NEW w \in Workers, Process(w) PROVE Goal
  <2>1. \/ UNCHANGED conv
        \/ \E d \in BOOLEAN : conv' = Persist([status |-> "completed", discarded |-> d,
                                            deferred |-> FALSE])
        \/ conv' = Persist([status |-> "processing", discarded |-> FALSE, deferred |-> TRUE])
    BY <1>10 DEF Process
  <2> QED
    BY <2>1 DEF Persist
<1>11. ASSUME NEW w \in Workers, ClaimFanout(w) PROVE Goal
  BY <1>11 DEF ClaimFanout
<1>12. ASSUME NEW w \in Workers, EmitEffects(w) PROVE Goal
  BY <1>12 DEF EmitEffects
<1>13. ASSUME NEW w \in Workers, CompleteFanout(w) PROVE Goal
  BY <1>13 DEF CompleteFanout
<1>14. ASSUME NEW w \in Workers, MarkCompleted(w) PROVE Goal
  BY <1>14 DEF MarkCompleted
<1>15. ASSUME NEW w \in Workers, MarkFenced(w) PROVE Goal
  BY <1>15 DEF MarkFenced
<1>16. ASSUME NEW w \in Workers, RecordFailure(w) PROVE Goal
  <2>1. \/ UNCHANGED conv
        \/ /\ conv.status = "processing"
           /\ conv' = [conv EXCEPT !.status = "failed", !.discarded = TRUE]
    BY <1>16, Zenon DEF RecordFailure
  <2> QED
    BY <2>1
<1>17. ASSUME NEW w \in Workers, Crash(w) PROVE Goal
  BY <1>17 DEF Crash
<1>18. CASE LockExpires
  BY <1>18 DEF LockExpires
<1>19. CASE LeaseExpires
  BY <1>19 DEF LeaseExpires
<1>20. CASE DispatchGoesStale
  BY <1>20 DEF DispatchGoesStale
<1>21. CASE ByokAges
  BY <1>21 DEF ByokAges
<1>22. ASSUME NEW g \in Gens, DeadlinePasses(g) PROVE Goal
  BY <1>22 DEF DeadlinePasses
<1>23. CASE Discard
  BY <1>23 DEF Discard
<1>24. CASE RestoreDiscarded
  BY <1>24 DEF RestoreDiscarded
<1>25. CASE DeleteConversation
  BY <1>25 DEF DeleteConversation
<1>26. CASE BeginMerge
  BY <1>26 DEF BeginMerge
<1>27. CASE CompleteMerge
  BY <1>27 DEF CompleteMerge
<1>28. CASE UNCHANGED vars
  BY <1>28 DEF vars
<1> QED
  BY <1>1, <1>2, <1>3, <1>4, <1>5, <1>6, <1>7, <1>8, <1>9, <1>10, <1>11, <1>12, <1>13,
     <1>14, <1>15, <1>16, <1>17, <1>18, <1>19, <1>20, <1>21, <1>22, <1>23, <1>24,
     <1>25, <1>26, <1>27, <1>28 DEF Next, Handler

(* Whoever is past processing goes on to find the conversation off it. *)
LEMMA CourseStep ==
  ASSUME TypeOK, LeaseInv, CourseInv, [Next]_vars
  PROVE  CourseInv'
<1> SUFFICES ASSUME NEW v \in Workers, worker'[v].pc \in Past,
                    conv'.kind \in {"eager", "deferred"}
             PROVE  ~Visible'
  BY DEF CourseInv, Visible
<1>c. conv.kind \in {"eager", "deferred"}
  BY ConversationStep
<1>d. ASSUME worker[v].pc \in Past PROVE ~Visible'
  <2>1. ~Visible
    BY <1>c, <1>d DEF CourseInv, Visible
  <2>2. job.status # "none"
    BY <1>d DEF LeaseInv, Past, Working
  <2> QED
    BY <2>1, <2>2, ConversationStep
<1>1. ASSUME NEW keys \in BOOLEAN, RequestNew(keys) PROVE ~Visible'
  BY <1>1, <1>d DEF RequestNew
<1>2. CASE RequestAgain
  BY <1>2, <1>d DEF RequestAgain
<1>3. CASE ResumeBlockedByok
  BY <1>3, <1>d DEF ResumeBlockedByok
<1>4. CASE Replay
  BY <1>4, <1>d DEF Replay
<1>5. CASE AbandonByok
  BY <1>5, <1>d DEF AbandonByok
<1>6. ASSUME NEW w \in Workers, NEW g \in Gens, Deliver(w, g) PROVE ~Visible'
  BY <1>6, <1>d, Starts DEF Idle, Past
<1>7. ASSUME NEW w \in Workers, StartPusher(w) PROVE ~Visible'
  BY <1>7, <1>d, Starts DEF Idle, Past
<1>8. ASSUME NEW w \in Workers, Claim(w) PROVE ~Visible'
  BY <1>8, <1>d, ClaimWorker DEF Idle, Past
<1>9. ASSUME NEW w \in Workers, ReadConversation(w) PROVE ~Visible'
  <2>1. CASE w = v
    <3>1. UNCHANGED conv
      BY <1>9 DEF ReadConversation
    <3>2. conv.kind # "migrating"
      BY <1>c
    <3>3. Goto(w, CASE conv.status = "processing" -> "process"
                    [] conv.status \in {"completed", "absent"} -> "fanout"
                    [] OTHER -> "fence")
      BY <1>9, <3>2 DEF ReadConversation
    <3>4. conv.status = "processing" => Goto(w, "process")
      BY <3>3
    <3>5. conv.status # "processing"
      BY <2>1, <3>4, GotoWorker DEF Past
    <3> QED
      BY <3>1, <3>5 DEF Visible
  <2>2. CASE w # v
    BY <1>d, <1>9, <2>2, Moves DEF Moved
  <2> QED
    BY <2>1, <2>2
<1>10. ASSUME NEW w \in Workers, Process(w) PROVE ~Visible'
  <2>1. CASE w = v
    <3>1. \/ \E d \in BOOLEAN : conv' = Persist([status |-> "completed", discarded |-> d,
                                            deferred |-> FALSE])
          \/ conv' = Persist([status |-> "processing", discarded |-> FALSE, deferred |-> TRUE])
          \/ Goto(w, "fail") \/ conv.kind = "paywalled"
      BY <1>10 DEF Process
    <3>2. ~Goto(w, "fail")
      BY <2>1, GotoWorker DEF Past
    <3>3. conv.kind # "paywalled"
      BY <1>c
    <3>4. conv \in Conversation
      BY DEF TypeOK
    <3> QED
      BY <3>1, <3>2, <3>3, <3>4 DEF Persist, Visible, Conversation
  <2>2. CASE w # v
    BY <1>d, <1>10, <2>2, Moves DEF Moved
  <2> QED
    BY <2>1, <2>2
<1>11. ASSUME NEW w \in Workers, ClaimFanout(w) PROVE ~Visible'
  BY <1>11, <1>d, Moves DEF Moved, Idle, Past
<1>12. ASSUME NEW w \in Workers, EmitEffects(w) PROVE ~Visible'
  BY <1>12, <1>d, Moves DEF Moved, Idle, Past
<1>13. ASSUME NEW w \in Workers, CompleteFanout(w) PROVE ~Visible'
  BY <1>13, <1>d, Moves DEF Moved, Idle, Past
<1>14. ASSUME NEW w \in Workers, MarkCompleted(w) PROVE ~Visible'
  BY <1>14, <1>d, Moves DEF Moved, Idle, Past
<1>15. ASSUME NEW w \in Workers, MarkFenced(w) PROVE ~Visible'
  BY <1>15, <1>d, Moves DEF Moved, Idle, Past
<1>16. ASSUME NEW w \in Workers, RecordFailure(w) PROVE ~Visible'
  BY <1>16, <1>d, Moves DEF Moved, Idle, Past
<1>17. ASSUME NEW w \in Workers, Crash(w) PROVE ~Visible'
  BY <1>17, <1>d, Starts DEF Idle, Past
<1>18. CASE LockExpires
  BY <1>18, <1>d DEF LockExpires
<1>19. CASE LeaseExpires
  BY <1>19, <1>d DEF LeaseExpires
<1>20. CASE DispatchGoesStale
  BY <1>20, <1>d DEF DispatchGoesStale
<1>21. CASE ByokAges
  BY <1>21, <1>d DEF ByokAges
<1>22. ASSUME NEW g \in Gens, DeadlinePasses(g) PROVE ~Visible'
  BY <1>22, <1>d DEF DeadlinePasses
<1>23. CASE Discard
  BY <1>23, <1>d DEF Discard
<1>24. CASE RestoreDiscarded
  BY <1>24, <1>d DEF RestoreDiscarded
<1>25. CASE DeleteConversation
  BY <1>25, <1>d DEF DeleteConversation
<1>26. CASE BeginMerge
  BY <1>26, <1>d DEF BeginMerge
<1>27. CASE CompleteMerge
  BY <1>27, <1>d DEF CompleteMerge
<1>28. CASE UNCHANGED vars
  BY <1>28, <1>d DEF vars
<1> QED
  BY <1>1, <1>2, <1>3, <1>4, <1>5, <1>6, <1>7, <1>8, <1>9, <1>10, <1>11, <1>12, <1>13,
     <1>14, <1>15, <1>16, <1>17, <1>18, <1>19, <1>20, <1>21, <1>22, <1>23, <1>24,
     <1>25, <1>26, <1>27, <1>28 DEF Next, Handler

(* The states of a job that is under way. *)
Going == {"queued", "leased", "blocked_byok"}

(* A step that moves neither the status nor the outcome needs no delta. *)
LEMMA SameCensus ==
  ASSUME ProjectionMatches, proj' = proj,
         job'.status = job.status, job'.outcome = job.outcome
  PROVE  ProjectionMatches'
  BY DEF ProjectionMatches, Census

(* The deltas of an admission. *)
LEMMA CensusOfNew ==
  ASSUME ProjectionMatches, job.status = "none", job.outcome = "none",
         job'.status \in Going, job'.outcome = "none",
         proj' = Bump({"accepted", job'.status}, {})
  PROVE  ProjectionMatches'
  BY DEF ProjectionMatches, Census, Bump, Going, Counters

(* The deltas of a move between two states under way. *)
LEMMA CensusOfGoing ==
  ASSUME ProjectionMatches, job.status \in Going, job.outcome = "none",
         job'.status \in Going, job'.outcome = "none", job'.status # job.status,
         proj' = Bump({job'.status}, {job.status})
  PROVE  ProjectionMatches'
  BY DEF ProjectionMatches, Census, Bump, Going, Counters

(* The deltas of an end. *)
LEMMA CensusOfEnd ==
  ASSUME ProjectionMatches, job.status \in Going, job.outcome = "none",
         job'.status \in Terminal, job'.outcome \in {"success", "failure", "stale"},
         proj' = Bump({job'.status, job'.outcome}, {job.status})
  PROVE  ProjectionMatches'
  BY DEF ProjectionMatches, Census, Bump, Going, Terminal, Counters

(* Every transaction adds the deltas of the transition it commits. *)
LEMMA ProjectionStep ==
  ASSUME TypeOK, JobInv, ProjectionMatches, [Next]_vars
  PROVE  ProjectionMatches'
<1>1. ASSUME NEW keys \in BOOLEAN, RequestNew(keys) PROVE ProjectionMatches'
  <2>1. /\ job'.status \in Going /\ job'.outcome = "none" /\ job.status = "none"
        /\ proj' = Bump({"accepted", job'.status}, {})
    BY <1>1 DEF RequestNew, NewJob, NoJob, Going
  <2> QED
    BY <2>1, CensusOfNew DEF JobInv, Terminal
<1>2. CASE RequestAgain
  BY <1>2, SameCensus DEF RequestAgain
<1>3. CASE ResumeBlockedByok
  <2>1. /\ job.status = "blocked_byok" /\ job'.status = "queued"
        /\ job'.outcome = job.outcome /\ proj' = Bump({"queued"}, {"blocked_byok"})
    BY <1>3 DEF ResumeBlockedByok
  <2> QED
    BY <2>1, CensusOfGoing DEF JobInv, Going, Terminal
<1>4. CASE Replay
  <2>1. /\ job.status \in {"queued", "leased"}
        /\ job'.status = "queued" /\ job'.outcome = job.outcome
    BY <1>4 DEF Replay, Replayable
  <2>2. CASE job.status = "leased"
    <3>1. proj' = Bump({"queued"}, {"leased"})
      BY <1>4, <2>2 DEF Replay
    <3> QED
      BY <2>1, <2>2, <3>1, CensusOfGoing DEF JobInv, Going, Terminal
  <2>3. CASE job.status = "queued"
    <3>1. proj' = proj
      BY <1>4, <2>3 DEF Replay
    <3> QED
      BY <2>1, <2>3, <3>1, SameCensus
  <2> QED
    BY <2>1, <2>2, <2>3
<1>5. CASE AbandonByok
  <2>1. /\ job.status \in Going /\ job'.status = "dead_letter" /\ job'.outcome = "failure"
        /\ proj' = Bump({"dead_letter", "failure"}, {job.status})
    BY <1>5 DEF AbandonByok, Going
  <2> QED
    BY <2>1, CensusOfEnd DEF JobInv, Going, Terminal
<1>6. ASSUME NEW w \in Workers, NEW g \in Gens, Deliver(w, g) PROVE ProjectionMatches'
  BY <1>6, SameCensus DEF Deliver
<1>7. ASSUME NEW w \in Workers, StartPusher(w) PROVE ProjectionMatches'
  BY <1>7, SameCensus DEF StartPusher
<1>8. ASSUME NEW w \in Workers, Claim(w) PROVE ProjectionMatches'
  <2>1. CASE job.status = "queued" /\ Claimable(w)
    <3>1. /\ proj' = Bump({"leased"}, {"queued"})
          /\ job'.status = "leased" /\ job'.outcome = job.outcome
      BY <1>8, <2>1 DEF Claim, TypeOK, Job
    <3> QED
      BY <2>1, <3>1, CensusOfGoing DEF JobInv, Going, Terminal
  <2>2. CASE job.status # "queued" /\ Claimable(w)
    <3>1. proj' = proj /\ job.status = "leased"
      BY <1>8, <2>2 DEF Claim, Claimable
    <3>2. job'.status = "leased" /\ job'.outcome = job.outcome
      BY <1>8, <2>2 DEF Claim, TypeOK, Job
    <3> QED
      BY <3>1, <3>2, SameCensus
  <2>3. CASE ~Claimable(w)
    BY <1>8, <2>3, SameCensus DEF Claim
  <2> QED
    BY <2>1, <2>2, <2>3
<1>9. ASSUME NEW w \in Workers, ReadConversation(w) PROVE ProjectionMatches'
  BY <1>9, SameCensus DEF ReadConversation
<1>10. ASSUME NEW w \in Workers, Process(w) PROVE ProjectionMatches'
  BY <1>10, SameCensus DEF Process
<1>11. ASSUME NEW w \in Workers, ClaimFanout(w) PROVE ProjectionMatches'
  <2> DEFINE Fences == /\ job.fanout # "completed" /\ IsCurrentLease(w)
                       /\ ~ConversationAdmitsFanout
  <2>1. CASE Fences
    <3>1. job.status = "leased" /\ proj' = Bump({"completed", "stale"}, {"leased"})
      BY <1>11, <2>1 DEF ClaimFanout, IsCurrentLease
    <3>2. job' = FencedJob
      BY <1>11, <2>1 DEF ClaimFanout
    <3>3. job'.status = "completed" /\ job'.outcome = "stale"
      BY <3>2 DEF FencedJob, TypeOK, Job
    <3> QED
      BY <3>1, <3>3, CensusOfEnd DEF JobInv, Going, Terminal
  <2>2. CASE ~Fences
    <3>1. proj' = proj
      BY <1>11, <2>2 DEF ClaimFanout
    <3>2. job' = job \/ job' = [job EXCEPT !.fanout = "leased", !.aged = FALSE]
      BY <1>11, <2>2 DEF ClaimFanout
    <3>3. job'.status = job.status /\ job'.outcome = job.outcome
      BY <3>2 DEF TypeOK, Job
    <3> QED
      BY <3>1, <3>3, SameCensus
  <2> QED
    BY <2>1, <2>2
<1>12. ASSUME NEW w \in Workers, EmitEffects(w) PROVE ProjectionMatches'
  BY <1>12, SameCensus DEF EmitEffects
<1>13. ASSUME NEW w \in Workers, CompleteFanout(w) PROVE ProjectionMatches'
  <2>1. proj' = proj
    BY <1>13 DEF CompleteFanout
  <2> QED
    BY <1>13, <2>1, CompleteFanoutJob, SameCensus
<1>14. ASSUME NEW w \in Workers, MarkCompleted(w) PROVE ProjectionMatches'
  <2>1. CASE IsCurrentLease(w) /\ job.fanout = "completed"
    <3>1. job.status = "leased" /\ proj' = Bump({"completed", "success"}, {"leased"})
      BY <1>14, <2>1, Zenon DEF MarkCompleted, IsCurrentLease
    <3>2. job'.status = "completed" /\ job'.outcome = "success"
      BY <1>14, <2>1 DEF MarkCompleted, FencedJob, TypeOK, Job
    <3> QED
      BY <3>1, <3>2, CensusOfEnd DEF JobInv, Going, Terminal
  <2>2. CASE ~(IsCurrentLease(w) /\ job.fanout = "completed")
    <3>1. UNCHANGED <<job, proj>>
      BY <1>14, <2>2, Zenon DEF MarkCompleted
    <3> QED
      BY <3>1, SameCensus
  <2> QED
    BY <2>1, <2>2
<1>15. ASSUME NEW w \in Workers, MarkFenced(w) PROVE ProjectionMatches'
  <2>1. CASE IsCurrentLease(w) /\ job.fanout = "pending"
    <3>1. job.status = "leased" /\ proj' = Bump({"completed", "stale"}, {"leased"})
      BY <1>15, <2>1, Zenon DEF MarkFenced, IsCurrentLease
    <3>2. job'.status = "completed" /\ job'.outcome = "stale"
      BY <1>15, <2>1 DEF MarkFenced, FencedJob, TypeOK, Job
    <3> QED
      BY <3>1, <3>2, CensusOfEnd DEF JobInv, Going, Terminal
  <2>2. CASE ~(IsCurrentLease(w) /\ job.fanout = "pending")
    <3>1. UNCHANGED <<job, proj>>
      BY <1>15, <2>2, Zenon DEF MarkFenced
    <3> QED
      BY <3>1, SameCensus
  <2> QED
    BY <2>1, <2>2
<1>16. ASSUME NEW w \in Workers, RecordFailure(w) PROVE ProjectionMatches'
  <2>1. CASE ~IsCurrentLease(w)
    <3>1. UNCHANGED <<job, proj>>
      BY <1>16, <2>1, Zenon DEF RecordFailure
    <3> QED
      BY <3>1, SameCensus
  <2>2. CASE IsCurrentLease(w) /\ worker[w].final
    <3>1. job.status = "leased" /\ proj' = Bump({"dead_letter", "failure"}, {"leased"})
      BY <1>16, <2>2, Zenon DEF RecordFailure, IsCurrentLease
    <3>2. job'.status = "dead_letter" /\ job'.outcome = "failure"
      <4>1. job' = [job EXCEPT !.status = "dead_letter", !.outcome = "failure",
                               !.live = FALSE, !.reconcile = FALSE, !.aged = FALSE]
        BY <1>16, <2>2, Zenon DEF RecordFailure
      <4> QED
        BY <4>1 DEF TypeOK, Job
    <3> QED
      BY <3>1, <3>2, CensusOfEnd DEF JobInv, Going, Terminal
  <2>3. CASE IsCurrentLease(w) /\ ~worker[w].final
    <3>1. job.status = "leased" /\ proj' = Bump({"queued"}, {"leased"})
      BY <1>16, <2>3, Zenon DEF RecordFailure, IsCurrentLease
    <3>2. job'.status = "queued" /\ job'.outcome = job.outcome
      <4>1. job' = [job EXCEPT !.status = "queued", !.live = FALSE, !.fresh = TRUE,
                               !.reconcile = ~job.byok, !.aged = FALSE]
        BY <1>16, <2>3, Zenon DEF RecordFailure
      <4> QED
        BY <4>1 DEF TypeOK, Job
    <3> QED
      BY <3>1, <3>2, CensusOfGoing DEF JobInv, Going, Terminal
  <2> QED
    BY <2>1, <2>2, <2>3
<1>17. ASSUME NEW w \in Workers, Crash(w) PROVE ProjectionMatches'
  BY <1>17, SameCensus DEF Crash
<1>18. CASE LockExpires
  BY <1>18, SameCensus DEF LockExpires
<1>19. CASE LeaseExpires
  BY <1>19, SameCensus DEF LeaseExpires
<1>20. CASE DispatchGoesStale
  BY <1>20, SameCensus DEF DispatchGoesStale
<1>21. CASE ByokAges
  BY <1>21, SameCensus DEF ByokAges
<1>22. ASSUME NEW g \in Gens, DeadlinePasses(g) PROVE ProjectionMatches'
  BY <1>22, SameCensus DEF DeadlinePasses
<1>23. CASE Discard
  BY <1>23, SameCensus DEF Discard
<1>24. CASE RestoreDiscarded
  BY <1>24, SameCensus DEF RestoreDiscarded
<1>25. CASE DeleteConversation
  BY <1>25, SameCensus DEF DeleteConversation
<1>26. CASE BeginMerge
  BY <1>26, SameCensus DEF BeginMerge
<1>27. CASE CompleteMerge
  BY <1>27, SameCensus DEF CompleteMerge
<1>28. CASE UNCHANGED vars
  BY <1>28, SameCensus DEF vars
<1> QED
  BY <1>1, <1>2, <1>3, <1>4, <1>5, <1>6, <1>7, <1>8, <1>9, <1>10, <1>11, <1>12, <1>13,
     <1>14, <1>15, <1>16, <1>17, <1>18, <1>19, <1>20, <1>21, <1>22, <1>23, <1>24,
     <1>25, <1>26, <1>27, <1>28 DEF Next, Handler

-----------------------------------------------------------------------------
(* The inductive invariant. *)
IInv ==
  /\ TypeOK /\ JobInv /\ LeaseInv /\ FanoutInv /\ PlatformInv /\ CourseInv
  /\ ProjectionMatches

(* It holds initially. *)
LEMMA InitInv == Init => IInv
<1> SUFFICES ASSUME Init PROVE IInv
  OBVIOUS
<1> USE DEF Init
<1>1. conv \in Conversation /\ conv.kind \in Kinds /\ conv.status = "in_progress"
  BY DEF Conversation
<1>2. job \in Job
  BY DEF NoJob, Job
<1>3. Task("none", 0, "nobody") \in NamedTask
  BY DEF Task, NamedTask
<1>4. tasks \in [Gens -> NamedTask] /\ worker \in [Workers -> Invocation]
  BY <1>3, InvocationTypes
<1>5. proj \in [Counters -> Int] /\ effects \subseteq {"sent", "dropped"}
      /\ faults \in 0 .. MaxFaults /\ lock \in Workers \cup {"nobody", "orphan"}
  OBVIOUS
<1>6. TypeOK
  BY <1>1, <1>2, <1>4, <1>5 DEF TypeOK
<1>7. JobInv
  BY DEF JobInv, NoJob
<1>8. \A w \in Workers : worker[w].pc = "idle" /\ ~worker[w].task
  BY DEF Idle
<1>9. LeaseInv /\ CourseInv
  BY <1>8 DEF LeaseInv, LeaseIsExclusive, CourseInv, Working, Past
<1>10. FanoutInv
  BY <1>8 DEF FanoutInv, SuccessHadItsFanout, NoJob
<1>11. PlatformInv
  BY <1>8 DEF PlatformInv, Task
<1>12. ProjectionMatches
  BY DEF ProjectionMatches, Census, NoJob, Counters
<1> QED
  BY <1>6, <1>7, <1>9, <1>10, <1>11, <1>12 DEF IInv

(* Every step keeps it. *)
LEMMA NextInv == IInv /\ [Next]_vars => IInv'
  BY TypeStep, JobStep, LeaseStep, FanoutStep, PlatformStep, CourseStep, ProjectionStep
  DEF IInv

(* Finalization is type correct for any number of handlers, generations,   *)
(* attempts and faults.                                                    *)
THEOREM TypeCorrect == Spec => []TypeOK
<1>1. IInv => TypeOK
  BY DEF IInv
<1> QED
  BY InitInv, NextInv, <1>1, PTL DEF Spec

(* The projection shard always agrees with the job document, whatever      *)
(* handlers, replays and sweeps race (_record_projection_delta).           *)
THEOREM ProjectionIsExact == Spec => []ProjectionMatches
<1>1. IInv => ProjectionMatches
  BY DEF IInv
<1> QED
  BY InitInv, NextInv, <1>1, PTL DEF Spec

(* No two handlers at work ever hold the same lease epoch, so that         *)
(* _is_current_lease is true of at most one.                               *)
THEOREM LeasesAreFenced == Spec => []LeaseIsExclusive
<1>1. IInv => LeaseIsExclusive
  BY DEF IInv, LeaseInv
<1> QED
  BY InitInv, NextInv, <1>1, PTL DEF Spec

(* No job reports success before its fanout was sent or given up.          *)
THEOREM FanoutBeforeSuccess == Spec => []SuccessHadItsFanout
<1>1. IInv => SuccessHadItsFanout
  BY DEF IInv, FanoutInv
<1> QED
  BY InitInv, NextInv, <1>1, PTL DEF Spec

(* A job that needs the user's keys never has a Cloud Tasks wake-up.       *)
THEOREM KeysStayWithSessions == Spec => []NoPlatformTask
<1>1. IInv => NoPlatformTask
  BY DEF IInv, PlatformInv, NoPlatformTask
<1> QED
  BY InitInv, NextInv, <1>1, PTL DEF Spec

(* No step changes a job that is over. *)
LEMMA TerminalStep ==
  ASSUME TypeOK, [Next]_vars, job.status \in Terminal
  PROVE  job' = job
<1> USE DEF Terminal
<1>1. ASSUME NEW keys \in BOOLEAN, RequestNew(keys) PROVE job' = job
  BY <1>1 DEF RequestNew
<1>2. CASE RequestAgain
  BY <1>2 DEF RequestAgain
<1>3. CASE ResumeBlockedByok
  BY <1>3 DEF ResumeBlockedByok
<1>4. CASE Replay
  BY <1>4 DEF Replay, Replayable
<1>5. CASE AbandonByok
  BY <1>5 DEF AbandonByok
<1>6. ASSUME NEW w \in Workers, NEW g \in Gens, Deliver(w, g) PROVE job' = job
  BY <1>6 DEF Deliver
<1>7. ASSUME NEW w \in Workers, StartPusher(w) PROVE job' = job
  BY <1>7 DEF StartPusher
<1>8. ASSUME NEW w \in Workers, Claim(w) PROVE job' = job
  BY <1>8, ClaimJob DEF Claimable
<1>9. ASSUME NEW w \in Workers, ReadConversation(w) PROVE job' = job
  BY <1>9 DEF ReadConversation
<1>10. ASSUME NEW w \in Workers, Process(w) PROVE job' = job
  BY <1>10 DEF Process
<1>11. ASSUME NEW w \in Workers, ClaimFanout(w) PROVE job' = job
  BY <1>11, ClaimFanoutJob DEF IsCurrentLease
<1>12. ASSUME NEW w \in Workers, EmitEffects(w) PROVE job' = job
  BY <1>12 DEF EmitEffects
<1>13. ASSUME NEW w \in Workers, CompleteFanout(w) PROVE job' = job
  BY <1>13, CompleteFanoutJob DEF IsCurrentLease
<1>14. ASSUME NEW w \in Workers, MarkCompleted(w) PROVE job' = job
  BY <1>14, MarkCompletedJob DEF IsCurrentLease
<1>15. ASSUME NEW w \in Workers, MarkFenced(w) PROVE job' = job
  BY <1>15, MarkFencedJob DEF IsCurrentLease
<1>16. ASSUME NEW w \in Workers, RecordFailure(w) PROVE job' = job
  BY <1>16, RecordFailureJob DEF IsCurrentLease
<1>17. ASSUME NEW w \in Workers, Crash(w) PROVE job' = job
  BY <1>17 DEF Crash
<1>18. CASE LockExpires
  BY <1>18 DEF LockExpires
<1>19. CASE LeaseExpires
  BY <1>19 DEF LeaseExpires
<1>20. CASE DispatchGoesStale
  BY <1>20 DEF DispatchGoesStale
<1>21. CASE ByokAges
  BY <1>21 DEF ByokAges
<1>22. ASSUME NEW g \in Gens, DeadlinePasses(g) PROVE job' = job
  BY <1>22 DEF DeadlinePasses
<1>23. CASE Discard
  BY <1>23 DEF Discard
<1>24. CASE RestoreDiscarded
  BY <1>24 DEF RestoreDiscarded
<1>25. CASE DeleteConversation
  BY <1>25 DEF DeleteConversation
<1>26. CASE BeginMerge
  BY <1>26 DEF BeginMerge
<1>27. CASE CompleteMerge
  BY <1>27 DEF CompleteMerge
<1>28. CASE UNCHANGED vars
  BY <1>28 DEF vars
<1> QED
  BY <1>1, <1>2, <1>3, <1>4, <1>5, <1>6, <1>7, <1>8, <1>9, <1>10, <1>11, <1>12, <1>13,
     <1>14, <1>15, <1>16, <1>17, <1>18, <1>19, <1>20, <1>21, <1>22, <1>23, <1>24,
     <1>25, <1>26, <1>27, <1>28 DEF Next, Handler

(* The first terminal outcome of a job is never changed.                   *)
THEOREM TerminalStays == Spec => TerminalIsFinal
<1>1. IInv /\ [Next]_vars => [job.status \in Terminal => job' = job]_vars
  BY TerminalStep DEF IInv
<1> QED
  BY InitInv, NextInv, <1>1, PTL DEF Spec, TerminalIsFinal

(* No processor brings a deleted conversation back (persist_processing_    *)
(* result_with_lifecycle merges into an existing document only).           *)
THEOREM DeletionStays == Spec => DeletedStaysDeleted
<1>1. IInv /\ [Next]_vars => [conv.status = "absent" => conv'.status = "absent"]_vars
  BY ConversationStep DEF IInv
<1> QED
  BY InitInv, NextInv, <1>1, PTL DEF Spec, DeletedStaysDeleted

(* A step that ends a job does not leave its conversation on processing. *)
LEMMA ClosingStep ==
  ASSUME TypeOK, CourseInv, [Next]_vars, job.status \notin Terminal,
         job'.status \in Terminal, conv.kind \in {"eager", "deferred"}
  PROVE  ~(conv'.status = "processing" /\ ~conv'.discarded /\ ~conv'.deferred)
<1> DEFINE Closed == ~(conv'.status = "processing" /\ ~conv'.discarded /\ ~conv'.deferred)
<1>1. ASSUME NEW keys \in BOOLEAN, RequestNew(keys) PROVE Closed
  BY <1>1 DEF RequestNew, NewJob, NoJob, Terminal
<1>2. CASE RequestAgain
  BY <1>2 DEF RequestAgain
<1>3. CASE ResumeBlockedByok
  BY <1>3 DEF ResumeBlockedByok, Terminal
<1>4. CASE Replay
  BY <1>4 DEF Replay, Terminal
<1>5. CASE AbandonByok
  BY <1>5 DEF AbandonByok, AbandonedConversation, Conversation, TypeOK
<1>6. ASSUME NEW w \in Workers, NEW g \in Gens, Deliver(w, g) PROVE Closed
  BY <1>6 DEF Deliver
<1>7. ASSUME NEW w \in Workers, StartPusher(w) PROVE Closed
  BY <1>7 DEF StartPusher
<1>8. ASSUME NEW w \in Workers, Claim(w) PROVE Closed
  BY <1>8, ClaimJob DEF Terminal
<1>9. ASSUME NEW w \in Workers, ReadConversation(w) PROVE Closed
  BY <1>9 DEF ReadConversation
<1>10. ASSUME NEW w \in Workers, Process(w) PROVE Closed
  BY <1>10 DEF Process
<1>11. ASSUME NEW w \in Workers, ClaimFanout(w) PROVE Closed
  <2>1. UNCHANGED conv /\ worker[w].pc \in Past
    BY <1>11 DEF ClaimFanout, Past
  <2> QED
    BY <2>1 DEF CourseInv
<1>12. ASSUME NEW w \in Workers, EmitEffects(w) PROVE Closed
  BY <1>12 DEF EmitEffects
<1>13. ASSUME NEW w \in Workers, CompleteFanout(w) PROVE Closed
  BY <1>13, CompleteFanoutJob
<1>14. ASSUME NEW w \in Workers, MarkCompleted(w) PROVE Closed
  <2>1. UNCHANGED conv /\ worker[w].pc \in Past
    BY <1>14 DEF MarkCompleted, Past
  <2> QED
    BY <2>1 DEF CourseInv
<1>15. ASSUME NEW w \in Workers, MarkFenced(w) PROVE Closed
  <2>1. UNCHANGED conv /\ worker[w].pc \in Past
    BY <1>15 DEF MarkFenced, Past
  <2> QED
    BY <2>1 DEF CourseInv
<1>16. ASSUME NEW w \in Workers, RecordFailure(w) PROVE Closed
  <2>1. CASE UNCHANGED job
    BY <2>1
  <2>2. CASE job'.status = "queued"
    BY <2>2 DEF Terminal
  <2>3. CASE job'.status = "dead_letter" /\ ~UNCHANGED job
    <3>1. \/ job' = job
          \/ conv' = IF conv.status = "processing" /\ ~conv.discarded
                     THEN [conv EXCEPT !.status = "failed", !.discarded = TRUE] ELSE conv
          \/ job' = [job EXCEPT !.status = "queued", !.live = FALSE, !.fresh = TRUE,
                                !.reconcile = ~job.byok, !.aged = FALSE]
      BY <1>16, Zenon DEF RecordFailure
    <3>2. job' # [job EXCEPT !.status = "queued", !.live = FALSE, !.fresh = TRUE,
                             !.reconcile = ~job.byok, !.aged = FALSE]
      BY <2>3 DEF TypeOK, Job
    <3> QED
      BY <2>3, <3>1, <3>2 DEF TypeOK, Conversation
  <2> QED
    BY <1>16, <2>1, <2>2, <2>3, RecordFailureJob
<1>17. ASSUME NEW w \in Workers, Crash(w) PROVE Closed
  BY <1>17 DEF Crash
<1>18. CASE LockExpires
  BY <1>18 DEF LockExpires
<1>19. CASE LeaseExpires
  BY <1>19 DEF LeaseExpires
<1>20. CASE DispatchGoesStale
  BY <1>20 DEF DispatchGoesStale
<1>21. CASE ByokAges
  BY <1>21 DEF ByokAges
<1>22. ASSUME NEW g \in Gens, DeadlinePasses(g) PROVE Closed
  BY <1>22 DEF DeadlinePasses
<1>23. CASE Discard
  BY <1>23 DEF Discard
<1>24. CASE RestoreDiscarded
  BY <1>24 DEF RestoreDiscarded
<1>25. CASE DeleteConversation
  BY <1>25 DEF DeleteConversation
<1>26. CASE BeginMerge
  BY <1>26 DEF BeginMerge
<1>27. CASE CompleteMerge
  BY <1>27 DEF CompleteMerge
<1>28. CASE UNCHANGED vars
  BY <1>28 DEF vars
<1> QED
  BY <1>1, <1>2, <1>3, <1>4, <1>5, <1>6, <1>7, <1>8, <1>9, <1>10, <1>11, <1>12, <1>13,
     <1>14, <1>15, <1>16, <1>17, <1>18, <1>19, <1>20, <1>21, <1>22, <1>23, <1>24,
     <1>25, <1>26, <1>27, <1>28 DEF Next, Handler

(* The end of a job closes its conversation in the same transaction, or    *)
(* finds it closed.                                                        *)
THEOREM NoConversationIsStranded == Spec => NoJobLeavesProcessing
<1>1. IInv /\ [Next]_vars =>
        [job.status \notin Terminal /\ job'.status \in Terminal
               /\ conv.kind \in {"eager", "deferred"}
            => ~(conv'.status = "processing" /\ ~conv'.discarded /\ ~conv'.deferred)]_vars
  BY ClosingStep DEF IInv
<1> QED
  BY InitInv, NextInv, <1>1, PTL DEF Spec, NoJobLeavesProcessing

=============================================================================
