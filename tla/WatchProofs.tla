---------------------------- MODULE WatchProofs ----------------------------
(***************************************************************************)
(* Proofs about Watch for any set of recordings and any number of faults.  *)
(***************************************************************************)
EXTENDS Watch, TLAPS

USE WatchAssumption DEF capVars, settingVars, jobVars, orderVars, tickVars, vars, Running,
  Terminal, Job, NoJob, MAX_ATTEMPTS

(* The entry the worker is busy with.                                       *)
CurInv ==
  /\ wpc \in {"start", "run", "record"} => jobs[cur].state = "processing"
  /\ wpc = "record" => outcome # "none"
  /\ wpc = "record" /\ outcome = "error" => errors[cur] >= jobs[cur].attempts

(* What each state of an entry says about its attempts and errors.          *)
AttemptInv ==
  \A r \in Recordings :
    /\ jobs[r].attempts \in 0..MAX_ATTEMPTS
    /\ jobs[r].state = "pending" => jobs[r].attempts < MAX_ATTEMPTS
    /\ jobs[r].state \in {"processing", "completed", "no_speech"} => jobs[r].attempts >= 1
    /\ jobs[r].attempts - Good(r) <= errors[r]
    /\ jobs[r].state = "failed" => errors[r] >= MAX_ATTEMPTS

(* The queue follows the storage: only finished recordings are queued, and  *)
(* a tick that is about to drop entries has seen all of them.               *)
StorageInv ==
  /\ \A r \in Recordings : Queued(r) => cap[r] \in {"finished", "deleted"}
  /\ wpc = "drop" =>
       /\ root
       /\ \A r \in Recordings : Queued(r) /\ cap[r] = "finished" => r \in paths

(* The attempt that is running or ended well, unless it has just failed     *)
(* and the error is about to be written down.                               *)
Unspent(r) ==
  IF /\ jobs[r].state \in {"processing", "completed", "no_speech"}
     /\ ~(wpc = "record" /\ outcome = "error" /\ cur = r)
    THEN 1 ELSE 0

(* Every error of an entry used up an attempt or was cut off by a fault; a  *)
(* recording that is not queued has no errors but those, because it leaves  *)
(* the queue only for good.                                                 *)
ErrorInv ==
  \A r \in Recordings :
    /\ Queued(r) => errors[r] <= jobs[r].attempts - Unspent(r) + faults
    /\ ~Queued(r) /\ cap[r] # "deleted" => errors[r] <= faults
    /\ errors[r] <= MAX_ATTEMPTS + faults

(* Nothing is queued before the first opt-in, and what existed then is      *)
(* excluded for good.                                                       *)
ArchiveInv ==
  /\ ~optedIn => wpc = "off" /\ ~enabled /\ \A r \in Recordings : ~Queued(r)
  /\ archive \subseteq excluded
  /\ \A r \in excluded : ~Queued(r)

(* The initial values have their types.                                     *)
LEMMA TypeInit == Init => TypeOK
<1> SUFFICES ASSUME Init PROVE TypeOK
  OBVIOUS
<1>1. root \in BOOLEAN /\ enabled \in BOOLEAN /\ optedIn \in BOOLEAN /\ engineOk \in BOOLEAN
  BY DEF Init
<1>2. jobs \in [Recordings -> Job]
  BY DEF Init
<1> QED
  BY <1>1, <1>2 DEF Init, TypeOK

(* Whatever the outcome, the handlers leave a queue entry.                  *)
LEMMA HandledIsJob ==
  ASSUME NEW job \in Job, NEW result \in {"completed", "no_speech", "busy", "error"}
  PROVE  Handled(job, result) \in Job /\ Handled(job, result).state # "none"
<1>1. CASE result \in {"completed", "no_speech"}
  BY <1>1 DEF Handled
<1>2. CASE result = "busy"
  BY <1>2 DEF Handled
<1>3. CASE result = "error"
  BY <1>3 DEF Handled
<1> QED
  BY <1>1, <1>2, <1>3

(* Every step keeps the types; that the worker has an outcome when it       *)
(* records one is what Record needs.                                        *)
LEMMA TypeStep ==
  ASSUME TypeOK, CurInv, [Next]_vars
  PROVE  TypeOK'
<1> USE DEF TypeOK
<1>1. ASSUME NEW r \in Recordings, CaptureStarts(r) PROVE TypeOK'
  BY <1>1 DEF CaptureStarts
<1>2. ASSUME NEW r \in Recordings, CaptureEnds(r) PROVE TypeOK'
  BY <1>2 DEF CaptureEnds
<1>3. ASSUME NEW r \in Recordings, Deleted(r) PROVE TypeOK'
  BY <1>3 DEF Deleted
<1>4. ASSUME NEW r \in Recordings, Elapse(r) PROVE TypeOK'
  BY <1>4 DEF Elapse
<1>5. CASE RootVanishes
  <2>1. root' \in BOOLEAN
    BY <1>5 DEF RootVanishes
  <2>2. faults' \in 0..MaxFaults
    BY <1>5 DEF RootVanishes, Fault
  <2> QED
    BY <1>5, <2>1, <2>2 DEF RootVanishes
<1>6. CASE RootReturns
  BY <1>6 DEF RootReturns
<1>7. CASE EngineBreaks
  <2>1. engineOk' \in BOOLEAN
    BY <1>7 DEF EngineBreaks
  <2>2. faults' \in 0..MaxFaults
    BY <1>7 DEF EngineBreaks, Fault
  <2> QED
    BY <1>7, <2>1, <2>2 DEF EngineBreaks
<1>8. CASE EngineRepaired
  BY <1>8 DEF EngineRepaired
<1>9. CASE enable
  <2>1. enabled' \in BOOLEAN /\ optedIn' \in BOOLEAN
    BY <1>9 DEF enable
  <2>2. excluded' \in SUBSET Recordings /\ archive' \in SUBSET Recordings
    BY <1>9 DEF enable, Present, Stored
  <2> QED
    BY <1>9, <2>1, <2>2 DEF enable
<1>10. CASE disable
  <2>1. enabled' \in BOOLEAN
    BY <1>10 DEF disable
  <2>2. faults' \in 0..MaxFaults
    BY <1>10 DEF disable, Fault
  <2> QED
    BY <1>10, <2>1, <2>2 DEF disable
<1>11. CASE StartWorker
  BY <1>11 DEF StartWorker, Requeued
<1>12. CASE Leave
  BY <1>12 DEF Leave
<1>13. CASE Kill
  BY <1>13 DEF Kill, Fault
<1>14. CASE Interrupt
  BY <1>14 DEF Interrupt, Fault, Handled
<1>15. CASE List
  BY <1>15 DEF List, Present, Stored
<1>16. CASE Drop
  BY <1>16 DEF Drop, AudioSeen, Present, Stored
<1>17. ASSUME NEW r \in Recordings, Skip(r) PROVE TypeOK'
  BY <1>17 DEF Skip
<1>18. ASSUME NEW r \in Recordings, Admit(r) PROVE TypeOK'
  BY <1>18 DEF Admit, Admissible
<1>19. ASSUME NEW r \in Recordings, AdmitRaises(r) PROVE TypeOK'
  BY <1>19 DEF AdmitRaises
<1>20. ASSUME NEW r \in Recordings, Pick(r) PROVE TypeOK'
  BY <1>20 DEF Pick, Ready
<1>21. CASE PickNone
  BY <1>21 DEF PickNone
<1>22. CASE Try
  BY <1>22 DEF Try
<1>23. CASE Succeeds
  BY <1>23 DEF Succeeds, Ends
<1>24. CASE Busy
  BY <1>24 DEF Busy, Ends, Fault
<1>25. CASE Errs
  BY <1>25 DEF Errs, Ends
<1>26. CASE Record
  <2>1. Handled(jobs[cur], outcome) \in Job
    BY <1>26, HandledIsJob DEF Record, CurInv
  <2>2. jobs' \in [Recordings -> Job]
    BY <1>26, <2>1 DEF Record
  <2> QED
    BY <1>26, <2>2 DEF Record
<1>27. CASE UNCHANGED vars
  BY <1>27 DEF vars
<1> QED
  BY <1>1, <1>2, <1>3, <1>4, <1>5, <1>6, <1>7, <1>8, <1>9, <1>10, <1>11, <1>12, <1>13,
     <1>14, <1>15, <1>16, <1>17, <1>18, <1>19, <1>20, <1>21, <1>22, <1>23, <1>24, <1>25, <1>26, <1>27
  DEF Next, Environment, tick

(* Every step keeps the accounts of every entry.                            *)
LEMMA AttemptStep ==
  ASSUME TypeOK, CurInv, AttemptInv, [Next]_vars
  PROVE  (CurInv /\ AttemptInv)'
<1> USE DEF TypeOK, CurInv, AttemptInv, Good
<1>1. ASSUME NEW r \in Recordings, CaptureStarts(r) PROVE (CurInv /\ AttemptInv)'
  BY <1>1 DEF CaptureStarts
<1>2. ASSUME NEW r \in Recordings, CaptureEnds(r) PROVE (CurInv /\ AttemptInv)'
  BY <1>2 DEF CaptureEnds
<1>3. ASSUME NEW r \in Recordings, Deleted(r) PROVE (CurInv /\ AttemptInv)'
  BY <1>3 DEF Deleted
<1>4. ASSUME NEW r \in Recordings, Elapse(r) PROVE (CurInv /\ AttemptInv)'
  BY <1>4 DEF Elapse
<1>5. CASE RootVanishes
  BY <1>5 DEF RootVanishes, Fault
<1>6. CASE RootReturns
  BY <1>6 DEF RootReturns
<1>7. CASE EngineBreaks
  BY <1>7 DEF EngineBreaks, Fault
<1>8. CASE EngineRepaired
  BY <1>8 DEF EngineRepaired
<1>9. CASE enable
  BY <1>9 DEF enable, Present, Stored
<1>10. CASE disable
  BY <1>10 DEF disable, Fault
<1>11. CASE StartWorker
  BY <1>11 DEF StartWorker, Requeued
<1>12. CASE Leave
  BY <1>12 DEF Leave
<1>13. CASE Kill
  BY <1>13 DEF Kill, Fault
<1>14. CASE Interrupt
  BY <1>14 DEF Interrupt, Fault, Handled
<1>15. CASE List
  BY <1>15 DEF List, Present, Stored
<1>16. CASE Drop
  BY <1>16 DEF Drop, AudioSeen, Present, Stored
<1>17. ASSUME NEW r \in Recordings, Skip(r) PROVE (CurInv /\ AttemptInv)'
  BY <1>17 DEF Skip
<1>18. ASSUME NEW r \in Recordings, Admit(r) PROVE (CurInv /\ AttemptInv)'
  BY <1>18 DEF Admit, Admissible
<1>19. ASSUME NEW r \in Recordings, AdmitRaises(r) PROVE (CurInv /\ AttemptInv)'
  BY <1>19 DEF AdmitRaises
<1>20. ASSUME NEW r \in Recordings, Pick(r) PROVE (CurInv /\ AttemptInv)'
  BY <1>20 DEF Pick, Ready
<1>21. CASE PickNone
  BY <1>21 DEF PickNone
<1>22. CASE Try
  BY <1>22 DEF Try
<1>23. CASE Succeeds
  BY <1>23 DEF Succeeds, Ends
<1>24. CASE Busy
  BY <1>24 DEF Busy, Ends, Fault
<1>25. CASE Errs
  BY <1>25 DEF Errs, Ends
<1>26. CASE Record
  BY <1>26 DEF Record, Handled
<1>27. CASE UNCHANGED vars
  BY <1>27 DEF vars
<1> QED
  BY <1>1, <1>2, <1>3, <1>4, <1>5, <1>6, <1>7, <1>8, <1>9, <1>10, <1>11, <1>12, <1>13,
     <1>14, <1>15, <1>16, <1>17, <1>18, <1>19, <1>20, <1>21, <1>22, <1>23, <1>24, <1>25, <1>26, <1>27
  DEF Next, Environment, tick

(* What Watch does to types, to the current entry and to the accounts, for  *)
(* every set of recordings and every kind of storage outage.                *)
THEOREM Invariance == Spec => [](TypeOK /\ CurInv /\ AttemptInv)
<1>1. Init => TypeOK /\ CurInv /\ AttemptInv
  BY TypeInit DEF Init, CurInv, AttemptInv, Good
<1>2. TypeOK /\ CurInv /\ AttemptInv /\ [Next]_vars => (TypeOK /\ CurInv /\ AttemptInv)'
  BY TypeStep, AttemptStep
<1> QED
  BY <1>1, <1>2, PTL DEF Spec

(* The worker and its queue are typed.                                      *)
THEOREM TypeCorrect == Spec => []TypeOK
  BY Invariance, PTL

(* Busy locks, interrupts, kills and restarts, however many and wherever    *)
(* they hit the worker, use up no attempt: a job has failed only after      *)
(* three real errors, and it is never tried more than three times.          *)
THEOREM AttemptsAccounted == Spec => []OnlyErrorsCount
<1>1. TypeOK /\ CurInv /\ AttemptInv => OnlyErrorsCount
  BY DEF AttemptInv, OnlyErrorsCount
<1> QED
  BY <1>1, Invariance, PTL

(* The actions that touch the queue.                                        *)
Queueing ==
  \/ \E r \in Recordings : Elapse(r) \/ Admit(r) \/ Pick(r)
  \/ StartWorker \/ Interrupt \/ Drop \/ Record

(* No other action does.                                                    *)
LEMMA QueueStep ==
  ASSUME [Next]_vars
  PROVE  Queueing \/ UNCHANGED jobs
<1>1. ASSUME NEW r \in Recordings, CaptureStarts(r) PROVE UNCHANGED jobs
  BY <1>1 DEF CaptureStarts
<1>2. ASSUME NEW r \in Recordings, CaptureEnds(r) PROVE UNCHANGED jobs
  BY <1>2 DEF CaptureEnds
<1>3. ASSUME NEW r \in Recordings, Deleted(r) PROVE UNCHANGED jobs
  BY <1>3 DEF Deleted
<1>4. ASSUME NEW r \in Recordings, Skip(r) PROVE UNCHANGED jobs
  BY <1>4 DEF Skip
<1>5. ASSUME NEW r \in Recordings, AdmitRaises(r) PROVE UNCHANGED jobs
  BY <1>5 DEF AdmitRaises
<1>6. CASE RootVanishes
  BY <1>6 DEF RootVanishes
<1>7. CASE RootReturns
  BY <1>7 DEF RootReturns
<1>8. CASE EngineBreaks
  BY <1>8 DEF EngineBreaks
<1>9. CASE EngineRepaired
  BY <1>9 DEF EngineRepaired
<1>10. CASE enable
  BY <1>10 DEF enable
<1>11. CASE disable
  BY <1>11 DEF disable
<1>12. CASE Leave
  BY <1>12 DEF Leave
<1>13. CASE Kill
  BY <1>13 DEF Kill
<1>14. CASE List
  BY <1>14 DEF List
<1>15. CASE PickNone
  BY <1>15 DEF PickNone
<1>16. CASE Try
  BY <1>16 DEF Try
<1>17. CASE Succeeds
  BY <1>17 DEF Succeeds, Ends
<1>18. CASE Busy
  BY <1>18 DEF Busy, Ends
<1>19. CASE Errs
  BY <1>19 DEF Errs, Ends
<1>20. CASE UNCHANGED vars
  BY <1>20 DEF vars
<1> QED
  BY <1>1, <1>2, <1>3, <1>4, <1>5, <1>6, <1>7, <1>8, <1>9, <1>10, <1>11,
     <1>12, <1>13, <1>14, <1>15, <1>16, <1>17, <1>18, <1>19, <1>20
  DEF Next, Environment, tick, Queueing

(* A finished entry is changed by no step other than the one that drops it. *)
THEOREM TerminalStays == Spec => TerminalIsFinal
<1>1. ASSUME TypeOK, CurInv, [Next]_vars
      PROVE  [\A r \in Recordings :
                jobs[r].state \in Terminal /\ Queued(r)' => jobs'[r] = jobs[r]]_vars
  <2> SUFFICES ASSUME NEW q \in Recordings, jobs[q].state \in Terminal, Queued(q)'
               PROVE  jobs'[q] = jobs[q]
    OBVIOUS
  <2> USE <1>1 DEF TypeOK, CurInv, Queued
  <2>1. ASSUME NEW r \in Recordings, Elapse(r) PROVE jobs'[q] = jobs[q]
    BY <2>1 DEF Elapse
  <2>2. CASE StartWorker
    BY <2>2 DEF StartWorker, Requeued
  <2>3. CASE Interrupt
    BY <2>3 DEF Interrupt, Fault, Handled
  <2>4. CASE Drop
    <3>1. jobs'[q] = IF AudioSeen(q) THEN jobs[q] ELSE NoJob
      BY <2>4 DEF Drop
    <3> QED
      BY <2>4, <3>1 DEF Drop, AudioSeen, Present, Stored
  <2>5. ASSUME NEW r \in Recordings, Admit(r) PROVE jobs'[q] = jobs[q]
    BY <2>5 DEF Admit, Admissible
  <2>6. ASSUME NEW r \in Recordings, Pick(r) PROVE jobs'[q] = jobs[q]
    BY <2>6 DEF Pick, Ready
  <2>7. CASE Record
    <3>1. Handled(jobs[cur], outcome).state # "none"
      BY <2>7, HandledIsJob DEF Record
    <3>2. jobs'[cur] = Handled(jobs[cur], outcome) /\ (q # cur => jobs'[q] = jobs[q])
      BY <2>7 DEF Record
    <3> QED
      BY <2>7, <3>1, <3>2 DEF Record
  <2>8. CASE UNCHANGED jobs
    BY <2>8
  <2> QED
    BY QueueStep, <2>1, <2>2, <2>3, <2>4, <2>5, <2>6, <2>7, <2>8 DEF Queueing
<1> QED
  BY <1>1, Invariance, PTL DEF Spec, TerminalIsFinal

(* Every step keeps the queue in line with the storage as long as the       *)
(* storage does not vanish inside a tick.                                   *)
LEMMA StorageStep ==
  ASSUME "midTick" \notin Outages, TypeOK, CurInv, StorageInv, [Next]_vars
  PROVE  StorageInv'
<1> USE DEF TypeOK, CurInv, StorageInv, Queued
<1>1. ASSUME NEW r \in Recordings, CaptureStarts(r) PROVE StorageInv'
  BY <1>1 DEF CaptureStarts
<1>2. ASSUME NEW r \in Recordings, CaptureEnds(r) PROVE StorageInv'
  BY <1>2 DEF CaptureEnds
<1>3. ASSUME NEW r \in Recordings, Deleted(r) PROVE StorageInv'
  BY <1>3 DEF Deleted
<1>4. ASSUME NEW r \in Recordings, Elapse(r) PROVE StorageInv'
  BY <1>4 DEF Elapse
<1>5. CASE RootVanishes
  BY <1>5 DEF RootVanishes, Fault
<1>6. CASE RootReturns
  BY <1>6 DEF RootReturns
<1>7. CASE EngineBreaks
  BY <1>7 DEF EngineBreaks, Fault
<1>8. CASE EngineRepaired
  BY <1>8 DEF EngineRepaired
<1>9. CASE enable
  BY <1>9 DEF enable, Present, Stored
<1>10. CASE disable
  BY <1>10 DEF disable, Fault
<1>11. CASE StartWorker
  BY <1>11 DEF StartWorker, Requeued
<1>12. CASE Leave
  BY <1>12 DEF Leave
<1>13. CASE Kill
  BY <1>13 DEF Kill, Fault
<1>14. CASE Interrupt
  BY <1>14 DEF Interrupt, Fault, Handled
<1>15. CASE List
  BY <1>15 DEF List, Present, Stored
<1>16. CASE Drop
  BY <1>16 DEF Drop, AudioSeen, Present, Stored
<1>17. ASSUME NEW r \in Recordings, Skip(r) PROVE StorageInv'
  BY <1>17 DEF Skip
<1>18. ASSUME NEW r \in Recordings, Admit(r) PROVE StorageInv'
  BY <1>18 DEF Admit, Admissible
<1>19. ASSUME NEW r \in Recordings, AdmitRaises(r) PROVE StorageInv'
  BY <1>19 DEF AdmitRaises
<1>20. ASSUME NEW r \in Recordings, Pick(r) PROVE StorageInv'
  BY <1>20 DEF Pick, Ready
<1>21. CASE PickNone
  BY <1>21 DEF PickNone
<1>22. CASE Try
  BY <1>22 DEF Try
<1>23. CASE Succeeds
  BY <1>23 DEF Succeeds, Ends
<1>24. CASE Busy
  BY <1>24 DEF Busy, Ends, Fault
<1>25. CASE Errs
  BY <1>25 DEF Errs, Ends
<1>26. CASE Record
  BY <1>26 DEF Record, Handled
<1>27. CASE UNCHANGED vars
  BY <1>27 DEF vars
<1> QED
  BY <1>1, <1>2, <1>3, <1>4, <1>5, <1>6, <1>7, <1>8, <1>9, <1>10, <1>11, <1>12, <1>13,
     <1>14, <1>15, <1>16, <1>17, <1>18, <1>19, <1>20, <1>21, <1>22, <1>23, <1>24, <1>25, <1>26, <1>27
  DEF Next, Environment, tick

(* Storage that is missing between two ticks, however often, costs no job:  *)
(* an entry is dropped only after its recording was deleted.                *)
THEOREM JobsAreKept ==
  ASSUME "midTick" \notin Outages
  PROVE  Spec => NoJobLost
<1>1. Init => StorageInv
  BY DEF Init, StorageInv, Queued
<1>2. TypeOK /\ CurInv /\ StorageInv /\ [Next]_vars => StorageInv'
  BY StorageStep
<1>3. ASSUME TypeOK, CurInv, StorageInv, [Next]_vars
      PROVE  [\A r \in Recordings : Queued(r) /\ ~Queued(r)' => cap[r] = "deleted"]_vars
  <2> SUFFICES ASSUME NEW q \in Recordings, Queued(q), ~Queued(q)'
               PROVE  cap[q] = "deleted"
    OBVIOUS
  <2> USE <1>3 DEF TypeOK, CurInv, StorageInv, Queued
  <2>1. ASSUME NEW r \in Recordings, Elapse(r) PROVE cap[q] = "deleted"
    BY <2>1 DEF Elapse
  <2>2. CASE StartWorker
    BY <2>2 DEF StartWorker, Requeued
  <2>3. CASE Interrupt
    BY <2>3 DEF Interrupt, Fault, Handled
  <2>4. CASE Drop
    <3>1. jobs'[q] = IF AudioSeen(q) THEN jobs[q] ELSE NoJob
      BY <2>4 DEF Drop
    <3> QED
      BY <2>4, <3>1 DEF Drop, AudioSeen, Present, Stored
  <2>5. ASSUME NEW r \in Recordings, Admit(r) PROVE cap[q] = "deleted"
    BY <2>5 DEF Admit, Admissible
  <2>6. ASSUME NEW r \in Recordings, Pick(r) PROVE cap[q] = "deleted"
    BY <2>6 DEF Pick, Ready
  <2>7. CASE Record
    <3>1. Handled(jobs[cur], outcome).state # "none"
      BY <2>7, HandledIsJob DEF Record
    <3>2. jobs'[cur] = Handled(jobs[cur], outcome) /\ (q # cur => jobs'[q] = jobs[q])
      BY <2>7 DEF Record
    <3> QED
      BY <2>7, <3>1, <3>2 DEF Record
  <2>8. CASE UNCHANGED jobs
    BY <2>8
  <2> QED
    BY QueueStep, <2>1, <2>2, <2>3, <2>4, <2>5, <2>6, <2>7, <2>8 DEF Queueing
<1> QED
  BY <1>1, <1>2, <1>3, Invariance, PTL DEF Spec, NoJobLost

(* Every step keeps the accounts of the errors as long as the storage does  *)
(* not vanish inside a tick, which would drop an entry and admit it anew.   *)
LEMMA ErrorStep ==
  ASSUME "midTick" \notin Outages, TypeOK, CurInv, AttemptInv, StorageInv, ErrorInv, [Next]_vars
  PROVE  ErrorInv'
<1> USE DEF TypeOK, CurInv, AttemptInv, StorageInv, ErrorInv, Queued, Unspent
<1>1. ASSUME NEW r \in Recordings, CaptureStarts(r) PROVE ErrorInv'
  BY <1>1 DEF CaptureStarts
<1>2. ASSUME NEW r \in Recordings, CaptureEnds(r) PROVE ErrorInv'
  BY <1>2 DEF CaptureEnds
<1>3. ASSUME NEW r \in Recordings, Deleted(r) PROVE ErrorInv'
  BY <1>3 DEF Deleted
<1>4. ASSUME NEW r \in Recordings, Elapse(r) PROVE ErrorInv'
  BY <1>4 DEF Elapse
<1>5. CASE RootVanishes
  BY <1>5 DEF RootVanishes, Fault
<1>6. CASE RootReturns
  BY <1>6 DEF RootReturns
<1>7. CASE EngineBreaks
  BY <1>7 DEF EngineBreaks, Fault
<1>8. CASE EngineRepaired
  BY <1>8 DEF EngineRepaired
<1>9. CASE enable
  BY <1>9 DEF enable, Present, Stored
<1>10. CASE disable
  BY <1>10 DEF disable, Fault
<1>11. CASE StartWorker
  BY <1>11 DEF StartWorker, Requeued
<1>12. CASE Leave
  BY <1>12 DEF Leave
<1>13. CASE Kill
  BY <1>13 DEF Kill, Fault
<1>14. CASE Interrupt
  BY <1>14 DEF Interrupt, Fault, Handled
<1>15. CASE List
  BY <1>15 DEF List, Present, Stored
<1>16. CASE Drop
  BY <1>16 DEF Drop, AudioSeen, Present, Stored
<1>17. ASSUME NEW r \in Recordings, Skip(r) PROVE ErrorInv'
  BY <1>17 DEF Skip
<1>18. ASSUME NEW r \in Recordings, Admit(r) PROVE ErrorInv'
  BY <1>18 DEF Admit, Admissible
<1>19. ASSUME NEW r \in Recordings, AdmitRaises(r) PROVE ErrorInv'
  BY <1>19 DEF AdmitRaises
<1>20. ASSUME NEW r \in Recordings, Pick(r) PROVE ErrorInv'
  BY <1>20 DEF Pick, Ready
<1>21. CASE PickNone
  BY <1>21 DEF PickNone
<1>22. CASE Try
  BY <1>22 DEF Try
<1>23. CASE Succeeds
  BY <1>23 DEF Succeeds, Ends
<1>24. CASE Busy
  BY <1>24 DEF Busy, Ends, Fault
<1>25. CASE Errs
  BY <1>25 DEF Errs, Ends
<1>26. CASE Record
  BY <1>26 DEF Record, Handled
<1>27. CASE UNCHANGED vars
  BY <1>27 DEF vars
<1> QED
  BY <1>1, <1>2, <1>3, <1>4, <1>5, <1>6, <1>7, <1>8, <1>9, <1>10, <1>11, <1>12, <1>13,
     <1>14, <1>15, <1>16, <1>17, <1>18, <1>19, <1>20, <1>21, <1>22, <1>23, <1>24, <1>25, <1>26, <1>27
  DEF Next, Environment, tick

(* However often the worker is interrupted, killed and restarted, errors    *)
(* use up the three attempts: a recording that cannot be transcribed fails  *)
(* at most three times, and once more for each fault that kept an error     *)
(* from being written down.                                                 *)
THEOREM RetriesAreBounded ==
  ASSUME "midTick" \notin Outages
  PROVE  Spec => []ErrorsAreBounded
<1>1. Init => StorageInv /\ ErrorInv
  BY DEF Init, StorageInv, ErrorInv, Queued
<1>2. TypeOK /\ CurInv /\ AttemptInv /\ StorageInv /\ ErrorInv /\ [Next]_vars
        => (StorageInv /\ ErrorInv)'
  BY StorageStep, ErrorStep
<1>3. ErrorInv => ErrorsAreBounded
  BY DEF ErrorInv, ErrorsAreBounded
<1> QED
  BY <1>1, <1>2, <1>3, Invariance, PTL DEF Spec

(* Every step keeps what existed at the first opt-in out of the queue.      *)
LEMMA ArchiveStep ==
  ASSUME "optIn" \notin Outages, TypeOK, CurInv, ArchiveInv, [Next]_vars
  PROVE  ArchiveInv'
<1> USE DEF TypeOK, CurInv, ArchiveInv, Queued
<1>1. ASSUME NEW r \in Recordings, CaptureStarts(r) PROVE ArchiveInv'
  BY <1>1 DEF CaptureStarts
<1>2. ASSUME NEW r \in Recordings, CaptureEnds(r) PROVE ArchiveInv'
  BY <1>2 DEF CaptureEnds
<1>3. ASSUME NEW r \in Recordings, Deleted(r) PROVE ArchiveInv'
  BY <1>3 DEF Deleted
<1>4. ASSUME NEW r \in Recordings, Elapse(r) PROVE ArchiveInv'
  BY <1>4 DEF Elapse
<1>5. CASE RootVanishes
  BY <1>5 DEF RootVanishes, Fault
<1>6. CASE RootReturns
  BY <1>6 DEF RootReturns
<1>7. CASE EngineBreaks
  BY <1>7 DEF EngineBreaks, Fault
<1>8. CASE EngineRepaired
  BY <1>8 DEF EngineRepaired
<1>9. CASE enable
  BY <1>9 DEF enable, Present, Stored
<1>10. CASE disable
  BY <1>10 DEF disable, Fault
<1>11. CASE StartWorker
  BY <1>11 DEF StartWorker, Requeued
<1>12. CASE Leave
  BY <1>12 DEF Leave
<1>13. CASE Kill
  BY <1>13 DEF Kill, Fault
<1>14. CASE Interrupt
  BY <1>14 DEF Interrupt, Fault, Handled
<1>15. CASE List
  BY <1>15 DEF List, Present, Stored
<1>16. CASE Drop
  BY <1>16 DEF Drop, AudioSeen, Present, Stored
<1>17. ASSUME NEW r \in Recordings, Skip(r) PROVE ArchiveInv'
  BY <1>17 DEF Skip
<1>18. ASSUME NEW r \in Recordings, Admit(r) PROVE ArchiveInv'
  BY <1>18 DEF Admit, Admissible
<1>19. ASSUME NEW r \in Recordings, AdmitRaises(r) PROVE ArchiveInv'
  BY <1>19 DEF AdmitRaises
<1>20. ASSUME NEW r \in Recordings, Pick(r) PROVE ArchiveInv'
  BY <1>20 DEF Pick, Ready
<1>21. CASE PickNone
  BY <1>21 DEF PickNone
<1>22. CASE Try
  BY <1>22 DEF Try
<1>23. CASE Succeeds
  BY <1>23 DEF Succeeds, Ends
<1>24. CASE Busy
  BY <1>24 DEF Busy, Ends, Fault
<1>25. CASE Errs
  BY <1>25 DEF Errs, Ends
<1>26. CASE Record
  BY <1>26 DEF Record, Handled
<1>27. CASE UNCHANGED vars
  BY <1>27 DEF vars
<1> QED
  BY <1>1, <1>2, <1>3, <1>4, <1>5, <1>6, <1>7, <1>8, <1>9, <1>10, <1>11, <1>12, <1>13,
     <1>14, <1>15, <1>16, <1>17, <1>18, <1>19, <1>20, <1>21, <1>22, <1>23, <1>24, <1>25, <1>26, <1>27
  DEF Next, Environment, tick

(* Unless the storage is missing at the very first opt-in, no recording     *)
(* that existed then is ever queued.                                        *)
THEOREM ArchiveIsExcluded ==
  ASSUME "optIn" \notin Outages
  PROVE  Spec => []ArchiveStaysOut
<1>1. Init => ArchiveInv
  BY DEF Init, ArchiveInv, Queued
<1>2. TypeOK /\ CurInv /\ ArchiveInv /\ [Next]_vars => ArchiveInv'
  BY ArchiveStep
<1>3. TypeOK /\ ArchiveInv => ArchiveStaysOut
  BY DEF TypeOK, ArchiveInv, ArchiveStaysOut
<1> QED
  BY <1>1, <1>2, <1>3, Invariance, PTL DEF Spec
=============================================================================
