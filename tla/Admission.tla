------------------------------ MODULE Admission ------------------------------
(***************************************************************************)
(* The processing of one conversation without a durable job: the           *)
(* synchronous REST route and the first opening of a deferred desktop row. *)
(* A processor owns the row by processing_admitted_at alone.  A heartbeat  *)
(* renews that stamp while the processor lives; a sweep closes rows whose  *)
(* stamp is old, through a compare-and-swap on the stamp it scanned.       *)
(* The reprocess route, which processes a row without any admission, is    *)
(* outside this module.                                                    *)
(*                                                                         *)
(* Source: backend/utils/conversations/lifecycle.py, routers/              *)
(* conversations.py, database/conversation_finalization_jobs.py (the       *)
(* transactions on a conversation), services/conversation_finalization.py. *)
(*                                                                         *)
(* A stamp is a number; only its identity and whether it is past the       *)
(* threshold matter.  Stamp 0 is a row from before there was one.          *)
(***************************************************************************)
EXTENDS Integers, FiniteSets

CONSTANTS
    Procs,      \* processors (requests) that can run at the same time
    Pods,       \* backend pods that sweep
    MaxStamp,   \* bound on stamps
    MaxFaults,  \* bound on crashes, failures and lost renewals
    Starts      \* how the row came to be

ASSUME AdmissionAssumption ==
    /\ MaxStamp \in Nat /\ MaxFaults \in Nat
    /\ Starts \subseteq {"listening", "legacy", "huge", "deferred", "bound"}

VARIABLES
    row,     \* the conversation document
    proc,    \* the processors: where they are, their lane, their heartbeat
    sweep,   \* the pods: the candidate each has scanned, if any
    faults   \* faults so far

vars == <<row, proc, sweep, faults>>

-----------------------------------------------------------------------------
(* State *)

(* A renewal is due every quarter of the threshold: after three that did   *)
(* not stamp the row, the fourth comes too late.                           *)
Patience == 3

Away == [pc |-> "away", lane |-> "sync", beat |-> FALSE, missed |-> 0]
NoCandidate == [pc |-> "idle", stamp |-> 0]

Document == [status: {"in_progress", "processing", "completed", "absent"},
             discarded: BOOLEAN, deferred: BOOLEAN, bound: BOOLEAN,
             huge: BOOLEAN, stamp: 0 .. MaxStamp, old: BOOLEAN, result: BOOLEAN]
Request == [pc: {"away", "queued", "run", "effects", "raised"}, lane: {"sync", "open"},
            beat: BOOLEAN, missed: 0 .. Patience]
Candidate == [pc: {"idle", "act"}, stamp: 0 .. MaxStamp]

TypeOK ==
    /\ row \in Document
    /\ proc \in [Procs -> Request]
    /\ sweep \in [Pods -> Candidate]
    /\ faults \in 0 .. MaxFaults

(* A listening session's row; one stranded by a release without the fence; *)
(* a deferred row, created so or left by a fenced durable job.             *)
Row(start) ==
    [status |-> IF start = "listening" THEN "in_progress" ELSE "processing",
     discarded |-> FALSE, deferred |-> start \in {"deferred", "bound"},
     bound |-> start = "bound", huge |-> start = "huge", stamp |-> 0,
     old |-> FALSE, result |-> FALSE]

Init ==
    /\ \E s \in Starts : row = Row(s)
    /\ proc = [p \in Procs |-> Away]
    /\ sweep = [d \in Pods |-> NoCandidate]
    /\ faults = 0

Fault == faults < MaxFaults /\ faults' = faults + 1

Stamped(r) == [r EXCEPT !.stamp = @ + 1, !.old = FALSE]
CanStamp == row.stamp < MaxStamp

-----------------------------------------------------------------------------
(* The processors *)

(* claim_conversation_status, the compare-and-swap of every transition. *)
Holds(status) == row.status = status /\ ~row.discarded

AdmitProcessing(p) ==
    /\ proc[p].pc = "away" /\ Holds("in_progress") /\ CanStamp
    /\ row' = Stamped([row EXCEPT !.status = "processing"])
    /\ proc' = [proc EXCEPT ![p] = [Away EXCEPT !.pc = "run", !.beat = TRUE]]
    /\ UNCHANGED <<sweep, faults>>

(* Mutant: the first opening does not take the flag down. *)
ReacquireShared(r) == Stamped([r EXCEPT !.status = "processing"])

Reacquired(r) == Stamped([r EXCEPT !.status = "processing", !.deferred = FALSE])

(* deferred is the ownership token of a first opening, which is queued for *)
(* the executor.                                                           *)
ReacquireDeferred(p) ==
    /\ proc[p].pc = "away" /\ CanStamp
    /\ row.status \in {"processing", "completed"} /\ ~row.discarded /\ row.deferred
    /\ row' = Reacquired(row)
    /\ proc' = [proc EXCEPT ![p] = [Away EXCEPT !.pc = "queued", !.lane = "open"]]
    /\ UNCHANGED <<sweep, faults>>

(* Only the executor starts its heartbeat, and until the first renewal the *)
(* stamp is as old as the wait was long.                                   *)
RunEnrichment(p) ==
    /\ proc[p].pc = "queued"
    /\ proc' = [proc EXCEPT ![p] = [@ EXCEPT !.pc = "run", !.beat = TRUE, !.missed = Patience]]
    /\ UNCHANGED <<row, sweep, faults>>

(* The heartbeat renews whatever row is still processing. *)
RenewLease(p) ==
    /\ proc[p].beat /\ Holds("processing") /\ CanStamp
    /\ row' = Stamped(row)
    /\ proc' = [proc EXCEPT ![p].missed = 0]
    /\ UNCHANGED <<sweep, faults>>

(* A row that is discarded or not processing is not renewed; the heartbeat *)
(* goes on.                                                                *)
RenewRefused(p) ==
    /\ proc[p].beat /\ ~Holds("processing") /\ proc[p].missed < Patience
    /\ proc' = [proc EXCEPT ![p].missed = @ + 1]
    /\ UNCHANGED <<row, sweep, faults>>

(* One error ends the heartbeat, and the processor lives on. *)
RenewFails(p) ==
    /\ proc[p].beat /\ Fault
    /\ proc' = [proc EXCEPT ![p].beat = FALSE]
    /\ UNCHANGED <<row, sweep>>

(* process_conversation merges its result into the row before the derived  *)
(* effects, and refuses only a row that is gone.                           *)
Persist(p) ==
    /\ proc[p].pc = "run"
    /\ \E verdict \in BOOLEAN :
          row' = IF row.status = "absent" THEN row
                 ELSE [row EXCEPT !.status = "completed", !.discarded = verdict,
                                  !.deferred = FALSE, !.result = TRUE]
    /\ proc' = [proc EXCEPT ![p].pc = "effects"]
    /\ UNCHANGED <<sweep, faults>>

(* The early return for a paywalled account: nothing is stored. *)
SkipProcessing(p) ==
    /\ proc[p].pc = "run"
    /\ proc' = [proc EXCEPT ![p] = Away]
    /\ UNCHANGED <<row, sweep, faults>>

(* The guard's finally stops the heartbeat. *)
Finish(p) ==
    /\ proc[p].pc = "effects"
    /\ proc' = [proc EXCEPT ![p] = Away]
    /\ UNCHANGED <<row, sweep, faults>>

(* The processor raises, before or after it has persisted. *)
Raise(p) ==
    /\ proc[p].pc \in {"queued", "run", "effects"} /\ Fault
    /\ proc' = [proc EXCEPT ![p].pc = "raised",
                            ![p].beat = @ /\ proc[p].lane = "sync"]
    /\ UNCHANGED <<row, sweep>>

(* Mutant: the admission is rolled back whatever the row has become. *)
RolledBackAlways(r) == [r EXCEPT !.status = "in_progress"]

RolledBack(r) ==
    IF r.status = "processing" /\ ~r.discarded THEN [r EXCEPT !.status = "in_progress"] ELSE r

(* The synchronous route hands the admission back for the client to retry; *)
(* a first opening re-arms the flag, with a status that does not spin.     *)
Recover(p) ==
    /\ proc[p].pc = "raised"
    /\ row' = IF proc[p].lane = "sync" THEN RolledBack(row)
              ELSE IF row.status \in {"processing", "completed"} /\ ~row.discarded /\ ~row.deferred
              THEN [row EXCEPT !.status = "completed", !.deferred = TRUE] ELSE row
    /\ proc' = [proc EXCEPT ![p] = Away]
    /\ UNCHANGED <<sweep, faults>>

(* The process is killed. *)
Crash(p) ==
    /\ proc[p].pc # "away" /\ Fault
    /\ proc' = [proc EXCEPT ![p] = Away]
    /\ UNCHANGED <<row, sweep>>

-----------------------------------------------------------------------------
(* The sweep *)

(* Somebody renews the row often enough. *)
Renewing(p) == proc[p].beat /\ proc[p].missed < Patience

(* The stamp passes the threshold. *)
Ages ==
    /\ row.status = "processing" /\ ~row.old
    /\ \A p \in Procs : ~Renewing(p)
    /\ row' = [row EXCEPT !.old = TRUE]
    /\ UNCHANGED <<proc, sweep, faults>>

(* Mutant: rows without a stamp are left alone. *)
StaleStamped == row.stamp > 0 /\ row.old

Stale == row.stamp = 0 \/ row.old

(* get_stale_processing_orphan_candidates does not look at discarded. *)
Scan(d) ==
    /\ sweep[d].pc = "idle" /\ row.status = "processing"
    /\ ~row.deferred /\ ~row.bound /\ Stale
    /\ sweep' = [sweep EXCEPT ![d] = [pc |-> "act", stamp |-> row.stamp]]
    /\ UNCHANGED <<row, proc, faults>>

(* Mutant: the stamp is not compared with the one scanned. *)
OrphanUnfenced(r, stamp) ==
    r.status = "processing" /\ ~r.discarded /\ ~r.deferred /\ ~r.bound

(* The row is still the scanned orphan, and nobody owns it. *)
Orphan(r, stamp) ==
    /\ r.status = "processing" /\ ~r.discarded /\ ~r.deferred /\ ~r.bound
    /\ r.stamp = stamp

(* A row without a stamp gets one and waits; if it is too large for that,  *)
(* its last write stands in for the stamp.                                 *)
CloseCandidate(d) ==
    /\ sweep[d].pc = "act"
    /\ row' = IF sweep[d].stamp > 0
              THEN IF Orphan(row, sweep[d].stamp) THEN [row EXCEPT !.status = "completed"] ELSE row
              ELSE IF row.status # "processing" \/ row.stamp > 0 THEN row
              ELSE IF ~row.huge THEN Stamped(row)
              ELSE IF Orphan(row, 0) /\ row.old THEN [row EXCEPT !.status = "completed"] ELSE row
    /\ row'.stamp <= MaxStamp
    /\ sweep' = [sweep EXCEPT ![d] = NoCandidate]
    /\ UNCHANGED <<proc, faults>>

-----------------------------------------------------------------------------
(* The user: a write to a row without a stamp makes it young again. *)

UserWrites(r) == row' = [r EXCEPT !.old = @ /\ r.stamp > 0] /\ UNCHANGED <<proc, sweep, faults>>

Discard == /\ row.status # "absent" /\ ~row.discarded
           /\ UserWrites([row EXCEPT !.discarded = TRUE])

RestoreDiscarded == row.discarded /\ UserWrites([row EXCEPT !.discarded = FALSE])

DeleteConversation ==
    /\ row.status # "absent"
    /\ row' = [row EXCEPT !.status = "absent", !.discarded = FALSE, !.deferred = FALSE]
    /\ UNCHANGED <<proc, sweep, faults>>

-----------------------------------------------------------------------------
Processor(p) == RunEnrichment(p) \/ Persist(p) \/ SkipProcessing(p) \/ Finish(p) \/ Recover(p)

Next ==
    \/ \E p \in Procs :
          \/ AdmitProcessing(p) \/ ReacquireDeferred(p)
          \/ RenewLease(p) \/ RenewRefused(p) \/ RenewFails(p)
          \/ Processor(p) \/ Raise(p) \/ Crash(p)
    \/ \E d \in Pods : Scan(d) \/ CloseCandidate(d)
    \/ Ages \/ Discard \/ RestoreDiscarded \/ DeleteConversation

Spec == Init /\ [][Next]_vars

(* A processor that is not killed ends; each pod sweeps periodically.      *)
Fairness ==
    /\ \A p \in Procs : WF_vars(Processor(p))
    /\ \A d \in Pods : WF_vars(Scan(d)) /\ WF_vars(CloseCandidate(d))
    /\ WF_vars(Ages)

FairSpec == Spec /\ Fairness

-----------------------------------------------------------------------------
(* Properties *)

(* Two requests of the two admitted lanes never process the row at once:   *)
(* neither two first openings, nor a retry of the synchronous route and    *)
(* the run that is failing.  (The reprocess route asks for no admission.)  *)
OneProcessor == Cardinality({p \in Procs : proc[p].pc # "away"}) <= 1

(* The step in which the sweep closes the row. *)
SweepCloses == row.status = "processing" /\ row'.status = "completed" /\ sweep' # sweep

(* The sweep never closes the row of a processor that renews it, however   *)
(* long ago the pod scanned it and whoever was admitted or whichever       *)
(* heartbeat began since.                                                  *)
SweepSparesTheRenewed == [][SweepCloses => \A p \in Procs : ~Renewing(p)]_vars

(* What the docstrings promise (processing_admission_guard: a live         *)
(* processor "can never be terminalized"; _enrich_deferred_conversation:   *)
(* the sweep cannot do it "between clear and first heartbeat" either).     *)
SweepSparesTheLiving ==
    [][SweepCloses => \A p \in Procs : proc[p].pc \notin {"queued", "run", "effects"}]_vars

(* A processor that fails after its result was stored (in the derived      *)
(* effects) does not take the conversation back to in_progress.            *)
ResultIsKept == [][row.result => row'.status # "in_progress"]_vars

(* A visible row on processing does not stay there for ever, whoever       *)
(* crashed: it is finished, handed back, closed, discarded or deferred.    *)
(* (Not so a row that a durable job left behind: no sweep looks at it, so  *)
(* that a first opening that crashes strands it.)                          *)
ProcessingEnds ==
    Holds("processing") /\ ~row.deferred /\ ~row.bound
       ~> ~(Holds("processing") /\ ~row.deferred)

=============================================================================
