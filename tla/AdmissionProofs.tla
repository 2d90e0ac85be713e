--------------------------- MODULE AdmissionProofs ---------------------------
(***************************************************************************)
(* Proofs about Admission, for any number of processors and pods and all   *)
(* bounds.  IInv is the inductive invariant.                               *)
(***************************************************************************)
EXTENDS Admission, FiniteSetTheorems, TLAPS

(* At work: from the admission to the end of the rollback. *)
Busy(p) == proc[p].pc # "away"

(* The row's two tokens of admission, in_progress and deferred, are never  *)
(* up together, and both are down while somebody is at work.               *)
TokenInv ==
    /\ row.status = "in_progress" => ~row.deferred
    /\ \A p \in Procs : Busy(p) => row.status # "in_progress" /\ ~row.deferred
    /\ \A p, q \in Procs : Busy(p) /\ Busy(q) => p = q

(* Whoever could roll the row back has not stored a result into it, and a  *)
(* row with a result is not handed back.                                   *)
ResultInv ==
    /\ row.result => row.status # "in_progress"
    /\ \A p \in Procs : Busy(p) /\ proc[p].lane = "sync" /\ row.status = "processing"
          => ~row.result

(* Nobody renews an old row, and a scanned stamp that is still the row's   *)
(* own is an old one.                                                      *)
StampInv ==
    /\ row.old => \A p \in Procs : ~Renewing(p)
    /\ \A d \in Pods : sweep[d].pc = "act" =>
          /\ sweep[d].stamp <= row.stamp
          /\ sweep[d].stamp > 0 /\ sweep[d].stamp = row.stamp => row.old

IInv == TypeOK /\ TokenInv /\ ResultInv /\ StampInv

USE AdmissionAssumption

-----------------------------------------------------------------------------
(* A processor that is not there. *)
LEMMA AwayRequest == Away \in Request /\ Away.pc = "away" /\ ~Away.beat
<1>1. 0 \in 0 .. Patience
  BY DEF Patience
<1>2. Away \in Request
  BY <1>1 DEF Away, Request
<1>3. QED  BY <1>2 DEF Away

(* What an admission or a renewal writes. *)
LEMMA StampedRow ==
    ASSUME NEW r \in Document, r.stamp < MaxStamp
    PROVE  /\ Stamped(r) \in Document
           /\ Stamped(r).status = r.status
           /\ Stamped(r).deferred = r.deferred
           /\ Stamped(r).result = r.result
           /\ ~Stamped(r).old
           /\ Stamped(r).stamp = r.stamp + 1
<1>1. r.stamp + 1 \in 0 .. MaxStamp
  BY DEF Document
<1>2. Stamped(r) \in Document
  BY <1>1 DEF Stamped, Document
<1>3. /\ Stamped(r).status = r.status
      /\ Stamped(r).stamp = r.stamp + 1
  BY DEF Stamped, Document
<1>4. Stamped(r).deferred = r.deferred
  BY DEF Stamped, Document
<1>5. Stamped(r).result = r.result
  BY DEF Stamped, Document
<1>6. ~Stamped(r).old
  BY DEF Stamped, Document
<1>7. QED  BY <1>2, <1>3, <1>4, <1>5, <1>6

(* A step that leaves the stamp and the pods alone. *)
LEMMA SameStamp ==
    ASSUME IInv, row'.stamp = row.stamp, UNCHANGED sweep,
           row.old => row'.old,
           row'.old => \A p \in Procs : ~Renewing(p)'
    PROVE  StampInv'
BY DEF IInv, TypeOK, Document, Candidate, StampInv

(* A step that writes a new stamp. *)
LEMMA NewStamp ==
    ASSUME IInv, row'.stamp = row.stamp + 1, UNCHANGED sweep, ~row'.old
    PROVE  StampInv'
BY DEF IInv, TypeOK, Document, Candidate, StampInv

(* A processor that enters takes both tokens down. *)
LEMMA Enters ==
    ASSUME IInv, NEW p \in Procs, NEW who \in Request,
           \A q \in Procs : ~Busy(q), proc' = [proc EXCEPT ![p] = who],
           row' \in Document, row'.status = "processing", ~row'.deferred,
           row'.result = row.result, who.lane = "sync" => ~row.result,
           row'.stamp = row.stamp + 1, ~row'.old, UNCHANGED <<sweep, faults>>
    PROVE  IInv'
<1>1. /\ proc' \in [Procs -> Request]
      /\ proc'[p] = who
      /\ \A q \in Procs : q # p => proc'[q] = proc[q]
  BY DEF IInv, TypeOK, Request
<1>2. \A q \in Procs : Busy(q)' => q = p
  BY <1>1 DEF Busy
<1>3. TypeOK'
  BY <1>1 DEF IInv, TypeOK
<1>4. TokenInv'
  BY <1>2 DEF TokenInv
<1>5. ResultInv'
  BY <1>1, <1>2 DEF ResultInv
<1>6. StampInv'
  BY NewStamp
<1>7. QED  BY <1>3, <1>4, <1>5, <1>6 DEF IInv

(* A processor that leaves, or moves on without touching the row. *)
LEMMA Moves ==
    ASSUME IInv, NEW p \in Procs, NEW to \in Request, Busy(p), UNCHANGED <<row, sweep>>,
           proc' = [proc EXCEPT ![p] = to], faults' \in 0 .. MaxFaults,
           to.pc # "away" => to.lane = proc[p].lane,
           row.old => ~(to.beat /\ to.missed < Patience)
    PROVE  IInv'
<1>1. /\ proc' \in [Procs -> Request]
      /\ proc'[p] = to
      /\ \A q \in Procs : q # p => proc'[q] = proc[q]
  BY DEF IInv, TypeOK
<1>2. \A q \in Procs : Busy(q)' => Busy(q) /\ proc'[q].lane = proc[q].lane
  BY <1>1 DEF Busy
<1>3. row.old => \A q \in Procs : ~Renewing(q)'
  BY <1>1 DEF IInv, StampInv, Renewing
<1>4. TypeOK'
  BY <1>1 DEF IInv, TypeOK
<1>5. TokenInv' /\ ResultInv'
  BY <1>2 DEF IInv, TokenInv, ResultInv
<1>6. StampInv'
  BY <1>3, SameStamp DEF IInv, StampInv
<1>7. QED  BY <1>4, <1>5, <1>6 DEF IInv

(* Nobody can come in while somebody is at work. *)
LEMMA NobodyBusy ==
    ASSUME IInv, row.status = "in_progress" \/ row.deferred
    PROVE  \A p \in Procs : ~Busy(p)
BY DEF IInv, TokenInv

-----------------------------------------------------------------------------
(* The invariant, action by action *)

LEMMA InitInv == Init => IInv
<1> SUFFICES ASSUME Init PROVE IInv
  OBVIOUS
<1>1. PICK s \in Starts : row = Row(s)
  BY DEF Init
<1>2. row \in Document
  BY <1>1 DEF Row, Document
<1>3. /\ row.status = "in_progress" => ~row.deferred
      /\ ~row.result /\ ~row.old
  BY <1>1 DEF Row
<1>4. \A p \in Procs : ~Busy(p)
  BY DEF Init, Away, Busy
<1>5. \A d \in Pods : sweep[d].pc = "idle"
  BY DEF Init, NoCandidate
<1>6. TypeOK
  BY <1>2, AwayRequest DEF Init, TypeOK, NoCandidate, Candidate
<1>7. TokenInv /\ ResultInv
  BY <1>3, <1>4 DEF TokenInv, ResultInv
<1>8. StampInv
  BY <1>3, <1>5 DEF StampInv
<1>9. QED  BY <1>6, <1>7, <1>8 DEF IInv

LEMMA AdmitStep ==
    ASSUME IInv, NEW p \in Procs, AdmitProcessing(p) PROVE IInv'
<1> DEFINE r == [row EXCEPT !.status = "processing"]
<1>1. /\ r \in Document /\ r.status = "processing" /\ r.stamp = row.stamp
      /\ r.deferred = row.deferred
  BY DEF IInv, TypeOK, Document
<1>2. r.result = row.result
  BY DEF IInv, TypeOK, Document
<1>3. row' = Stamped(r) /\ r.stamp < MaxStamp /\ row.status = "in_progress"
  BY <1>1 DEF AdmitProcessing, CanStamp, Holds
<1> HIDE DEF r
<1>4. ~row.deferred /\ ~row.result
  BY <1>3 DEF IInv, TokenInv, ResultInv
<1>5. /\ row' \in Document /\ row'.status = "processing" /\ ~row'.deferred
      /\ row'.result = row.result /\ row'.stamp = row.stamp + 1 /\ ~row'.old
  BY <1>1, <1>2, <1>3, <1>4, StampedRow
<1> DEFINE who == [Away EXCEPT !.pc = "run", !.beat = TRUE]
<1>6. who \in Request
  BY AwayRequest DEF Request
<1>7. proc' = [proc EXCEPT ![p] = who] /\ UNCHANGED <<sweep, faults>>
  BY DEF AdmitProcessing
<1> HIDE DEF who
<1>8. QED  BY <1>3, <1>4, <1>5, <1>6, <1>7, NobodyBusy, Enters

LEMMA ReacquireStep ==
    ASSUME IInv, NEW p \in Procs, ReacquireDeferred(p) PROVE IInv'
<1> DEFINE r == [row EXCEPT !.status = "processing", !.deferred = FALSE]
<1>1. /\ r \in Document /\ r.status = "processing" /\ r.stamp = row.stamp
      /\ ~r.deferred
  BY DEF IInv, TypeOK, Document
<1>2. r.result = row.result
  BY DEF IInv, TypeOK, Document
<1>3. row' = Stamped(r) /\ r.stamp < MaxStamp /\ row.deferred
  BY <1>1 DEF ReacquireDeferred, Reacquired, CanStamp
<1> HIDE DEF r
<1>4. /\ row' \in Document /\ row'.status = "processing" /\ ~row'.deferred
      /\ row'.result = row.result /\ row'.stamp = row.stamp + 1 /\ ~row'.old
  BY <1>1, <1>2, <1>3, StampedRow
<1> DEFINE who == [Away EXCEPT !.pc = "queued", !.lane = "open"]
<1>5. who \in Request /\ who.lane = "open"
  BY AwayRequest DEF Request
<1>6. proc' = [proc EXCEPT ![p] = who] /\ UNCHANGED <<sweep, faults>>
  BY DEF ReacquireDeferred
<1> HIDE DEF who
<1>7. QED  BY <1>3, <1>4, <1>5, <1>6, NobodyBusy, Enters

(* What changes only a heartbeat. *)
LEMMA BeatFields ==
    ASSUME IInv, NEW p \in Procs, NEW to \in Request, proc' = [proc EXCEPT ![p] = to],
           to.pc = proc[p].pc, to.lane = proc[p].lane
    PROVE  /\ proc' \in [Procs -> Request]
           /\ proc'[p] = to
           /\ \A q \in Procs : q # p => proc'[q] = proc[q]
           /\ \A q \in Procs : Busy(q)' = Busy(q) /\ proc'[q].lane = proc[q].lane
BY DEF IInv, TypeOK, Busy

LEMMA RenewStep ==
    ASSUME IInv, NEW p \in Procs, RenewLease(p) PROVE IInv'
<1> DEFINE to == [proc[p] EXCEPT !.missed = 0]
<1>1. to \in Request /\ to.pc = proc[p].pc /\ to.lane = proc[p].lane
  BY DEF IInv, TypeOK, Request, Patience
<1>2. proc' = [proc EXCEPT ![p] = to]
  BY DEF RenewLease, IInv, TypeOK
<1> HIDE DEF to
<1>3. /\ proc' \in [Procs -> Request]
      /\ \A q \in Procs : Busy(q)' = Busy(q) /\ proc'[q].lane = proc[q].lane
  BY <1>1, <1>2, BeatFields
<1>4. /\ row' \in Document /\ row'.status = row.status /\ row'.deferred = row.deferred
      /\ row'.result = row.result /\ row'.stamp = row.stamp + 1 /\ ~row'.old
  BY StampedRow DEF RenewLease, IInv, TypeOK, CanStamp
<1>5. UNCHANGED <<sweep, faults>>
  BY DEF RenewLease
<1>6. TypeOK'
  BY <1>3, <1>4, <1>5 DEF IInv, TypeOK
<1>7. TokenInv' /\ ResultInv'
  BY <1>3, <1>4 DEF IInv, TokenInv, ResultInv
<1>8. StampInv'
  BY <1>4, <1>5, NewStamp
<1>9. QED  BY <1>6, <1>7, <1>8 DEF IInv

(* A heartbeat that is refused or fails, and one that starts: the row is   *)
(* left as it is, and nobody begins to renew it.                           *)
LEMMA BeatStep ==
    ASSUME IInv, NEW p \in Procs, NEW to \in Request, UNCHANGED <<row, sweep>>,
           proc' = [proc EXCEPT ![p] = to], faults' \in 0 .. MaxFaults,
           to.lane = proc[p].lane, to.pc = "away" <=> proc[p].pc = "away",
           to.beat /\ to.missed < Patience => Renewing(p)
    PROVE  IInv'
<1>1. /\ proc' \in [Procs -> Request]
      /\ proc'[p] = to
      /\ \A q \in Procs : q # p => proc'[q] = proc[q]
  BY DEF IInv, TypeOK
<1>2. \A q \in Procs : (Busy(q)' <=> Busy(q)) /\ proc'[q].lane = proc[q].lane
  BY <1>1 DEF Busy
<1>3. row.old => \A q \in Procs : ~Renewing(q)'
  BY <1>1 DEF IInv, StampInv, Renewing
<1>4. TypeOK'
  BY <1>1 DEF IInv, TypeOK
<1>5. TokenInv' /\ ResultInv'
  BY <1>2 DEF IInv, TokenInv, ResultInv
<1>6. StampInv'
  BY <1>3, SameStamp
<1>7. QED  BY <1>4, <1>5, <1>6 DEF IInv

LEMMA BeatSteps ==
    ASSUME IInv, NEW p \in Procs, RunEnrichment(p) \/ RenewRefused(p) \/ RenewFails(p)
    PROVE  IInv'
<1>1. proc[p] \in Request
  BY DEF IInv, TypeOK
<1>2. CASE RunEnrichment(p)
  <2> DEFINE to == [proc[p] EXCEPT !.pc = "run", !.beat = TRUE, !.missed = Patience]
  <2>1. to \in Request /\ to.lane = proc[p].lane /\ to.pc = "run" /\ to.missed = Patience
    <3>1. Patience \in 0 .. Patience
      BY DEF Patience
    <3>2. QED  BY <1>1, <3>1 DEF Request
  <2>2. proc' = [proc EXCEPT ![p] = to] /\ UNCHANGED <<row, sweep>> /\ proc[p].pc = "queued"
    BY <1>2 DEF RunEnrichment
  <2>3. faults' \in 0 .. MaxFaults /\ ~(to.missed < Patience)
    BY <1>2, <2>1 DEF RunEnrichment, IInv, TypeOK, Patience
  <2> HIDE DEF to
  <2>4. QED  BY <2>1, <2>2, <2>3, BeatStep
<1>3. CASE RenewRefused(p)
  <2> DEFINE to == [proc[p] EXCEPT !.missed = @ + 1]
  <2>1. to \in Request /\ to.lane = proc[p].lane /\ to.pc = proc[p].pc
    BY <1>1, <1>3 DEF Request, Patience, RenewRefused
  <2>2. proc' = [proc EXCEPT ![p] = to] /\ UNCHANGED <<row, sweep>>
    BY <1>3 DEF RenewRefused, IInv, TypeOK
  <2>3. faults' \in 0 .. MaxFaults /\ Renewing(p)
    BY <1>3 DEF RenewRefused, Renewing, IInv, TypeOK
  <2> HIDE DEF to
  <2>4. QED  BY <2>1, <2>2, <2>3, BeatStep
<1>4. CASE RenewFails(p)
  <2> DEFINE to == [proc[p] EXCEPT !.beat = FALSE]
  <2>1. to \in Request /\ to.lane = proc[p].lane /\ to.pc = proc[p].pc
    BY <1>1 DEF Request
  <2>2. ~to.beat
    BY <1>1 DEF Request
  <2>3. proc' = [proc EXCEPT ![p] = to] /\ UNCHANGED <<row, sweep>>
    BY <1>4 DEF RenewFails, IInv, TypeOK
  <2>4. faults' \in 0 .. MaxFaults
    BY <1>4 DEF RenewFails, Fault, IInv, TypeOK
  <2> HIDE DEF to
  <2>5. QED  BY <2>1, <2>2, <2>3, <2>4, BeatStep
<1>5. QED  BY <1>2, <1>3, <1>4

(* A step that rewrites the row and keeps its stamp and its age, while the *)
(* processors at work stay the same or leave.                              *)
LEMMA Writes ==
    ASSUME IInv, row' \in Document, row'.stamp = row.stamp, row'.old = row.old,
           proc' \in [Procs -> Request], UNCHANGED <<sweep, faults>>,
           \A q \in Procs : Busy(q)' => Busy(q) /\ proc'[q].lane = proc[q].lane,
           \A q \in Procs : Renewing(q)' => Renewing(q),
           TokenInv', ResultInv'
    PROVE  IInv'
<1>1. TypeOK'
  BY DEF IInv, TypeOK
<1>2. StampInv'
  BY SameStamp DEF IInv, StampInv
<1>3. QED  BY <1>1, <1>2 DEF IInv

LEMMA PersistStep ==
    ASSUME IInv, NEW p \in Procs, Persist(p) PROVE IInv'
<1>1. /\ proc' \in [Procs -> Request]
      /\ \A q \in Procs : Busy(q)' => Busy(q) /\ proc'[q].lane = proc[q].lane
  BY DEF Persist, IInv, TypeOK, Request, Busy
<1>2. \A q \in Procs : Renewing(q)' => Renewing(q)
  BY DEF Persist, IInv, TypeOK, Request, Renewing
<1>3. CASE row.status = "absent"
  <2>1. row' = row
    BY <1>3 DEF Persist
  <2>2. TokenInv' /\ ResultInv'
    BY <1>1, <2>1 DEF IInv, TokenInv, ResultInv
  <2>3. QED  BY <1>1, <1>2, <2>1, <2>2, Writes DEF Persist, IInv, TypeOK
<1>4. CASE row.status # "absent"
  <2>1. PICK verdict \in BOOLEAN :
          row' = [row EXCEPT !.status = "completed", !.discarded = verdict,
                             !.deferred = FALSE, !.result = TRUE]
    BY <1>4 DEF Persist
  <2>2. row' \in Document /\ row'.stamp = row.stamp /\ row'.status = "completed"
    BY <2>1 DEF IInv, TypeOK, Document
  <2>3. ~row'.deferred
    BY <2>1 DEF IInv, TypeOK, Document
  <2>4. row'.old = row.old
    BY <2>1 DEF IInv, TypeOK, Document
  <2>5. TokenInv' /\ ResultInv'
    BY <1>1, <2>2, <2>3 DEF IInv, TokenInv, ResultInv
  <2>6. QED  BY <1>1, <1>2, <2>2, <2>4, <2>5, Writes DEF Persist
<1>5. QED  BY <1>3, <1>4

LEMMA RecoverStep ==
    ASSUME IInv, NEW p \in Procs, Recover(p) PROVE IInv'
<1>1. /\ proc' \in [Procs -> Request]
      /\ \A q \in Procs : Busy(q)' => q # p /\ Busy(q)
  BY AwayRequest DEF Recover, IInv, TypeOK, Busy
<1>2. \A q \in Procs : Renewing(q)' => Renewing(q)
  BY AwayRequest DEF Recover, IInv, TypeOK, Renewing
<1>3. \A q \in Procs : ~Busy(q)'
  BY <1>1 DEF Recover, IInv, TokenInv, Busy
<1>4. ~row.deferred /\ row.status # "in_progress"
  BY DEF Recover, IInv, TokenInv, Busy
<1>5. CASE row' = row
  <2>1. TokenInv' /\ ResultInv'
    BY <1>3, <1>5 DEF IInv, TokenInv, ResultInv
  <2>2. QED  BY <1>2, <1>1, <1>3, <1>5, <2>1, Writes DEF Recover, IInv, TypeOK
<1>6. CASE row' = [row EXCEPT !.status = "in_progress"] /\ proc[p].lane = "sync"
            /\ row.status = "processing"
  <2>1. row' \in Document /\ row'.stamp = row.stamp /\ row'.status = "in_progress"
    BY <1>6 DEF IInv, TypeOK, Document
  <2>2. row'.deferred = row.deferred
    BY <1>6 DEF IInv, TypeOK, Document
  <2>3. row'.old = row.old
    BY <1>6 DEF IInv, TypeOK, Document
  <2>4. row'.result = row.result
    BY <1>6 DEF IInv, TypeOK, Document
  <2>5. ~row.result
    BY <1>6 DEF Recover, IInv, ResultInv, Busy
  <2>6. TokenInv' /\ ResultInv'
    BY <1>3, <1>4, <2>1, <2>2, <2>4, <2>5 DEF TokenInv, ResultInv
  <2>7. QED  BY <1>1, <1>2, <1>3, <2>1, <2>3, <2>6, Writes DEF Recover
<1>7. CASE row' = [row EXCEPT !.status = "completed", !.deferred = TRUE]
  <2>1. row' \in Document /\ row'.stamp = row.stamp /\ row'.status = "completed"
    BY <1>7 DEF IInv, TypeOK, Document
  <2>2. row'.old = row.old
    BY <1>7 DEF IInv, TypeOK, Document
  <2>3. TokenInv' /\ ResultInv'
    BY <1>3, <2>1 DEF TokenInv, ResultInv
  <2>4. QED  BY <1>1, <1>2, <1>3, <2>1, <2>2, <2>3, Writes DEF Recover
<1>8. QED  BY <1>5, <1>6, <1>7 DEF Recover, RolledBack

LEMMA MovesStep ==
    ASSUME IInv, NEW p \in Procs,
           SkipProcessing(p) \/ Finish(p) \/ Raise(p) \/ Crash(p)
    PROVE  IInv'
<1>1. Away \in Request /\ Away.pc = "away" /\ ~Away.beat
  BY AwayRequest
<1>2. proc[p] \in Request
  BY DEF IInv, TypeOK
<1>3. CASE SkipProcessing(p) \/ Finish(p)
  BY <1>1, <1>3, Moves DEF SkipProcessing, Finish, IInv, TypeOK, Busy
<1>4. CASE Crash(p)
  <2>1. faults' \in 0 .. MaxFaults
    BY <1>4 DEF Crash, Fault, IInv, TypeOK
  <2>2. QED  BY <1>1, <1>4, <2>1, Moves DEF Crash, Busy
<1>5. CASE Raise(p)
  <2> DEFINE to == [proc[p] EXCEPT !.pc = "raised", !.beat = @ /\ proc[p].lane = "sync"]
  <2>1. to \in Request /\ to.lane = proc[p].lane
    BY <1>2 DEF Request
  <2>2. row.old => ~(to.beat /\ to.missed < Patience)
    <3>1. to.beat => proc[p].beat
      BY <1>2 DEF Request
    <3>2. to.missed = proc[p].missed
      BY <1>2 DEF Request
    <3>3. QED  BY <3>1, <3>2 DEF IInv, StampInv, Renewing
  <2>3. proc' = [proc EXCEPT ![p] = to]
    BY <1>5 DEF Raise, IInv, TypeOK, Request
  <2>4. Busy(p) /\ faults' \in 0 .. MaxFaults /\ UNCHANGED <<row, sweep>>
    BY <1>5 DEF Raise, Fault, Busy, IInv, TypeOK
  <2> HIDE DEF to
  <2>5. QED  BY <2>1, <2>2, <2>3, <2>4, Moves
<1>6. QED  BY <1>3, <1>4, <1>5

LEMMA ScanStep ==
    ASSUME IInv, NEW d \in Pods, Scan(d) PROVE IInv'
<1>1. /\ sweep' \in [Pods -> Candidate]
      /\ sweep'[d].stamp = row.stamp
      /\ \A e \in Pods : e # d => sweep'[e] = sweep[e]
  BY DEF Scan, IInv, TypeOK, Document, Candidate
<1>2. row.stamp > 0 => row.old
  BY DEF Scan, Stale, IInv, TypeOK, Document
<1>3. TypeOK'
  BY <1>1 DEF Scan, IInv, TypeOK
<1>4. TokenInv' /\ ResultInv'
  BY DEF Scan, IInv, TokenInv, ResultInv, Busy
<1>5. row.stamp \in Nat
  BY DEF IInv, TypeOK, Document
<1>6. StampInv'
  <2>1. ASSUME NEW e \in Pods, sweep'[e].pc = "act"
        PROVE  /\ sweep'[e].stamp <= row.stamp
               /\ sweep'[e].stamp > 0 /\ sweep'[e].stamp = row.stamp => row.old
    <3>1. CASE e = d
      BY <1>1, <1>2, <1>5, <3>1
    <3>2. CASE e # d
      BY <1>1, <2>1, <3>2 DEF IInv, StampInv
    <3>3. QED  BY <3>1, <3>2
  <2>2. QED  BY <2>1 DEF Scan, IInv, StampInv, Renewing
<1>7. QED  BY <1>3, <1>4, <1>6 DEF IInv

LEMMA CloseStep ==
    ASSUME IInv, NEW d \in Pods, CloseCandidate(d) PROVE IInv'
<1>1. /\ sweep' \in [Pods -> Candidate]
      /\ \A e \in Pods : sweep'[e].pc = "act" => e # d /\ sweep'[e] = sweep[e]
  BY DEF CloseCandidate, IInv, TypeOK, Candidate, NoCandidate
<1>2. UNCHANGED <<proc, faults>>
  BY DEF CloseCandidate
<1>3. CASE row' = row
  <2>1. TypeOK' /\ TokenInv' /\ ResultInv'
    BY <1>1, <1>2, <1>3 DEF IInv, TypeOK, TokenInv, ResultInv, Busy
  <2>2. StampInv'
    BY <1>1, <1>2, <1>3 DEF IInv, StampInv, Renewing
  <2>3. QED  BY <2>1, <2>2 DEF IInv
<1>4. CASE row' = [row EXCEPT !.status = "completed"]
  <2>1. row' \in Document /\ row'.stamp = row.stamp /\ row'.status = "completed"
    BY <1>4 DEF IInv, TypeOK, Document
  <2>2. row'.deferred = row.deferred
    BY <1>4 DEF IInv, TypeOK, Document
  <2>3. row'.old = row.old
    BY <1>4 DEF IInv, TypeOK, Document
  <2>4. TypeOK' /\ TokenInv' /\ ResultInv'
    BY <1>1, <1>2, <2>1, <2>2 DEF IInv, TypeOK, TokenInv, ResultInv, Busy
  <2>5. StampInv'
    BY <1>1, <1>2, <2>1, <2>3 DEF IInv, StampInv, Renewing
  <2>6. QED  BY <2>4, <2>5 DEF IInv
<1>5. CASE row' = Stamped(row)
  <2>1. row.stamp < MaxStamp
    <3>1. Stamped(row).stamp = row.stamp + 1
      BY DEF Stamped, IInv, TypeOK, Document
    <3>2. QED  BY <1>5, <3>1 DEF CloseCandidate, IInv, TypeOK, Document
  <2>2. /\ row' \in Document /\ row'.status = row.status /\ row'.deferred = row.deferred
        /\ row'.result = row.result /\ row'.stamp = row.stamp + 1 /\ ~row'.old
    BY <1>5, <2>1, StampedRow DEF IInv, TypeOK
  <2>3. TypeOK' /\ TokenInv' /\ ResultInv'
    BY <1>1, <1>2, <2>2 DEF IInv, TypeOK, TokenInv, ResultInv, Busy
  <2>4. StampInv'
    BY <1>1, <1>2, <2>2 DEF IInv, TypeOK, Document, Candidate, StampInv
  <2>5. QED  BY <2>3, <2>4 DEF IInv
<1>6. QED  BY <1>3, <1>4, <1>5 DEF CloseCandidate

LEMMA UserStep ==
    ASSUME IInv, Ages \/ Discard \/ RestoreDiscarded \/ DeleteConversation PROVE IInv'
<1>1. UNCHANGED <<proc, sweep, faults>>
  BY DEF Ages, Discard, RestoreDiscarded, UserWrites, DeleteConversation
<1>2. row' \in Document /\ row'.stamp = row.stamp
  BY DEF Ages, Discard, RestoreDiscarded, UserWrites, DeleteConversation, IInv, TypeOK, Document
<1>3. row'.status = row.status \/ row'.status = "absent"
  BY DEF Ages, Discard, RestoreDiscarded, UserWrites, DeleteConversation, IInv, TypeOK, Document
<1>4. row'.deferred => row.deferred
  BY DEF Ages, Discard, RestoreDiscarded, UserWrites, DeleteConversation, IInv, TypeOK, Document
<1>5. row'.result = row.result
  BY DEF Ages, Discard, RestoreDiscarded, UserWrites, DeleteConversation, IInv, TypeOK, Document
<1>6. row.old /\ row.stamp > 0 => row'.old
  BY DEF Ages, Discard, RestoreDiscarded, UserWrites, DeleteConversation, IInv, TypeOK, Document
<1>7. row'.old => row.old \/ \A p \in Procs : ~Renewing(p)
  BY DEF Ages, Discard, RestoreDiscarded, UserWrites, DeleteConversation, IInv, TypeOK, Document
<1>8. TypeOK' /\ TokenInv' /\ ResultInv'
  BY <1>1, <1>2, <1>3, <1>4, <1>5 DEF IInv, TypeOK, TokenInv, ResultInv, Busy
<1>9. StampInv'
  BY <1>1, <1>2, <1>6, <1>7 DEF IInv, StampInv, Renewing
<1>10. QED  BY <1>8, <1>9 DEF IInv

LEMMA StepInv == IInv /\ [Next]_vars => IInv'
<1> SUFFICES ASSUME IInv, [Next]_vars PROVE IInv'
  OBVIOUS
<1>1. CASE Next
  BY <1>1, AdmitStep, ReacquireStep, RenewStep, BeatSteps, PersistStep, RecoverStep, MovesStep,
     ScanStep, CloseStep, UserStep DEF Next, Processor
<1>2. CASE UNCHANGED vars
  BY <1>2 DEF vars, IInv, TypeOK, TokenInv, ResultInv, StampInv, Busy, Renewing
<1>3. QED  BY <1>1, <1>2

LEMMA Invariance == Spec => []IInv
BY InitInv, StepInv, PTL DEF Spec

-----------------------------------------------------------------------------
(* Admission is type correct. *)
THEOREM TypeCorrect == Spec => []TypeOK
BY Invariance, PTL DEF IInv

(* However the requests, their failures and the sweep interleave, at most  *)
(* one admitted request is at work on the row: the admission transactions  *)
(* of both lanes take their token down, and only the rollback puts it back.*)
THEOREM ProcessorIsAlone == Spec => []OneProcessor
<1>1. IInv => OneProcessor
  <2> SUFFICES ASSUME IInv PROVE OneProcessor
    OBVIOUS
  <2> DEFINE B == {p \in Procs : proc[p].pc # "away"}
  <2>1. CASE B = {}
    BY <2>1, FS_EmptySet DEF OneProcessor
  <2>2. CASE B # {}
    <3>1. PICK p \in B : TRUE
      BY <2>2
    <3>2. B = {p}
      BY <3>1 DEF IInv, TokenInv, Busy
    <3>3. Cardinality(B) = 1
      BY <3>2, FS_Singleton
    <3>4. QED  BY <3>3 DEF OneProcessor
  <2>3. QED  BY <2>1, <2>2
<1>2. QED  BY <1>1, Invariance, PTL

(* No step takes a stored result back. *)
LEMMA ResultStep ==
    ASSUME IInv, Next, row.result PROVE row'.result
<1> USE DEF IInv, TypeOK, Document
<1>1. ASSUME NEW p \in Procs, AdmitProcessing(p) \/ ReacquireDeferred(p) PROVE row'.result
  BY <1>1 DEF AdmitProcessing, ReacquireDeferred, Reacquired, Stamped
<1>2. ASSUME NEW p \in Procs, RenewLease(p) PROVE row'.result
  BY <1>2 DEF RenewLease, Stamped
<1>3. ASSUME NEW p \in Procs, Persist(p) PROVE row'.result
  BY <1>3 DEF Persist
<1>4. ASSUME NEW p \in Procs, Recover(p) PROVE row'.result
  BY <1>4 DEF Recover, RolledBack
<1>5. ASSUME NEW p \in Procs, RunEnrichment(p) \/ RenewRefused(p) \/ RenewFails(p)
             \/ SkipProcessing(p) \/ Finish(p) \/ Raise(p) \/ Crash(p)
      PROVE  row'.result
  BY <1>5 DEF RunEnrichment, RenewRefused, RenewFails, SkipProcessing, Finish, Raise, Crash
<1>6. ASSUME NEW d \in Pods, Scan(d) \/ CloseCandidate(d) PROVE row'.result
  BY <1>6 DEF Scan, CloseCandidate, Stamped
<1>7. CASE Ages \/ Discard \/ RestoreDiscarded \/ DeleteConversation
  BY <1>7 DEF Ages, Discard, RestoreDiscarded, UserWrites, DeleteConversation
<1>8. QED
  BY <1>1, <1>2, <1>3, <1>4, <1>5, <1>6, <1>7 DEF Next, Processor

(* A failure after the result was stored never hands the row back: the     *)
(* compare-and-swap of the rollback finds another status.                  *)
THEOREM ResultStays == Spec => ResultIsKept
<1>1. IInv /\ IInv' /\ [Next]_vars => [row.result => row'.status # "in_progress"]_vars
  <2> SUFFICES ASSUME IInv, IInv', Next, row.result
               PROVE  row'.status # "in_progress"
    OBVIOUS
  <2>1. row'.result
    BY ResultStep
  <2>2. QED  BY <2>1 DEF IInv, ResultInv
<1>2. QED  BY <1>1, Invariance, PTL DEF ResultIsKept, Spec

(* The sweep's transaction never closes a row under a processor that       *)
(* renews it: the stamp it compares is one that had grown old, and every   *)
(* later admission and renewal wrote another.                              *)
THEOREM TheRenewedAreSpared == Spec => SweepSparesTheRenewed
<1>1. IInv /\ [Next]_vars => [SweepCloses => \A p \in Procs : ~Renewing(p)]_vars
  <2> SUFFICES ASSUME IInv, Next, SweepCloses
               PROVE  \A p \in Procs : ~Renewing(p)
    OBVIOUS
  <2> USE DEF SweepCloses
  <2>1. PICK d \in Pods : Scan(d) \/ CloseCandidate(d)
    BY DEF Next, AdmitProcessing, ReacquireDeferred, RunEnrichment, RenewLease,
       RenewRefused, RenewFails, Processor, Persist,
       SkipProcessing, Finish, Recover, Raise, Crash, Ages, Discard, RestoreDiscarded,
       UserWrites, DeleteConversation
  <2>2. CloseCandidate(d)
    BY <2>1 DEF Scan
  <2>3. Stamped(row).status = row.status
    BY DEF Stamped, IInv, TypeOK, Document
  <2>4. \/ sweep[d].stamp > 0 /\ row.stamp = sweep[d].stamp
        \/ row.old
    BY <2>2, <2>3 DEF CloseCandidate, Orphan
  <2>5. row.old
    BY <2>2, <2>4 DEF CloseCandidate, IInv, StampInv
  <2>6. QED  BY <2>5 DEF IInv, StampInv
<1>2. QED  BY <1>1, Invariance, PTL DEF SweepSparesTheRenewed, Spec

=============================================================================
