-------------------------------- MODULE Sweep --------------------------------
(***************************************************************************)
(* The bounded sweep behind the recovery of stranded rows: several pods    *)
(* share one persisted cursor; each invocation resumes a window of the     *)
(* collection after it, advances the cursor by a compare-and-swap on its   *)
(* generation, and then acts on the candidates it collected.               *)
(*                                                                         *)
(* Source: backend/database/conversation_finalization_jobs.py (the three   *)
(* scans have the same loop; the one for stale processing rows is the one  *)
(* mapped), services/conversation_finalization.py.                         *)
(*                                                                         *)
(* Rows are positions in document order.  What a row is to the sweep is    *)
(* its state: "excluded" (deferred, fresh or owned by a job), "orphan",    *)
(* "refused" (collected, but the transaction leaves it alone: a discarded  *)
(* row on processing), "done" (no longer in the query) or "gone" (deleted).*)
(***************************************************************************)
EXTENDS Integers, FiniteSets, FiniteSetsExt

CONSTANTS
    Size,      \* documents of the collection
    Limit,     \* limit, which is also the page size
    MaxScan,   \* max_scan, a multiple of it
    Pods,      \* backend pods
    MaxFaults, \* bound on pods lost in the middle of a sweep and calls that fail
    Kinds      \* what rows there can be

ASSUME SweepAssumption ==
    /\ Size \in Nat /\ Limit \in Nat \ {0} /\ MaxScan \in Nat \ {0} /\ MaxFaults \in Nat
    /\ MaxScan % Limit = 0
    /\ Kinds \subseteq {"excluded", "orphan", "refused", "done"}

VARIABLES
    rows,    \* the collection
    cursor,  \* the persisted cursor: the position of a document, 0 for the top
    pod,     \* the pods' local state; current: the cursor's generation is still the one read
    faults   \* faults so far

vars == <<rows, cursor, pod, faults>>

-----------------------------------------------------------------------------
(* State *)

Positions == 1 .. Size
Waiting == [pc |-> "wait", from |-> 0, current |-> FALSE, todo |-> {}, next |-> 0]

Sweeper == [pc: {"wait", "scan", "advance", "act"}, from: 0 .. Size,
            current: BOOLEAN, todo: SUBSET Positions, next: 0 .. Size]

TypeOK ==
    /\ rows \in [Positions -> {"excluded", "orphan", "refused", "done", "gone"}]
    /\ cursor \in 0 .. Size
    /\ pod \in [Pods -> Sweeper]
    /\ faults \in 0 .. MaxFaults

Init ==
    /\ rows \in [Positions -> Kinds]
    /\ cursor = 0
    /\ pod = [p \in Pods |-> Waiting]
    /\ faults = 0

Fault == faults < MaxFaults /\ faults' = faults + 1
NoFault == UNCHANGED faults

-----------------------------------------------------------------------------
(* The scan *)

(* The rows that the query for status = processing returns after a start. *)
Listed(start) == {r \in Positions : r > start /\ rows[r] \notin {"done", "gone"}}
Collected(S) == {r \in S : rows[r] \in {"orphan", "refused"}}
UpTo(S, r) == {s \in S : s <= r}

(* The row at which the loop ends: the one that fills the limit, the last  *)
(* one max_scan allows, or the last one there is.                          *)
StopsAt(S) ==
    LET full == {r \in S : \/ Cardinality(Collected(UpTo(S, r))) >= Limit
                           \/ Cardinality(UpTo(S, r)) >= MaxScan}
    IN  IF full = {} THEN Max(S) ELSE Min(full)

(* The sweep believes it has reached the tail: a page that is empty, or    *)
(* that is shorter than a page, wherever in it the loop stopped.           *)
Exhausted(S) ==
    \/ S = {}
    \/ LET read == Cardinality(UpTo(S, StopsAt(S)))
           before == ((read - 1) \div Limit) * Limit
       IN  \/ Cardinality(S) - before < Limit
           \/ /\ read = Cardinality(S) /\ read < MaxScan
              /\ Cardinality(Collected(S)) < Limit

NextCursor(S) == IF Exhausted(S) THEN 0 ELSE StopsAt(S)

(* Mutant: the row at which the loop ends is left out. *)
WindowShort(S) == IF S = {} THEN {} ELSE Collected(UpTo(S, StopsAt(S) - 1))

Window(S) == IF S = {} THEN {} ELSE Collected(UpTo(S, StopsAt(S)))

-----------------------------------------------------------------------------
(* One invocation *)

(* get_stale_processing_sweep_cursor; when it fails, the sweep starts at   *)
(* the top with generation 0, which is no longer the cursor's.  (Before    *)
(* the first advance it still is: then a failed read is like a good one.)  *)
ReadCursor(p) ==
    /\ pod[p].pc = "wait"
    /\ \E read \in BOOLEAN :
          /\ IF read THEN NoFault ELSE Fault
          /\ pod' = [pod EXCEPT ![p] = [Waiting EXCEPT !.pc = "scan",
                        !.from = IF read THEN cursor ELSE 0, !.current = read]]
    /\ UNCHANGED <<rows, cursor>>

(* get_stale_processing_orphan_candidates; a cursor whose document is gone *)
(* wraps to the top.                                                       *)
ScanRows(p) ==
    LET start == IF pod[p].from > 0 /\ rows[pod[p].from] = "gone" THEN 0 ELSE pod[p].from
        S == Listed(start)
    IN  /\ pod[p].pc = "scan"
        /\ pod' = [pod EXCEPT ![p].pc = "advance", ![p].todo = Window(S),
                              ![p].next = NextCursor(S)]
        /\ UNCHANGED <<rows, cursor, faults>>

(* Mutant: the cursor is set without looking at its generation. *)
MayAdvanceAlways(p) == TRUE

MayAdvance(p) == pod[p].current

(* The compare-and-swap of the cursor, which outdates whoever has read it; *)
(* the candidates are acted on anyway.                                     *)
AdvanceCursor(p) ==
    /\ pod[p].pc = "advance"
    /\ IF MayAdvance(p)
       THEN /\ cursor' = pod[p].next
            /\ pod' = [q \in Pods |-> IF q = p THEN [pod[p] EXCEPT !.pc = "act"]
                                     ELSE [pod[q] EXCEPT !.current = FALSE]]
       ELSE cursor' = cursor /\ pod' = [pod EXCEPT ![p].pc = "act"]
    /\ UNCHANGED <<rows, faults>>

(* The write fails; the candidates are acted on all the same. *)
AdvanceFails(p) ==
    /\ pod[p].pc = "advance" /\ Fault
    /\ pod' = [pod EXCEPT ![p].pc = "act"]
    /\ UNCHANGED <<rows, cursor>>

(* The next candidate's transaction closes the row if it is still an       *)
(* orphan and leaves any other row alone; one that fails is passed over.   *)
Act(p) ==
    /\ pod[p].pc = "act"
    /\ IF pod[p].todo = {}
       THEN pod' = [pod EXCEPT ![p] = Waiting] /\ UNCHANGED rows /\ NoFault
       ELSE LET r == Min(pod[p].todo) IN
            /\ pod' = [pod EXCEPT ![p].todo = @ \ {r}]
            /\ \/ rows' = [rows EXCEPT ![r] = IF @ = "orphan" THEN "done" ELSE @] /\ NoFault
               \/ UNCHANGED rows /\ Fault
    /\ UNCHANGED cursor

(* The pod is lost in the middle of a sweep, or its query fails. *)
Lost(p) ==
    /\ pod[p].pc # "wait" /\ Fault
    /\ pod' = [pod EXCEPT ![p] = Waiting]
    /\ UNCHANGED <<rows, cursor>>

(* A processor crashes, or the owner deletes his conversation. *)
Strand(r) ==
    /\ rows[r] = "excluded"
    /\ rows' = [rows EXCEPT ![r] = "orphan"]
    /\ UNCHANGED <<cursor, pod, faults>>

Delete(r) ==
    /\ rows[r] # "gone"
    /\ rows' = [rows EXCEPT ![r] = "gone"]
    /\ UNCHANGED <<cursor, pod, faults>>

Invocation(p) == ReadCursor(p) \/ ScanRows(p) \/ AdvanceCursor(p) \/ Act(p)

Next ==
    \/ \E p \in Pods : Invocation(p) \/ AdvanceFails(p) \/ Lost(p)
    \/ \E r \in Positions : Strand(r) \/ Delete(r)

Spec == Init /\ [][Next]_vars

(* Every pod sweeps periodically (main.py). *)
FairSpec == Spec /\ \A p \in Pods : WF_vars(Invocation(p))

-----------------------------------------------------------------------------
(* Properties *)

(* A delayed pod never rewinds the cursor: it moves only from the place    *)
(* where the pod that moves it began its own scan.                         *)
CursorIsNotRewound ==
    [][\A p \in Pods : pod[p].pc = "advance" /\ cursor' # cursor /\ pod'[p].pc = "act"
          => pod[p].from = cursor]_vars

(* Repeated bounded sweeps cover the whole collection: no row that the     *)
(* sweep could close stays behind for ever, whichever rows lie before it.  *)
EveryOrphanIsClosed == \A r \in Positions : rows[r] = "orphan" ~> rows[r] # "orphan"

=============================================================================
