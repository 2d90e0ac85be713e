----------------------------- MODULE SweepProofs -----------------------------
(***************************************************************************)
(* Proofs about Sweep, for any collection, limits and number of pods.      *)
(***************************************************************************)
EXTENDS Sweep, WellFoundedInduction, TLAPS

USE SweepAssumption

(* A pod that may still move the cursor has begun where the cursor is. *)
CursorInv ==
    \A p \in Pods : pod[p].pc \in {"scan", "advance"} /\ pod[p].current => pod[p].from = cursor

IInv == TypeOK /\ CursorInv

-----------------------------------------------------------------------------
(* Sets of positions have a least and a greatest member. *)
LEMMA LeastPosition ==
    ASSUME NEW S, S \subseteq Nat, S # {}
    PROVE  Min(S) \in S
<1> DEFINE R == OpToRel(<, Nat)
<1>1. IsWellFoundedOn(R, Nat)
  BY NatLessThanWellFounded
<1>2. \A x, y \in Nat : <<y, x>> \in R <=> y < x
  BY DEF OpToRel
<1> HIDE DEF R
<1>3. PICK x \in S : \A y \in S : ~(<<y, x>> \in R)
  BY <1>1, WFMin
<1>4. \A y \in S : x <= y
  <2> SUFFICES ASSUME NEW y \in S PROVE x <= y
    OBVIOUS
  <2>1. x \in Nat /\ y \in Nat
    OBVIOUS
  <2>2. ~(y < x)
    BY <1>2, <1>3, <2>1
  <2>3. QED  BY <2>1, <2>2
<1>5. QED  BY <1>3, <1>4 DEF Min

LEMMA PositionsAreNumbers == \A x \in Positions : x \in Nat /\ 1 <= x /\ x <= Size
BY DEF Positions

LEMMA GreatestPosition ==
    ASSUME NEW S, S \subseteq Positions, S # {}
    PROVE  Max(S) \in S
<1> DEFINE D == {n \in Nat : \E x \in S : n = Size - x}
<1>1. D \subseteq Nat
  OBVIOUS
<1>2. \A x \in S : x \in Nat /\ Size - x \in D
  <2> SUFFICES ASSUME NEW x \in S PROVE x \in Nat /\ Size - x \in D
    OBVIOUS
  <2>1. x \in Nat /\ x <= Size
    BY PositionsAreNumbers
  <2>2. Size - x \in Nat
    BY <2>1
  <2>3. QED  BY <2>1, <2>2
<1>3. D # {}
  BY <1>2
<1> DEFINE R == OpToRel(<, Nat)
<1>4. IsWellFoundedOn(R, Nat)
  BY NatLessThanWellFounded
<1>5. \A x, y \in Nat : <<y, x>> \in R <=> y < x
  BY DEF OpToRel
<1>6. \A n \in D : n \in Nat /\ \E x \in S : n = Size - x
  OBVIOUS
<1> HIDE DEF R, D
<1>7. PICK m \in D : \A n \in D : ~(<<n, m>> \in R)
  BY <1>1, <1>3, <1>4, WFMin
<1>8. PICK x \in S : m = Size - x
  BY <1>6, <1>7
<1>9. \A y \in S : x >= y
  <2> SUFFICES ASSUME NEW y \in S PROVE x >= y
    OBVIOUS
  <2>1. x \in Nat /\ y \in Nat /\ Size - y \in D /\ Size - y \in Nat /\ m \in Nat
    BY <1>2, <1>6, <1>7
  <2>2. ~(Size - y < m)
    BY <1>5, <1>7, <2>1
  <2>3. QED  BY <1>8, <2>1, <2>2
<1>10. QED  BY <1>8, <1>9 DEF Max

(* What a scan returns. *)
LEMMA ScanTypes ==
    ASSUME NEW S, S \subseteq Positions
    PROVE  NextCursor(S) \in 0 .. Size /\ Window(S) \subseteq Positions
<1>1. S # {} => StopsAt(S) \in Positions
  <2> SUFFICES ASSUME S # {} PROVE StopsAt(S) \in Positions
    OBVIOUS
  <2> DEFINE full == {r \in S : \/ Cardinality(Collected(UpTo(S, r))) >= Limit
                                \/ Cardinality(UpTo(S, r)) >= MaxScan}
  <2>1. CASE full = {}
    BY <2>1, GreatestPosition DEF StopsAt
  <2>2. CASE full # {}
    <3>1. full \subseteq Nat
      BY PositionsAreNumbers
    <3>2. Min(full) \in full
      BY <2>2, <3>1, LeastPosition
    <3>3. QED  BY <2>2, <3>2 DEF StopsAt
  <2>3. QED  BY <2>1, <2>2
<1>2. NextCursor(S) \in 0 .. Size
  <2>1. Exhausted(S) \/ S # {}
    BY DEF Exhausted
  <2>2. QED  BY <1>1, <2>1 DEF NextCursor, Positions
<1>3. Window(S) \subseteq Positions
  BY DEF Window, Collected, UpTo
<1>4. QED  BY <1>2, <1>3

-----------------------------------------------------------------------------
LEMMA Resting == Waiting \in Sweeper /\ Waiting.pc = "wait"
BY DEF Waiting, Sweeper

LEMMA InitInv == Init => IInv
<1> SUFFICES ASSUME Init PROVE IInv
  OBVIOUS
<1>1. rows \in [Positions -> {"excluded", "orphan", "refused", "done", "gone"}]
  BY DEF Init
<1>2. pod \in [Pods -> Sweeper] /\ \A p \in Pods : pod[p].pc = "wait"
  BY Resting DEF Init
<1>3. cursor \in 0 .. Size /\ faults \in 0 .. MaxFaults
  BY DEF Init
<1>4. QED  BY <1>1, <1>2, <1>3 DEF IInv, TypeOK, CursorInv

(* A pod that changes alone. *)
LEMMA OnePod ==
    ASSUME IInv, NEW p \in Pods, NEW to \in Sweeper, pod' = [pod EXCEPT ![p] = to],
           UNCHANGED cursor, faults' \in 0 .. MaxFaults,
           rows' \in [Positions -> {"excluded", "orphan", "refused", "done", "gone"}],
           to.pc \in {"scan", "advance"} /\ to.current => to.from = cursor
    PROVE  IInv'
<1>1. pod' \in [Pods -> Sweeper] /\ pod'[p] = to /\ \A q \in Pods : q # p => pod'[q] = pod[q]
  BY DEF IInv, TypeOK
<1>2. TypeOK'
  BY <1>1 DEF IInv, TypeOK
<1>3. CursorInv'
  BY <1>1 DEF IInv, CursorInv
<1>4. QED  BY <1>2, <1>3 DEF IInv

LEMMA FaultType == IInv /\ (Fault \/ NoFault) => faults' \in 0 .. MaxFaults
BY DEF IInv, TypeOK, Fault, NoFault

LEMMA StepInv == IInv /\ [Next]_vars => IInv'
<1> SUFFICES ASSUME IInv, [Next]_vars PROVE IInv'
  OBVIOUS
<1>0. /\ \A p \in Pods : pod[p] \in Sweeper
      /\ cursor \in 0 .. Size /\ 0 \in 0 .. Size
      /\ rows \in [Positions -> {"excluded", "orphan", "refused", "done", "gone"}]
  BY DEF IInv, TypeOK
<1>1. ASSUME NEW p \in Pods, ReadCursor(p) PROVE IInv'
  <2>1. PICK read \in BOOLEAN :
          /\ IF read THEN NoFault ELSE Fault
          /\ pod' = [pod EXCEPT ![p] = [Waiting EXCEPT !.pc = "scan",
                        !.from = IF read THEN cursor ELSE 0, !.current = read]]
    BY <1>1 DEF ReadCursor
  <2> DEFINE to == [Waiting EXCEPT !.pc = "scan", !.from = IF read THEN cursor ELSE 0,
                                   !.current = read]
  <2>2. to \in Sweeper
    BY <1>0 DEF Waiting, Sweeper
  <2>3. to.current => to.from = cursor
    BY DEF Waiting
  <2>4. UNCHANGED <<rows, cursor>> /\ faults' \in 0 .. MaxFaults
    BY <1>1, <2>1, FaultType DEF ReadCursor
  <2>5. pod' = [pod EXCEPT ![p] = to]
    BY <2>1
  <2> HIDE DEF to
  <2>6. QED  BY <1>0, <2>2, <2>3, <2>4, <2>5, OnePod
<1>2. ASSUME NEW p \in Pods, ScanRows(p) PROVE IInv'
  <2> DEFINE start == IF pod[p].from > 0 /\ rows[pod[p].from] = "gone" THEN 0 ELSE pod[p].from
             S == Listed(start)
             to == [pod[p] EXCEPT !.pc = "advance", !.todo = Window(S), !.next = NextCursor(S)]
  <2>1. NextCursor(S) \in 0 .. Size /\ Window(S) \subseteq Positions
    BY ScanTypes DEF Listed
  <2>2. /\ pod[p].pc = "scan"
        /\ pod' = [pod EXCEPT ![p] = to]
        /\ UNCHANGED <<rows, cursor, faults>>
    BY <1>0, <1>2 DEF ScanRows, Sweeper, IInv, TypeOK
  <2> HIDE DEF S
  <2>3. to \in Sweeper /\ to.from = pod[p].from
    BY <1>0, <2>1 DEF Sweeper
  <2>4. to.current => pod[p].current
    BY <1>0 DEF Sweeper
  <2>5. to.current => to.from = cursor
    BY <2>2, <2>3, <2>4 DEF IInv, CursorInv
  <2>6. faults' \in 0 .. MaxFaults
    BY <2>2 DEF IInv, TypeOK
  <2> HIDE DEF to
  <2>7. QED  BY <1>0, <2>2, <2>3, <2>5, <2>6, OnePod
<1>3. ASSUME NEW p \in Pods, AdvanceCursor(p) PROVE IInv'
  <2> DEFINE to == [pod[p] EXCEPT !.pc = "act"]
  <2>1. to \in Sweeper /\ to.pc = "act"
    BY <1>0 DEF Sweeper
  <2>2. faults' \in 0 .. MaxFaults /\ UNCHANGED rows
    BY <1>3 DEF AdvanceCursor, IInv, TypeOK
  <2>3. CASE ~MayAdvance(p)
    <3>1. UNCHANGED cursor /\ pod' = [pod EXCEPT ![p] = to]
      BY <1>0, <1>3, <2>3 DEF AdvanceCursor, Sweeper, IInv, TypeOK
    <3> HIDE DEF to
    <3>2. QED  BY <1>0, <2>1, <2>2, <3>1, OnePod
  <2>4. CASE MayAdvance(p)
    <3>1. \A q \in Pods : [pod[q] EXCEPT !.current = FALSE] \in Sweeper
      BY <1>0 DEF Sweeper
    <3>2. \A q \in Pods : ~[pod[q] EXCEPT !.current = FALSE].current
      BY <1>0 DEF Sweeper
    <3>3. /\ cursor' = pod[p].next
          /\ pod' = [q \in Pods |-> IF q = p THEN to ELSE [pod[q] EXCEPT !.current = FALSE]]
      BY <1>3, <2>4 DEF AdvanceCursor
    <3> HIDE DEF to
    <3>4. cursor' \in 0 .. Size
      BY <1>0, <3>3 DEF Sweeper
    <3>5. pod' \in [Pods -> Sweeper]
      BY <2>1, <3>1, <3>3
    <3>6. CursorInv'
      BY <2>1, <3>2, <3>3 DEF CursorInv
    <3>7. QED  BY <1>0, <2>2, <3>4, <3>5, <3>6 DEF IInv, TypeOK
  <2>5. QED  BY <2>3, <2>4
<1>4. ASSUME NEW p \in Pods, AdvanceFails(p) PROVE IInv'
  <2> DEFINE to == [pod[p] EXCEPT !.pc = "act"]
  <2>1. to \in Sweeper /\ to.pc = "act"
    BY <1>0 DEF Sweeper
  <2>2. faults' \in 0 .. MaxFaults /\ UNCHANGED <<rows, cursor>>
    BY <1>4, FaultType DEF AdvanceFails
  <2>3. pod' = [pod EXCEPT ![p] = to]
    BY <1>0, <1>4 DEF AdvanceFails, Sweeper, IInv, TypeOK
  <2> HIDE DEF to
  <2>4. QED  BY <1>0, <2>1, <2>2, <2>3, OnePod
<1>5. ASSUME NEW p \in Pods, Act(p) PROVE IInv'
  <2>1. CASE pod[p].todo = {}
    <3>1. pod' = [pod EXCEPT ![p] = Waiting] /\ UNCHANGED <<rows, cursor>> /\ NoFault
      BY <1>5, <2>1 DEF Act
    <3>2. QED  BY <1>0, <3>1, FaultType, Resting, OnePod
  <2>2. CASE pod[p].todo # {}
    <3> DEFINE r == Min(pod[p].todo)
               to == [pod[p] EXCEPT !.todo = @ \ {r}]
    <3>1. pod[p].todo \subseteq Positions
      BY <1>0 DEF Sweeper
    <3>2. pod[p].todo \subseteq Nat
      BY <3>1, PositionsAreNumbers
    <3>3. r \in Positions
      BY <2>2, <3>1, <3>2, LeastPosition
    <3>4. to \in Sweeper /\ to.pc = "act"
      BY <1>0, <1>5 DEF Sweeper, Act
    <3>5. /\ pod' = [pod EXCEPT ![p].todo = @ \ {r}] /\ UNCHANGED cursor
          /\ \/ rows' = [rows EXCEPT ![r] = IF @ = "orphan" THEN "done" ELSE @]
             \/ UNCHANGED rows
          /\ NoFault \/ Fault
      BY <1>5, <2>2 DEF Act
    <3>6. pod' = [pod EXCEPT ![p] = to]
      BY <1>0, <3>5 DEF Sweeper, IInv, TypeOK
    <3> HIDE DEF r, to
    <3>7. rows' \in [Positions -> {"excluded", "orphan", "refused", "done", "gone"}]
      BY <1>0, <3>3, <3>5
    <3>8. QED  BY <3>4, <3>5, <3>6, <3>7, FaultType, OnePod
  <2>3. QED  BY <2>1, <2>2
<1>6. ASSUME NEW p \in Pods, Lost(p) PROVE IInv'
  BY <1>0, <1>6, FaultType, Resting, OnePod DEF Lost
<1>7. ASSUME NEW r \in Positions, Strand(r) \/ Delete(r) PROVE IInv'
  BY <1>7 DEF Strand, Delete, CursorInv, IInv, TypeOK
<1>8. CASE UNCHANGED vars
  BY <1>8 DEF vars, CursorInv, IInv, TypeOK
<1>9. QED
  BY <1>1, <1>2, <1>3, <1>4, <1>5, <1>6, <1>7, <1>8 DEF Next, Invocation

LEMMA Invariance == Spec => []IInv
BY InitInv, StepInv, PTL DEF Spec

-----------------------------------------------------------------------------
(* Sweep is type correct: what the paged loop returns is always a place in *)
(* the collection and a set of its rows.                                   *)
THEOREM TypeCorrect == Spec => []TypeOK
BY Invariance, PTL DEF IInv

(* The generation fences a delayed pod: whoever moves the cursor has       *)
(* scanned from where it stands, however many pods sweep at once and       *)
(* whatever reads and writes of it fail.                                   *)
THEOREM CursorIsFenced == Spec => CursorIsNotRewound
<1>1. IInv /\ [Next]_vars =>
        [\A p \in Pods : pod[p].pc = "advance" /\ cursor' # cursor /\ pod'[p].pc = "act"
            => pod[p].from = cursor]_vars
  <2> SUFFICES ASSUME IInv, Next, NEW p \in Pods, pod[p].pc = "advance", cursor' # cursor,
                      pod'[p].pc = "act"
               PROVE  pod[p].from = cursor
    OBVIOUS
  <2>1. PICK q \in Pods : AdvanceCursor(q) /\ pod[q].current
    BY DEF Next, Invocation, ReadCursor, ScanRows, AdvanceCursor, MayAdvance, AdvanceFails,
       Act, Lost, Strand, Delete
  <2>2. p = q
    <3>1. pod[p] \in Sweeper
      BY DEF IInv, TypeOK
    <3>2. [pod[p] EXCEPT !.current = FALSE].pc = "advance"
      BY <3>1 DEF Sweeper
    <3>3. QED  BY <2>1, <3>2 DEF AdvanceCursor, MayAdvance
  <2>3. QED  BY <2>1, <2>2 DEF IInv, CursorInv
<1>2. QED  BY <1>1, Invariance, PTL DEF CursorIsNotRewound, Spec

=============================================================================
