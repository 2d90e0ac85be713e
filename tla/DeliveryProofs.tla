--------------------------- MODULE DeliveryProofs ---------------------------
(***************************************************************************)
(* Proofs about the way of the audio through Preview: from the client's    *)
(* queue over the socket and the worker's pipe into the worker, and of the *)
(* acknowledgement back to the client.                                     *)
(***************************************************************************)
EXTENDS PreviewProofs

USE PreviewAssumption

-----------------------------------------------------------------------------
(* The invariant *)

(* The end of the input comes last. *)
HasEof(q) == \E i \in 1 .. Len(q) : q[i] = "eof"
EofLast(q) == \A i \in 1 .. Len(q) : q[i] = "eof" => i = Len(q)
NoClose(q) == \A i \in 1 .. Len(q) : q[i] # "close"

(* A client counts what waits, and sends the end of the input after all of *)
(* the audio; u is what it has sent.                                       *)
ClientInv(c, u) ==
    /\ c.pending = FramesIn(c.queue)
    /\ c.pc = "done" => c.queue = <<>> /\ ~c.accepting
    /\ c.pc # "done" =>
          /\ EofLast(c.queue) /\ (HasEof(c.queue) => ~c.accepting)
          /\ c.tx \in {"eof", "done"} => c.queue = <<>> /\ ~c.accepting
          /\ EofLast(u) /\ NoClose(u) /\ (HasEof(u) => c.tx = "done")

(* All of the audio and its end are sent. *)
Sealed(c) == c.tx = "done" /\ c.queue = <<>> /\ ~c.accepting

(* ... and all of the audio is taken in by the worker. *)
Complete(c, n) == Sealed(c) /\ n = c.fed

(* The frames that the client has accepted and the server has not taken. *)
Waiting(c, u) == FramesIn(c.queue) + (IF c.tx = "pcm" THEN 1 ELSE 0) + FramesIn(u)

Acked(d) == \E i \in 1 .. Len(d) : d[i].kind = "ready_to_stop"
HasFinished(q) == \E i \in 1 .. Len(q) : q[i].kind = "finished"
OneFinished(q) ==
    \A i, j \in 1 .. Len(q) : q[i].kind = "finished" /\ q[j].kind = "finished" => i = j

(* The handler reads the worker's lines, or it has read the last of them. *)
Reading(h) == h.pc \in {"both", "last"} /\ h.reader = "run"
HasRead(h) ==
    \/ h.pc \in {"both", "last"} /\ h.reader = "done"
    \/ h.pc = "cleanup" /\ h.outcome = "passed"

(* Where the accepted frames are: waiting, in the worker's pipe, or taken  *)
(* in; "finished" is said when none is left.                               *)
FlowInv(c, h, w, u, n) ==
    c.pc # "done" =>
       /\ h.pc \in {"none", "accept", "begin"} => c.fed = Waiting(c, u) + n
       /\ Reading(h) /\ w.alive /\ h.feeder \in {"recv", "drain"}
             => c.fed = Waiting(c, u) + Len(w.in) + n
       /\ Reading(h) /\ w.alive /\ h.feeder \in {"stop", "done"} /\ w.stream # "none"
             => Sealed(c) /\ c.fed = n + Len(w.in) - 1
       /\ Reading(h) /\ HasFinished(w.out) => Complete(c, n)
       /\ HasRead(h) => Complete(c, n)

(* What the acknowledgement says, on its way and at the client. *)
AckInv(c, h, d, n) ==
    /\ c.rx = "done" => c.ack
    /\ c.pc = "closing" /\ ~c.failed /\ ~Cancelled(c) => c.ack
    /\ c.ack \/ Acked(d) => h.pc = "gone"
    /\ h.pc = "reap" => h.outcome # "passed"
    /\ c.pc # "done" /\ (c.ack \/ Acked(d)) => Complete(c, n)
    /\ c.pc = "done" /\ c.ack => n = c.fed
    /\ c.pc = "done" /\ ~c.failed /\ ~Cancelled(c) => c.ack

(* Also a dead worker's lines say "finished" once at most, and not before  *)
(* or after the session that is being read.                                *)
LinesInv ==
    /\ ~active => ~HasFinished(worker.out)
    /\ \A s \in Sessions :
          /\ srv[s].pc = "begin" \/ HasRead(srv[s]) => ~HasFinished(worker.out)
          /\ Reading(srv[s]) => OneFinished(worker.out)

(* The worker's stream and its input are those of the session. *)
Engaged == {s \in Sessions : srv[s].pc \in InSession}
Owned(q, T) == \A i \in 1 .. Len(q) : q[i].of \in T
StreamInv ==
    worker.alive => /\ worker.stream # "none" => worker.stream \in Engaged
                    /\ Owned(worker.in, Engaged)

Delivery(c, h, w, u, d, n) == ClientInv(c, u) /\ FlowInv(c, h, w, u, n) /\ AckInv(c, h, d, n)
Deliveries ==
    \A s \in Sessions : Delivery(cli[s], srv[s], worker, up[s], down[s], heard[s])

(* The inductive invariant, together with those of PreviewProofs. *)
DeliveryInv == Deliveries /\ LinesInv /\ StreamInv

-----------------------------------------------------------------------------
(* Counting frames *)

(* The places of the frames in a queue. *)
Places(q) == {i \in 1 .. Len(q) : q[i] = "pcm"}

LEMMA PlacesFinite ==
    ASSUME NEW S, NEW q \in Seq(S)
    PROVE  IsFiniteSet(Places(q)) /\ FramesIn(q) = Cardinality(Places(q)) /\ FramesIn(q) \in Nat
<1>1. IsFiniteSet(1 .. Len(q)) /\ Places(q) \in SUBSET (1 .. Len(q))
  BY FS_Interval DEF Places
<1>2. IsFiniteSet(Places(q))
  BY <1>1, FS_Subset
<1>3. Cardinality(Places(q)) \in Nat
  BY <1>2, FS_CardinalityType
<1>4. QED  BY <1>2, <1>3 DEF FramesIn, Places

LEMMA FramesInEmpty == FramesIn(<<>>) = 0
<1>1. {i \in 1 .. Len(<<>>) : <<>>[i] = "pcm"} = {}
  OBVIOUS
<1>2. QED  BY <1>1, FS_EmptySet DEF FramesIn

(* A frame that is added counts one, everything else nothing. *)
LEMMA FramesInAppend ==
    ASSUME NEW S, NEW q \in Seq(S), NEW x \in S
    PROVE  FramesIn(Append(q, x)) = FramesIn(q) + (IF x = "pcm" THEN 1 ELSE 0)
<1> DEFINE r == Append(q, x)
<1>1. /\ Len(r) = Len(q) + 1 /\ r[Len(q) + 1] = x /\ r \in Seq(S)
      /\ \A i \in 1 .. Len(q) : r[i] = q[i]
  BY AppendProperties
<1>2. Len(q) \in Nat
  OBVIOUS
<1> HIDE DEF r
<1>3. CASE x = "pcm"
  <2>1. Places(r) = Places(q) \cup {Len(q) + 1} /\ Len(q) + 1 \notin Places(q)
    BY <1>1, <1>2, <1>3 DEF Places
  <2>2. Cardinality(Places(r)) = Cardinality(Places(q)) + 1
    BY <2>1, PlacesFinite, FS_AddElement
  <2>3. QED  BY <1>1, <1>3, <2>2, PlacesFinite DEF r
<1>4. CASE x # "pcm"
  <2>1. Places(r) = Places(q)
    BY <1>1, <1>2, <1>4 DEF Places
  <2>2. FramesIn(r) = FramesIn(q) /\ FramesIn(q) \in Nat
    BY <1>1, <2>1, PlacesFinite
  <2>3. QED  BY <1>4, <2>2 DEF r
<1>5. QED  BY <1>3, <1>4

(* What is taken from the head was counted. *)
LEMMA FramesInTail ==
    ASSUME NEW S, NEW q \in Seq(S), q # <<>>
    PROVE  FramesIn(q) = FramesIn(Tail(q)) + (IF Head(q) = "pcm" THEN 1 ELSE 0)
<1> DEFINE r == Tail(q)
           f == [i \in Places(r) |-> i + 1]
           T == Places(q) \ {1}
<1>1. /\ Head(q) = q[1] /\ Len(r) = Len(q) - 1 /\ Len(q) > 0 /\ r \in Seq(S)
      /\ \A i \in 1 .. Len(q) - 1 : r[i] = q[i + 1]
  BY HeadTailProperties, EmptySeq
<1>2. Len(q) \in Nat
  OBVIOUS
<1> HIDE DEF r
<1>3. \A i \in Places(r) : i \in Int /\ i + 1 \in T
  BY <1>1, <1>2 DEF Places
<1>4. \A j \in T : j \in Int /\ j - 1 \in Places(r)
  BY <1>1, <1>2 DEF Places
<1>5. f \in [Places(r) -> T]
  BY <1>3
<1>6. f \in Injection(Places(r), T)
  BY <1>3, <1>5 DEF Injection, IsInjective
<1>7. f \in Surjection(Places(r), T)
  <2>1. \A j \in T : f[j - 1] = j
    BY <1>4
  <2>2. QED  BY <1>4, <1>5, <2>1 DEF Surjection
<1>8. ExistsBijection(Places(r), T)
  BY <1>6, <1>7 DEF ExistsBijection, Bijection
<1>9. Cardinality(T) = FramesIn(r)
  <2>1. IsFiniteSet(Places(r)) /\ FramesIn(r) = Cardinality(Places(r))
    BY <1>1, PlacesFinite
  <2> HIDE DEF T
  <2>2. QED  BY <1>8, <2>1, FS_Bijection
<1>10. Cardinality(T) = IF 1 \in Places(q) THEN FramesIn(q) - 1 ELSE FramesIn(q)
  BY PlacesFinite, FS_RemoveElement
<1>11. 1 \in Places(q) <=> Head(q) = "pcm"
  BY <1>1, <1>2 DEF Places
<1>12. FramesIn(q) \in Nat
  BY PlacesFinite
<1> HIDE DEF T
<1>13. QED  BY <1>9, <1>10, <1>11, <1>12 DEF r

-----------------------------------------------------------------------------
(* Queues and pipes at both ends *)

LEMMA EmptyQueues ==
    /\ ~HasEof(<<>>) /\ EofLast(<<>>) /\ NoClose(<<>>)
    /\ ~Acked(<<>>) /\ ~HasFinished(<<>>) /\ OneFinished(<<>>)
BY DEF HasEof, EofLast, NoClose, Acked, HasFinished, OneFinished

LEMMA EofAppend ==
    ASSUME NEW S, NEW q \in Seq(S), NEW x \in S
    PROVE  /\ HasEof(Append(q, x)) => HasEof(q) \/ x = "eof"
           /\ ~HasEof(q) => EofLast(Append(q, x))
           /\ NoClose(q) /\ x # "close" => NoClose(Append(q, x))
<1>1. /\ Len(Append(q, x)) = Len(q) + 1 /\ Append(q, x)[Len(q) + 1] = x
      /\ \A i \in 1 .. Len(q) : Append(q, x)[i] = q[i]
  BY AppendProperties
<1>2. Len(q) \in Nat
  OBVIOUS
<1>3. QED  BY <1>1, <1>2 DEF HasEof, EofLast, NoClose

LEMMA EofTail ==
    ASSUME NEW S, NEW q \in Seq(S), q # <<>>
    PROVE  /\ HasEof(Tail(q)) => HasEof(q)
           /\ EofLast(q) => EofLast(Tail(q))
           /\ NoClose(q) => NoClose(Tail(q)) /\ Head(q) # "close"
           /\ Head(q) = "eof" => HasEof(q)
           /\ EofLast(q) /\ Head(q) = "eof" => Tail(q) = <<>>
<1>1. /\ Head(q) = q[1] /\ Len(Tail(q)) = Len(q) - 1 /\ Len(q) > 0 /\ Tail(q) \in Seq(S)
      /\ \A i \in 1 .. Len(q) - 1 : Tail(q)[i] = q[i + 1]
  BY HeadTailProperties, EmptySeq
<1>2. Len(q) \in Nat
  OBVIOUS
<1>3. EofLast(q) /\ Head(q) = "eof" => Tail(q) = <<>>
  <2>0. 1 \in 1 .. Len(q)
    BY <1>1, <1>2
  <2>1a. EofLast(q) /\ Head(q) = "eof" => 1 = Len(q)
    BY <1>1, <2>0 DEF EofLast
  <2>1. EofLast(q) /\ Head(q) = "eof" => Len(Tail(q)) = 0
    BY <1>1, <2>1a
  <2>2. \A r \in Seq(S) : Len(r) = 0 => r = <<>>
    BY EmptySeq
  <2>3. QED  BY <1>1, <2>1, <2>2
<1>4. \A i \in 1 .. Len(Tail(q)) : i + 1 \in 1 .. Len(q) /\ Tail(q)[i] = q[i + 1]
  BY <1>1, <1>2
<1>5. HasEof(Tail(q)) => HasEof(q)
  BY <1>4 DEF HasEof
<1>6. EofLast(q) => EofLast(Tail(q))
  <2> SUFFICES ASSUME EofLast(q), NEW i \in 1 .. Len(Tail(q)), Tail(q)[i] = "eof"
               PROVE  i = Len(Tail(q))
    BY DEF EofLast
  <2>1. i + 1 = Len(q)
    BY <1>4 DEF EofLast
  <2> DEFINE m == Len(q)
             k == Len(Tail(q))
  <2>a. i \in 1 .. k
    OBVIOUS
  <2>b. m \in Nat /\ k = m - 1 /\ i + 1 = m
    BY <1>1, <1>2, <2>1
  <2> HIDE DEF m, k
  <2>3. i = k
    BY <2>a, <2>b
  <2>4. QED  BY <2>3 DEF k
<1>7. 1 \in 1 .. Len(q)
  BY <1>1, <1>2
<1>8. NoClose(q) => NoClose(Tail(q)) /\ Head(q) # "close"
  BY <1>1, <1>4, <1>7 DEF NoClose
<1>9. Head(q) = "eof" => HasEof(q)
  BY <1>1, <1>7 DEF HasEof
<1>10. QED  BY <1>3, <1>5, <1>6, <1>8, <1>9

LEMMA AckedConcat ==
    ASSUME NEW q \in Seq(Reply), NEW r \in Seq(Reply)
    PROVE  Acked(q \o r) => Acked(q) \/ Acked(r)
<1>1. /\ Len(q \o r) = Len(q) + Len(r)
      /\ \A i \in 1 .. Len(q) + Len(r) : (q \o r)[i] = IF i <= Len(q) THEN q[i] ELSE r[i - Len(q)]
  BY ConcatProperties
<1>2. Len(q) \in Nat /\ Len(r) \in Nat
  OBVIOUS
<1>3. QED  BY <1>1, <1>2 DEF Acked

LEMMA AckedTail ==
    ASSUME NEW q \in Seq(Reply), q # <<>>
    PROVE  /\ Acked(Tail(q)) => Acked(q)
           /\ Head(q).kind = "ready_to_stop" => Acked(q)
<1>1. /\ Head(q) = q[1] /\ Len(Tail(q)) = Len(q) - 1 /\ Len(q) > 0
      /\ \A i \in 1 .. Len(q) - 1 : Tail(q)[i] = q[i + 1]
  BY HeadTailProperties, EmptySeq
<1>2. Len(q) \in Nat
  OBVIOUS
<1>3. QED  BY <1>1, <1>2 DEF Acked

LEMMA FinishedAppend ==
    ASSUME NEW q \in Seq(Text), NEW x \in Text, x.kind # "finished"
    PROVE  /\ HasFinished(Append(q, x)) => HasFinished(q)
           /\ OneFinished(q) => OneFinished(Append(q, x))
<1>1. /\ Len(Append(q, x)) = Len(q) + 1 /\ Append(q, x)[Len(q) + 1] = x
      /\ \A i \in 1 .. Len(q) : Append(q, x)[i] = q[i]
  BY AppendProperties
<1>2. Len(q) \in Nat
  OBVIOUS
<1>3. \A i \in 1 .. Len(Append(q, x)) :
        Append(q, x)[i].kind = "finished" => i \in 1 .. Len(q) /\ Append(q, x)[i] = q[i]
  BY <1>1, <1>2
<1>4. HasFinished(Append(q, x)) => HasFinished(q)
  BY <1>3 DEF HasFinished
<1>5. OneFinished(q) => OneFinished(Append(q, x))
  BY <1>3 DEF OneFinished
<1>6. QED  BY <1>4, <1>5

LEMMA FinishedTail ==
    ASSUME NEW q \in Seq(Text), q # <<>>
    PROVE  /\ HasFinished(Tail(q)) => HasFinished(q)
           /\ Head(q).kind = "finished" => HasFinished(q)
           /\ OneFinished(q) => OneFinished(Tail(q))
           /\ OneFinished(q) /\ Head(q).kind = "finished" => ~HasFinished(Tail(q))
<1>1. /\ Head(q) = q[1] /\ Len(Tail(q)) = Len(q) - 1 /\ Len(q) > 0
      /\ \A i \in 1 .. Len(q) - 1 : Tail(q)[i] = q[i + 1]
  BY HeadTailProperties, EmptySeq
<1>2. Len(q) \in Nat
  OBVIOUS
<1>3. HasFinished(Tail(q)) => HasFinished(q)
  BY <1>1, <1>2 DEF HasFinished
<1>4. Head(q).kind = "finished" => HasFinished(q)
  BY <1>1, <1>2 DEF HasFinished
<1>5. OneFinished(q) => OneFinished(Tail(q))
  <2> SUFFICES ASSUME OneFinished(q), NEW i \in 1 .. Len(Tail(q)), NEW j \in 1 .. Len(Tail(q)),
                      Tail(q)[i].kind = "finished", Tail(q)[j].kind = "finished"
               PROVE  i = j
    BY DEF OneFinished
  <2>1. i + 1 \in 1 .. Len(q) /\ j + 1 \in 1 .. Len(q) /\ Tail(q)[i] = q[i + 1] /\ Tail(q)[j] = q[j + 1]
    BY <1>1, <1>2
  <2>2. i + 1 = j + 1
    BY <2>1 DEF OneFinished
  <2>3. QED  BY <1>1, <1>2, <2>2
<1>6. OneFinished(q) /\ Head(q).kind = "finished" => ~HasFinished(Tail(q))
  <2> SUFFICES ASSUME OneFinished(q), Head(q).kind = "finished", NEW i \in 1 .. Len(Tail(q)),
                      Tail(q)[i].kind = "finished"
               PROVE  FALSE
    BY DEF HasFinished
  <2>1. i + 1 \in 1 .. Len(q) /\ 1 \in 1 .. Len(q) /\ Tail(q)[i] = q[i + 1] /\ i + 1 # 1
    BY <1>1, <1>2
  <2>2. i + 1 = 1
    BY <1>1, <2>1 DEF OneFinished
  <2>3. QED  BY <2>1, <2>2
<1>7. QED  BY <1>3, <1>4, <1>5, <1>6

LEMMA FinishedTexts ==
    ASSUME NEW q \in Seq(Text)
    PROVE  /\ Texts(q) => ~HasFinished(q)
           /\ TextsThenFinished(q) => OneFinished(q)
           /\ ~HasFinished(q) => OneFinished(q)
<1>1. Len(q) \in Nat
  OBVIOUS
<1>2. QED  BY <1>1 DEF Texts, TextsThenFinished, HasFinished, OneFinished

LEMMA OwnedChanges ==
    ASSUME NEW S, NEW q \in Seq(S), NEW T, Owned(q, T)
    PROVE  /\ q # <<>> => Owned(Tail(q), T) /\ Head(q).of \in T
           /\ \A x \in S : x.of \in T => Owned(Append(q, x), T)
<1>1. q # <<>> => /\ Head(q) = q[1] /\ Len(Tail(q)) = Len(q) - 1 /\ Len(q) > 0
                  /\ \A i \in 1 .. Len(q) - 1 : Tail(q)[i] = q[i + 1]
  BY HeadTailProperties, EmptySeq
<1>2. Len(q) \in Nat
  OBVIOUS
<1>3. \A x \in S : /\ Len(Append(q, x)) = Len(q) + 1 /\ Append(q, x)[Len(q) + 1] = x
                   /\ \A i \in 1 .. Len(q) : Append(q, x)[i] = q[i]
  BY AppendProperties
<1>4. q # <<>> => Owned(Tail(q), T) /\ Head(q).of \in T
  BY <1>1, <1>2 DEF Owned
<1>5. \A x \in S : x.of \in T => Owned(Append(q, x), T)
  BY <1>2, <1>3 DEF Owned
<1>6. QED  BY <1>4, <1>5

-----------------------------------------------------------------------------
(* The invariant of one session under its steps *)

(* What a session without its handler has to do with the worker. *)
LEMMA Elsewhere ==
    ASSUME NEW c, NEW h, NEW w, NEW x, NEW u, NEW d, NEW n,
           Delivery(c, h, w, u, d, n), h.pc \notin InSession
    PROVE  Delivery(c, h, x, u, d, n)
BY DEF Delivery, FlowInv, Reading, HasRead, InSession

(* Only session s changes, and the worker only for it. *)
LEMMA OwnStep ==
    ASSUME Deliveries, NEW s \in Sessions,
           \A t \in Sessions : t # s =>
              /\ cli'[t] = cli[t] /\ srv'[t] = srv[t] /\ up'[t] = up[t]
              /\ down'[t] = down[t] /\ heard'[t] = heard[t],
           worker' = worker \/ \A t \in Sessions : t # s => srv[t].pc \notin InSession,
           Delivery(cli'[s], srv'[s], worker', up'[s], down'[s], heard'[s])
    PROVE  Deliveries'
<1>1. ASSUME NEW t \in Sessions, t # s
      PROVE  Delivery(cli'[t], srv'[t], worker', up'[t], down'[t], heard'[t])
  <2>1. Delivery(cli[t], srv[t], worker, up[t], down[t], heard[t])
    BY DEF Deliveries
  <2>2. CASE worker' = worker
    BY <1>1, <2>1, <2>2
  <2>3. CASE srv[t].pc \notin InSession
    BY <1>1, <2>1, <2>3, Elsewhere
  <2>4. QED  BY <1>1, <2>2, <2>3
<1>2. QED  BY <1>1 DEF Deliveries

(* A client that neither gets nor sends audio. *)
LEMMA Keeps ==
    ASSUME NEW c, NEW e, NEW h, NEW k, NEW w, NEW u, NEW d, NEW g, NEW n,
           Delivery(c, h, w, u, d, n), c.pc # "done", e.pc # "done",
           e.queue = c.queue, e.pending = c.pending, e.fed = c.fed, e.tx = c.tx,
           e.accepting => c.accepting, e.rx = "done" => e.ack,
           e.pc = "closing" /\ ~e.failed /\ ~Cancelled(e) => e.ack,
           e.ack => c.ack \/ Acked(d), Acked(g) => Acked(d),
           k = h \/ (h.pc = "none" /\ k.pc = "accept")
    PROVE  Delivery(e, k, w, u, g, n)
<1>1. ClientInv(e, u)
  BY DEF Delivery, ClientInv
<1>2. FlowInv(e, k, w, u, n)
  BY DEF Delivery, FlowInv, Waiting, Sealed, Complete, Reading, HasRead
<1>3. AckInv(e, k, g, n)
  BY DEF Delivery, AckInv, Complete, Sealed
<1>4. QED  BY <1>1, <1>2, <1>3 DEF Delivery

(* A client that is done stays as it is. *)
LEMMA KeepsDone ==
    ASSUME NEW c, NEW e, NEW h, NEW w, NEW u, NEW d, NEW n,
           Delivery(c, h, w, u, d, n), c.pc = "done", e.pc = "done",
           e.queue = c.queue, e.pending = c.pending, e.fed = c.fed, e.rx = c.rx,
           e.accepting => c.accepting, e.failed = c.failed, e.ack = c.ack,
           Cancelled(c) => Cancelled(e)
    PROVE  Delivery(e, h, w, u, d, n)
BY DEF Delivery, ClientInv, FlowInv, AckInv

(* A frame is accepted. *)
LEMMA KeepsFeed ==
    ASSUME NEW c \in Session, NEW e, NEW h, NEW w, NEW u \in Seq({"pcm", "eof", "close"}),
           NEW d, NEW n \in Nat, w.in \in Seq(Command),
           Delivery(c, h, w, u, d, n), c.pc # "done", c.accepting,
           e.pc = c.pc, e.accepting = c.accepting, e.queue = Append(c.queue, "pcm"),
           e.pending = c.pending + 1, e.fed = c.fed + 1, e.tx = c.tx, e.rx = c.rx,
           e.failed = c.failed, e.ack = c.ack, Cancelled(c) => Cancelled(e)
    PROVE  Delivery(e, h, w, u, d, n)
<1>0. c.queue \in Seq({"pcm", "eof"}) /\ c.fed \in Nat
  BY DEF Session
<1>1. FramesIn(e.queue) = FramesIn(c.queue) + 1 /\ FramesIn(c.queue) \in Nat /\ FramesIn(u) \in Nat
  BY <1>0, FramesInAppend, PlacesFinite
<1>2. c.tx \notin {"eof", "done"} /\ ~HasEof(c.queue) /\ ~HasEof(u)
  BY DEF Delivery, ClientInv
<1>3. ~HasEof(e.queue) /\ EofLast(e.queue)
  BY <1>0, <1>2, EofAppend
<1>4. ClientInv(e, u)
  <2>1. c.pending = FramesIn(c.queue)
    BY DEF Delivery, ClientInv
  <2>2. e.pending = FramesIn(e.queue)
    BY <1>1, <2>1
  <2>3. QED  BY <1>2, <1>3, <2>2 DEF Delivery, ClientInv
<1>5. ~Sealed(c) /\ \A m : ~Complete(c, m)
  BY DEF Sealed, Complete
<1>6. FlowInv(e, h, w, u, n)
  <2>1. Waiting(e, u) = Waiting(c, u) + 1 /\ Waiting(c, u) \in Nat
    <3> DEFINE x == FramesIn(e.queue)
               y == FramesIn(c.queue)
               z == FramesIn(u)
               v == IF c.tx = "pcm" THEN 1 ELSE 0
    <3>1. Waiting(e, u) = x + v + z /\ Waiting(c, u) = y + v + z
      BY DEF Waiting
    <3>2. x = y + 1 /\ y \in Nat /\ z \in Nat /\ v \in Nat
      BY <1>1
    <3> HIDE DEF x, y, z, v
    <3>3. QED  BY <3>1, <3>2
  <2>2. Len(w.in) \in Nat
    OBVIOUS
  <2>3. FlowInv(c, h, w, u, n)
    BY DEF Delivery
  <2>4. h.pc \in {"none", "accept", "begin"} => e.fed = Waiting(e, u) + n
    BY <1>0, <2>1, <2>3 DEF FlowInv
  <2>5. Reading(h) /\ w.alive /\ h.feeder \in {"recv", "drain"} => e.fed = Waiting(e, u) + Len(w.in) + n
    <3> DEFINE a == Waiting(c, u)
               l == Len(w.in)
    <3>1. Reading(h) /\ w.alive /\ h.feeder \in {"recv", "drain"} => c.fed = a + l + n
      BY <2>3 DEF FlowInv
    <3>2. a \in Nat /\ l \in Nat /\ Waiting(e, u) = a + 1 /\ e.fed = c.fed + 1
      BY <2>1, <2>2
    <3> HIDE DEF a, l
    <3>3. c.fed = a + l + n => e.fed = a + 1 + l + n
      BY <1>0, <3>2
    <3>4. QED  BY <3>1, <3>2, <3>3 DEF l
  <2>6. QED  BY <1>5, <2>3, <2>4, <2>5 DEF FlowInv
<1>7. AckInv(e, h, d, n)
  BY <1>5 DEF Delivery, AckInv
<1>8. QED  BY <1>4, <1>6, <1>7 DEF Delivery

(* Where the frames wait makes no difference. *)
LEMMA SameWaiting ==
    ASSUME NEW c, NEW e, NEW h, NEW w, NEW u, NEW v, NEW d, NEW n,
           Delivery(c, h, w, u, d, n), c.pc # "done", e.pc = c.pc,
           ~Sealed(c), Waiting(e, v) = Waiting(c, u), e.fed = c.fed,
           e.rx = c.rx, e.failed = c.failed, e.ack = c.ack, Cancelled(c) => Cancelled(e),
           ClientInv(e, v)
    PROVE  Delivery(e, h, w, v, d, n)
<1>1. \A m : ~Complete(c, m)
  BY DEF Complete
<1>2. FlowInv(e, h, w, v, n)
  BY <1>1 DEF Delivery, FlowInv
<1>3. AckInv(e, h, d, n)
  BY <1>1 DEF Delivery, AckInv
<1>4. QED  BY <1>2, <1>3 DEF Delivery

LEMMA KeepsTake ==
    ASSUME NEW c \in Session, NEW e, NEW h, NEW w, NEW u \in Seq({"pcm", "eof", "close"}),
           NEW d, NEW n,
           Delivery(c, h, w, u, d, n), c.pc # "done", c.tx = "get", c.queue # <<>>,
           e.pc = c.pc, e.accepting = c.accepting, e.queue = Tail(c.queue),
           e.pending = c.pending - (IF Head(c.queue) = "pcm" THEN 1 ELSE 0), e.fed = c.fed,
           e.tx = Head(c.queue), e.rx = c.rx, e.failed = c.failed, e.ack = c.ack,
           Cancelled(c) => Cancelled(e)
    PROVE  Delivery(e, h, w, u, d, n)
<1> DEFINE q == c.queue
           x == FramesIn(q)
           y == FramesIn(Tail(q))
           z == FramesIn(u)
           v == IF Head(q) = "pcm" THEN 1 ELSE 0
<1>0. q \in Seq({"pcm", "eof"}) /\ Head(q) \in {"pcm", "eof"} /\ Tail(q) \in Seq({"pcm", "eof"})
  BY Sequence DEF Session
<1>1. x = y + v /\ x \in Nat /\ y \in Nat /\ z \in Nat /\ v \in Nat
  <2>1. x = y + v
    BY <1>0, FramesInTail
  <2>2. x \in Nat /\ y \in Nat /\ z \in Nat
    BY <1>0, PlacesFinite
  <2>3. QED  BY <2>1, <2>2
<1>2. /\ HasEof(Tail(q)) => HasEof(q)
      /\ EofLast(q) => EofLast(Tail(q))
      /\ Head(q) = "eof" => HasEof(q)
      /\ EofLast(q) /\ Head(q) = "eof" => Tail(q) = <<>>
  BY <1>0, EofTail
<1>3. /\ c.pending = x /\ EofLast(q) /\ (HasEof(q) => ~c.accepting)
      /\ EofLast(u) /\ NoClose(u) /\ ~HasEof(u)
  BY DEF Delivery, ClientInv
<1>4. ClientInv(e, u)
  <2>1. e.pending = FramesIn(e.queue)
    <3>1. e.pending = x - v /\ FramesIn(e.queue) = y
      BY <1>3
    <3> HIDE DEF x, y, v
    <3>2. QED  BY <1>1, <3>1
  <2>2. e.tx \in {"eof", "done"} => e.queue = <<>> /\ ~e.accepting
    BY <1>0, <1>2, <1>3
  <2>3. EofLast(e.queue) /\ (HasEof(e.queue) => ~e.accepting)
    BY <1>2, <1>3
  <2>4. QED  BY <1>3, <2>1, <2>2, <2>3 DEF ClientInv
<1>5. Waiting(e, u) = Waiting(c, u)
  <2>1. Waiting(e, u) = y + v + z /\ Waiting(c, u) = x + 0 + z
    BY DEF Waiting
  <2> HIDE DEF x, y, z, v
  <2>2. QED  BY <1>1, <2>1
<1>6. ~Sealed(c)
  BY DEF Sealed
<1>7. QED  BY <1>4, <1>5, <1>6, SameWaiting

LEMMA KeepsPush ==
    ASSUME NEW c \in Session, NEW e, NEW h, NEW w, NEW u \in Seq({"pcm", "eof", "close"}),
           NEW d, NEW n,
           Delivery(c, h, w, u, d, n), c.pc # "done", c.tx \in {"pcm", "eof"},
           e.pc = c.pc, e.accepting = c.accepting, e.queue = c.queue,
           e.pending = c.pending, e.fed = c.fed,
           e.tx = (IF c.tx = "eof" THEN "done" ELSE "get"),
           e.rx = c.rx, e.failed = c.failed, e.ack = c.ack, Cancelled(c) => Cancelled(e)
    PROVE  Delivery(e, h, w, Append(u, c.tx), d, n)
<1> DEFINE p == Append(u, c.tx)
           x == FramesIn(c.queue)
           y == FramesIn(p)
           z == FramesIn(u)
           v == IF c.tx = "pcm" THEN 1 ELSE 0
<1>0. c.tx \in {"pcm", "eof", "close"} /\ c.queue \in Seq({"pcm", "eof"})
  BY DEF Session
<1>1. y = z + v /\ x \in Nat /\ z \in Nat /\ v \in Nat
  <2>1. y = z + v
    BY <1>0, FramesInAppend
  <2>2. x \in Nat /\ z \in Nat
    BY <1>0, PlacesFinite
  <2>3. QED  BY <2>1, <2>2
<1>2. ~HasEof(u) /\ NoClose(u) /\ (c.tx = "eof" => c.queue = <<>> /\ ~c.accepting)
  BY DEF Delivery, ClientInv
<1>3. EofLast(p) /\ NoClose(p) /\ (HasEof(p) => c.tx = "eof")
  BY <1>0, <1>2, EofAppend
<1> HIDE DEF p
<1>4. ClientInv(e, p)
  BY <1>2, <1>3 DEF Delivery, ClientInv
<1>5. Waiting(e, p) = Waiting(c, u)
  <2>1. Waiting(e, p) = x + 0 + y /\ Waiting(c, u) = x + v + z
    BY DEF Waiting
  <2> HIDE DEF x, y, z, v
  <2>2. QED  BY <1>1, <2>1
<1>6. ~Sealed(c)
  BY DEF Sealed
<1>7. Delivery(e, h, w, p, d, n)
  BY <1>4, <1>5, <1>6, SameWaiting
<1>8. QED  BY <1>7 DEF p

(* The server is gone while a frame waits for the socket. *)
LEMMA KeepsStuck ==
    ASSUME NEW c, NEW e, NEW h, NEW w, NEW u, NEW d, NEW n,
           Delivery(c, h, w, u, d, n), c.pc # "done", c.tx \in {"pcm", "eof"}, h.pc = "gone",
           e.pc = c.pc, e.accepting = c.accepting, e.queue = c.queue,
           e.pending = c.pending, e.tx = "failed",
           e.rx = c.rx, e.failed = c.failed, e.ack = c.ack, Cancelled(c) => Cancelled(e)
    PROVE  Delivery(e, h, w, u, d, n)
<1>1. ClientInv(e, u)
  BY DEF Delivery, ClientInv
<1>2. FlowInv(e, h, w, u, n)
  BY DEF FlowInv, Reading, HasRead
<1>3. \A m : ~Complete(c, m)
  BY DEF Complete, Sealed
<1>4. AckInv(e, h, d, n)
  BY <1>3 DEF Delivery, AckInv
<1>5. QED  BY <1>1, <1>2, <1>4 DEF Delivery

(* The end of the input goes behind the audio. *)
LEMMA KeepsEnd ==
    ASSUME NEW c \in Session, NEW e, NEW h, NEW w, NEW u, NEW d, NEW n,
           Delivery(c, h, w, u, d, n), c.pc # "done", c.accepting,
           e.pc = c.pc, ~e.accepting, e.queue = Append(c.queue, "eof"),
           e.pending = c.pending, e.fed = c.fed, e.tx = c.tx,
           e.rx = c.rx, e.failed = c.failed, e.ack = c.ack, Cancelled(c) => Cancelled(e)
    PROVE  Delivery(e, h, w, u, d, n)
<1>0. c.queue \in Seq({"pcm", "eof"}) /\ "eof" \in {"pcm", "eof"}
  BY DEF Session
<1>1. FramesIn(e.queue) = FramesIn(c.queue)
  <2>1. FramesIn(e.queue) = FramesIn(c.queue) + 0
    BY <1>0, FramesInAppend
  <2>2. FramesIn(c.queue) \in Nat
    BY <1>0, PlacesFinite
  <2>3. QED  BY <2>1, <2>2
<1>2. c.tx \notin {"eof", "done"} /\ ~HasEof(c.queue)
  BY DEF Delivery, ClientInv
<1>3. EofLast(e.queue)
  BY <1>0, <1>2, EofAppend
<1>4. ClientInv(e, u)
  BY <1>1, <1>2, <1>3 DEF Delivery, ClientInv
<1>5. Waiting(e, u) = Waiting(c, u) /\ ~Sealed(c)
  BY <1>1 DEF Waiting, Sealed
<1>6. QED  BY <1>4, <1>5, SameWaiting

(* A client that closes without a failure has got its acknowledgement. *)
LEMMA KeepsClose ==
    ASSUME NEW c, NEW e, NEW h, NEW w, NEW u, NEW v, NEW d, NEW n,
           Delivery(c, h, w, u, d, n), c.pc = "closing", e.pc = "done",
           ~e.accepting, e.queue = <<>>, e.pending = 0, e.fed = c.fed, e.rx = "run",
           e.failed = c.failed, e.ack = c.ack, Cancelled(c) => Cancelled(e)
    PROVE  Delivery(e, h, w, v, <<>>, n)
<1>1. ClientInv(e, v)
  BY FramesInEmpty DEF ClientInv
<1>2. FlowInv(e, h, w, v, n)
  BY DEF FlowInv
<1>3. AckInv(e, h, <<>>, n)
  BY EmptyQueues DEF Delivery, AckInv, Complete
<1>4. QED  BY <1>1, <1>2, <1>3 DEF Delivery

-----------------------------------------------------------------------------
(* The client's steps *)

(* A client's step is about its own session, and not about the worker. *)
LEMMA ClientAside ==
    ASSUME TypeOK, ServerInv, NEW s \in Sessions, Client(s)
    PROVE  /\ worker' = worker /\ heard' = heard
           /\ \A t \in Sessions : t # s => /\ cli'[t] = cli[t] /\ srv'[t] = srv[t]
                                           /\ up'[t] = up[t] /\ down'[t] = down[t]
           /\ srv' = srv \/ (srv[s].pc = "none" /\ srv'[s].pc = "accept")
<1>0. /\ cli \in [Sessions -> Session] /\ srv \in [Sessions -> Connection]
      /\ up \in [Sessions -> Seq({"pcm", "eof", "close"})] /\ down \in [Sessions -> Seq(Reply)]
  BY DEF TypeOK
<1>1. worker' = worker /\ heard' = heard
  BY DEF Client, Feed, Connect, ReadConfig, ClientEnds, CloseSocket, Take, Push, Receive, Finish,
         FinishReturns, FinishTimeout, FinishCancelled
<1>2. \A t \in Sessions : t # s => cli'[t] = cli[t]
  BY <1>0 DEF Client, Feed, Connect, ReadConfig, ClientEnds, CloseSocket, Take, Push, Receive,
              Finish, FinishReturns, FinishTimeout, FinishCancelled
<1>3. \A t \in Sessions : t # s => up'[t] = up[t] /\ down'[t] = down[t]
  BY <1>0 DEF Client, Feed, Connect, ReadConfig, ClientEnds, CloseSocket, Take, Push, Receive,
              Finish, FinishReturns, FinishTimeout, FinishCancelled
<1>4. /\ \A t \in Sessions : t # s => srv'[t] = srv[t]
      /\ srv' = srv \/ (srv[s].pc = "none" /\ srv'[s].pc = "accept")
  <2>1. CASE Connect(s)
    <3>1. srv' = srv \/ srv' = [srv EXCEPT ![s].pc = "accept"]
      BY <2>1, Zenon DEF Connect
    <3>2. srv[s].pc = "none"
      BY <2>1 DEF Connect, ServerInv
    <3>3. QED  BY <1>0, <3>1, <3>2 DEF Connection
  <2>2. CASE ~Connect(s)
    BY <2>2 DEF Client, Feed, ReadConfig, ClientEnds, CloseSocket, Take, Push, Receive, Finish,
                FinishReturns, FinishTimeout, FinishCancelled, serverVars
  <2>3. QED  BY <2>1, <2>2
<1>5. QED  BY <1>1, <1>2, <1>3, <1>4

(* A client that leaves. *)
LEMMA LeavesFields ==
    ASSUME TypeOK, NEW s \in Sessions, NEW f \in BOOLEAN
    PROVE  LET e == Leaves(s, f) IN
           /\ e.pc = "closing" /\ (f => e.failed) /\ e.accepting = cli[s].accepting
           /\ e.queue = cli[s].queue /\ e.pending = cli[s].pending /\ e.fed = cli[s].fed
           /\ e.tx = cli[s].tx /\ e.rx = cli[s].rx /\ e.ack = cli[s].ack
BY DEF Leaves, Session, TypeOK

LEMMA FeedDelivery ==
    ASSUME TypeOK, Deliveries, NEW s \in Sessions, Feed(s)
    PROVE  Delivery(cli'[s], srv'[s], worker', up'[s], down'[s], heard'[s])
<1> DEFINE c == cli[s]
           e == cli'[s]
<1>0. /\ c \in Session /\ cli \in [Sessions -> Session] /\ c.pc # "done" /\ c.accepting
      /\ UNCHANGED <<srv, worker, up, down, heard>>
  BY DEF TypeOK, Feed, serverVars
<1>1. Delivery(c, srv[s], worker, up[s], down[s], heard[s])
  BY DEF Deliveries
<1>2. CASE cli' = [cli EXCEPT ![s] = [Leaves(s, TRUE) EXCEPT !.accepting = FALSE]]
  <2>1. e = [[c EXCEPT !.pc = "closing", !.failed = @ \/ TRUE] EXCEPT !.accepting = FALSE]
    BY <1>0, <1>2 DEF Leaves
  <2>2. /\ e.pc = "closing" /\ e.failed /\ ~e.accepting /\ e.queue = c.queue
        /\ e.pending = c.pending /\ e.fed = c.fed /\ e.tx = c.tx /\ e.rx = c.rx /\ e.ack = c.ack
    BY <1>0, <2>1 DEF Session
  <2>3. c.rx = "done" => c.ack
    BY <1>1 DEF Delivery, AckInv
  <2> HIDE DEF e
  <2>4. Delivery(e, srv[s], worker, up[s], down[s], heard[s])
    BY <1>0, <1>1, <2>2, <2>3, Keeps
  <2>5. QED  BY <1>0, <2>4 DEF e
<1>3. CASE cli' = [cli EXCEPT ![s] = [c EXCEPT !.fed = @ + 1, !.pending = @ + 1,
                                              !.queue = Append(@, "pcm")]]
  <2>1. e = [c EXCEPT !.fed = @ + 1, !.pending = @ + 1, !.queue = Append(@, "pcm")]
    BY <1>0, <1>3
  <2>2. /\ e.pc = c.pc /\ e.accepting = c.accepting /\ e.queue = Append(c.queue, "pcm")
        /\ e.pending = c.pending + 1 /\ e.fed = c.fed + 1 /\ e.tx = c.tx /\ e.rx = c.rx
        /\ e.failed = c.failed /\ e.ack = c.ack /\ (Cancelled(c) => Cancelled(e))
    BY <1>0, <2>1 DEF Session, Cancelled
  <2>3. /\ worker.in \in Seq(Command) /\ heard[s] \in Nat
        /\ up[s] \in Seq({"pcm", "eof", "close"})
    BY DEF TypeOK, Worker
  <2> HIDE DEF e
  <2>4. Delivery(e, srv[s], worker, up[s], down[s], heard[s])
    BY <1>0, <1>1, <2>2, <2>3, KeepsFeed
  <2>5. QED  BY <1>0, <2>4 DEF e
<1>4. QED  BY <1>2, <1>3 DEF Feed

(* Connecting, the config, and the ends of a client. *)
LEMMA LeaveDelivery ==
    ASSUME TypeOK, ServerInv, Deliveries, NEW s \in Sessions,
           Connect(s) \/ ReadConfig(s) \/ ClientEnds(s) \/ FinishTimeout(s) \/ FinishCancelled(s)
    PROVE  Delivery(cli'[s], srv'[s], worker', up'[s], down'[s], heard'[s])
<1> DEFINE c == cli[s]
           e == cli'[s]
<1>0. /\ c \in Session /\ cli \in [Sessions -> Session] /\ c.pc # "done"
      /\ UNCHANGED <<worker, up, heard>>
  BY DEF TypeOK, Connect, ReadConfig, ClientEnds, FinishTimeout, FinishCancelled
<1>1. Delivery(c, srv[s], worker, up[s], down[s], heard[s])
  BY DEF Deliveries
<1>2. srv'[s] = srv[s] \/ (srv[s].pc = "none" /\ srv'[s].pc = "accept")
  BY ClientAside DEF Client
<1>3. Acked(down'[s]) => Acked(down[s])
  <2>1. down' = down \/ (down[s] # <<>> /\ down' = [down EXCEPT ![s] = Tail(@)])
    BY DEF Connect, ReadConfig, ClientEnds, FinishTimeout, FinishCancelled
  <2>2. down[s] \in Seq(Reply) /\ down \in [Sessions -> Seq(Reply)]
    BY DEF TypeOK
  <2>3. down[s] # <<>> => (Acked(Tail(down[s])) => Acked(down[s]))
    BY <2>2, AckedTail
  <2>4. down'[s] = down[s] \/ (down[s] # <<>> /\ down'[s] = Tail(down[s]))
    BY <2>1, <2>2
  <2>5. QED  BY <2>3, <2>4
<1>4. c.rx = "done" => c.ack
  BY <1>1 DEF Delivery, AckInv
<1>5. /\ e.pc # "done" /\ e.accepting = c.accepting /\ e.queue = c.queue
      /\ e.pending = c.pending /\ e.fed = c.fed /\ e.tx = c.tx /\ e.rx = c.rx /\ e.ack = c.ack
      /\ e.pc = "closing" /\ ~e.failed /\ ~Cancelled(e) => e.ack
  <2>1. CASE e = Leaves(s, TRUE)
    BY <2>1, LeavesFields
  <2>2. CASE e = [c EXCEPT !.pc = "config"] \/ e = [c EXCEPT !.pc = "run"]
    BY <1>0, <2>2 DEF Session
  <2>3. CASE ClientEnds(s)
    <3> DEFINE f == c.tx # "done" \/ c.rx # "done"
    <3>1. e = Leaves(s, f) /\ f \in BOOLEAN
      BY <1>0, <2>3 DEF ClientEnds
    <3>2. ~f => c.ack
      BY <1>4
    <3> HIDE DEF f
    <3>3. QED  BY <3>1, <3>2, LeavesFields
  <2>4. CASE Connect(s)
    <3>1. cli' = [cli EXCEPT ![s].pc = "config"] \/ cli' = [cli EXCEPT ![s] = Leaves(s, TRUE)]
      BY <2>4, Zenon DEF Connect
    <3>2. e = [c EXCEPT !.pc = "config"] \/ e = Leaves(s, TRUE)
      BY <1>0, <3>1
    <3>3. QED  BY <2>1, <2>2, <3>2
  <2>5. CASE ReadConfig(s)
    <3>1. \/ cli' = [cli EXCEPT ![s] = [@ EXCEPT !.pc = "run"]]
          \/ cli' = [cli EXCEPT ![s] = Leaves(s, TRUE)]
      BY <2>5 DEF ReadConfig
    <3>2. e = [c EXCEPT !.pc = "run"] \/ e = Leaves(s, TRUE)
      BY <1>0, <3>1
    <3>3. QED  BY <2>1, <2>2, <3>2
  <2>6. CASE FinishTimeout(s)
    <3>1. e = Leaves(s, TRUE)
      BY <1>0, <2>6 DEF FinishTimeout
    <3>2. QED  BY <2>1, <3>1
  <2>7. CASE FinishCancelled(s)
    <3> DEFINE l == Leaves(s, FALSE)
    <3>1. e = [l EXCEPT !.fin = "cancelled"]
      BY <1>0, <2>7 DEF FinishCancelled
    <3>2. l \in Session
      BY <1>0 DEF Leaves, Session
    <3>3. /\ e.pc = l.pc /\ e.accepting = l.accepting /\ e.queue = l.queue
          /\ e.pending = l.pending /\ e.fed = l.fed /\ e.tx = l.tx /\ e.rx = l.rx
          /\ e.ack = l.ack /\ e.fin = "cancelled"
      BY <3>1, <3>2 DEF Session
    <3>4. Cancelled(e)
      BY <3>3 DEF Cancelled
    <3> HIDE DEF l, e
    <3>5. QED  BY <3>3, <3>4, LeavesFields DEF l
  <2>8. QED  BY <2>3, <2>4, <2>5, <2>6, <2>7
<1> HIDE DEF c, e
<1>6. Delivery(e, srv'[s], worker, up[s], down'[s], heard[s])
  BY <1>0, <1>1, <1>2, <1>3, <1>4, <1>5, Keeps
<1>7. QED  BY <1>0, <1>6 DEF e

LEMMA ReceiveDelivery ==
    ASSUME TypeOK, Deliveries, NEW s \in Sessions, Receive(s)
    PROVE  Delivery(cli'[s], srv'[s], worker', up'[s], down'[s], heard'[s])
<1> DEFINE c == cli[s]
           e == cli'[s]
           d == down[s]
<1>0. /\ c \in Session /\ cli \in [Sessions -> Session] /\ c.pc = "run" /\ c.rx = "run"
      /\ d \in Seq(Reply) /\ down \in [Sessions -> Seq(Reply)] /\ d # <<>>
      /\ UNCHANGED <<srv, worker, up, heard>> /\ down' = [down EXCEPT ![s] = Tail(@)]
  BY DEF TypeOK, Receive, serverVars
<1>1. Delivery(c, srv[s], worker, up[s], d, heard[s])
  BY DEF Deliveries
<1>2. down'[s] = Tail(d) /\ (Acked(Tail(d)) => Acked(d)) /\ (Head(d).kind = "ready_to_stop" => Acked(d))
  BY <1>0, AckedTail
<1>3. /\ e.pc = "run" /\ e.accepting = c.accepting /\ e.queue = c.queue
      /\ e.pending = c.pending /\ e.fed = c.fed /\ e.tx = c.tx
      /\ e.rx = "done" => e.ack
      /\ e.ack => c.ack \/ Head(d).kind = "ready_to_stop"
  <2>1. CASE Head(d).kind = "ready_to_stop"
    <3>1. e = [c EXCEPT !.ack = TRUE, !.rx = "done"]
      BY <1>0, <2>1 DEF Receive
    <3>2. QED  BY <1>0, <2>1, <3>1 DEF Session
  <2>2. CASE Head(d).kind \in {"error", "close"}
    <3>1. e = [c EXCEPT !.rx = "failed"]
      BY <1>0, <2>2 DEF Receive
    <3>2. QED  BY <1>0, <3>1 DEF Session
  <2>3. CASE Head(d).kind \notin {"ready_to_stop", "error", "close"}
    <3>1. e = c
      BY <1>0, <2>3 DEF Receive
    <3>2. QED  BY <1>0, <3>1
  <2>4. QED  BY <2>1, <2>2, <2>3
<1> HIDE DEF c, e, d
<1>4. Delivery(e, srv[s], worker, up[s], down'[s], heard[s])
  BY <1>0, <1>1, <1>2, <1>3, Keeps
<1>5. QED  BY <1>0, <1>4 DEF e

LEMMA SendDelivery ==
    ASSUME TypeOK, Deliveries, NEW s \in Sessions, Take(s) \/ Push(s)
    PROVE  Delivery(cli'[s], srv'[s], worker', up'[s], down'[s], heard'[s])
<1> DEFINE c == cli[s]
           e == cli'[s]
           u == up[s]
<1>0. /\ c \in Session /\ cli \in [Sessions -> Session] /\ c.pc = "run"
      /\ u \in Seq({"pcm", "eof", "close"}) /\ up \in [Sessions -> Seq({"pcm", "eof", "close"})]
      /\ UNCHANGED <<srv, worker, down, heard>>
  BY DEF TypeOK, Take, Push, serverVars
<1>1. Delivery(c, srv[s], worker, u, down[s], heard[s])
  BY DEF Deliveries
<1>2. CASE Take(s)
  <2>1. e = Taken(c) /\ c.tx = "get" /\ c.queue # <<>> /\ up' = up
    BY <1>0, <1>2 DEF Take
  <2>2. /\ e.pc = c.pc /\ e.accepting = c.accepting /\ e.queue = Tail(c.queue)
        /\ e.fed = c.fed /\ e.tx = Head(c.queue) /\ e.rx = c.rx
        /\ e.failed = c.failed /\ e.ack = c.ack /\ (Cancelled(c) => Cancelled(e))
    BY <1>0, <2>1 DEF Taken, Session, Cancelled
  <2>3. e.pending = c.pending - (IF Head(c.queue) = "pcm" THEN 1 ELSE 0)
    BY <1>0, <2>1 DEF Taken, Session
  <2> HIDE DEF c, e, u
  <2>4. Delivery(e, srv[s], worker, u, down[s], heard[s])
    BY <1>0, <1>1, <2>1, <2>2, <2>3, KeepsTake
  <2>5. QED  BY <1>0, <2>1, <2>4 DEF e, u
<1>3. CASE Push(s) /\ srv[s].pc = "gone"
  <2>1. e = [c EXCEPT !.tx = "failed"] /\ c.tx \in {"pcm", "eof"} /\ up' = up
    BY <1>0, <1>3 DEF Push
  <2>2. /\ e.pc = c.pc /\ e.accepting = c.accepting /\ e.queue = c.queue
        /\ e.pending = c.pending /\ e.tx = "failed" /\ e.rx = c.rx
        /\ e.failed = c.failed /\ e.ack = c.ack /\ (Cancelled(c) => Cancelled(e))
    BY <1>0, <2>1 DEF Session, Cancelled
  <2> HIDE DEF c, e, u
  <2>3. Delivery(e, srv[s], worker, u, down[s], heard[s])
    BY <1>0, <1>1, <1>3, <2>1, <2>2, KeepsStuck
  <2>4. QED  BY <1>0, <2>1, <2>3 DEF e, u
<1>4. CASE Push(s) /\ srv[s].pc # "gone"
  <2>1. /\ e = [c EXCEPT !.tx = IF @ = "eof" THEN "done" ELSE "get"] /\ c.tx \in {"pcm", "eof"}
        /\ up'[s] = Append(u, c.tx)
    BY <1>0, <1>4 DEF Push
  <2>2. /\ e.pc = c.pc /\ e.accepting = c.accepting /\ e.queue = c.queue
        /\ e.pending = c.pending /\ e.fed = c.fed /\ e.rx = c.rx
        /\ e.tx = (IF c.tx = "eof" THEN "done" ELSE "get")
        /\ e.failed = c.failed /\ e.ack = c.ack /\ (Cancelled(c) => Cancelled(e))
    BY <1>0, <2>1 DEF Session, Cancelled
  <2> HIDE DEF c, e, u
  <2>3. Delivery(e, srv[s], worker, Append(u, c.tx), down[s], heard[s])
    BY <1>0, <1>1, <2>1, <2>2, KeepsPush
  <2>4. QED  BY <1>0, <2>1, <2>3 DEF e
<1>5. QED  BY <1>2, <1>3, <1>4

LEMMA EndDelivery ==
    ASSUME TypeOK, Deliveries, NEW s \in Sessions, Finish(s) \/ FinishReturns(s) \/ CloseSocket(s)
    PROVE  Delivery(cli'[s], srv'[s], worker', up'[s], down'[s], heard'[s])
<1> DEFINE c == cli[s]
           e == cli'[s]
<1>0. /\ c \in Session /\ cli \in [Sessions -> Session]
      /\ UNCHANGED <<srv, worker, heard>>
  BY DEF TypeOK, Finish, FinishReturns, CloseSocket, serverVars
<1>1. Delivery(c, srv[s], worker, up[s], down[s], heard[s])
  BY DEF Deliveries
<1>2. CASE Finish(s) /\ c.accepting
  <2>1. e = [Ended(c) EXCEPT !.fin = "wait"] /\ up' = up /\ down' = down
    BY <1>0, <1>2 DEF Finish
  <2>2. e = [[c EXCEPT !.accepting = FALSE, !.queue = Append(@, "eof")] EXCEPT !.fin = "wait"]
    BY <1>2, <2>1 DEF Ended
  <2>3. /\ e.pc = c.pc /\ ~e.accepting /\ e.queue = Append(c.queue, "eof")
        /\ e.pending = c.pending /\ e.fed = c.fed /\ e.tx = c.tx /\ e.rx = c.rx
        /\ e.failed = c.failed /\ e.ack = c.ack /\ (Cancelled(c) => Cancelled(e))
    BY <1>0, <1>2, <2>2 DEF Session, Cancelled, Finish
  <2>4. c.pc # "done"
    BY <1>1, <1>2 DEF Delivery, ClientInv
  <2> HIDE DEF c, e
  <2>5. Delivery(e, srv[s], worker, up[s], down[s], heard[s])
    BY <1>0, <1>1, <1>2, <2>3, <2>4, KeepsEnd
  <2>6. QED  BY <1>0, <2>1, <2>5 DEF e
<1>3. CASE (Finish(s) /\ ~c.accepting) \/ FinishReturns(s)
  <2>1. /\ up' = up /\ down' = down
        /\ \E x : e = [c EXCEPT !.fin = x] /\ (c.fin \in {"cancelled", "raised"} => x = "raised")
    BY <1>0, <1>3 DEF Finish, FinishReturns, Ended
  <2>2. /\ e.pc = c.pc /\ e.accepting = c.accepting /\ e.queue = c.queue
        /\ e.pending = c.pending /\ e.fed = c.fed /\ e.tx = c.tx /\ e.rx = c.rx
        /\ e.failed = c.failed /\ e.ack = c.ack /\ (Cancelled(c) => Cancelled(e))
    BY <1>0, <2>1 DEF Session, Cancelled
  <2>3. (c.rx = "done" => c.ack) /\ (c.pc = "closing" /\ ~c.failed /\ ~Cancelled(c) => c.ack)
    BY <1>1 DEF Delivery, AckInv
  <2> HIDE DEF c, e
  <2>4. CASE c.pc = "done"
    <3>1. Delivery(e, srv[s], worker, up[s], down[s], heard[s])
      BY <1>0, <1>1, <2>2, <2>4, KeepsDone
    <3>2. QED  BY <1>0, <2>1, <3>1 DEF e
  <2>5. CASE c.pc # "done"
    <3>1. Delivery(e, srv[s], worker, up[s], down[s], heard[s])
      BY <1>0, <1>1, <2>2, <2>3, <2>5, Keeps
    <3>2. QED  BY <1>0, <2>1, <3>1 DEF e
  <2>6. QED  BY <2>4, <2>5
<1>4. CASE CloseSocket(s)
  <2>1. /\ e = [c EXCEPT !.pc = "done", !.accepting = FALSE, !.queue = <<>>,
                         !.pending = 0, !.tx = "get", !.rx = "run"]
        /\ c.pc = "closing"
    BY <1>0, <1>4 DEF CloseSocket
  <2>2. down'[s] = <<>>
    BY <1>4 DEF CloseSocket, TypeOK
  <2>3. /\ e.pc = "done" /\ ~e.accepting /\ e.queue = <<>> /\ e.pending = 0
        /\ e.fed = c.fed /\ e.rx = "run" /\ e.failed = c.failed /\ e.ack = c.ack
        /\ Cancelled(c) => Cancelled(e)
    BY <1>0, <2>1 DEF Session, Cancelled
  <2> HIDE DEF c, e
  <2>4. Delivery(e, srv[s], worker, up'[s], <<>>, heard[s])
    BY <1>1, <2>1, <2>3, KeepsClose
  <2>5. QED  BY <1>0, <2>2, <2>4 DEF e
<1>5. QED  BY <1>2, <1>3, <1>4

(* The lines and the input of the worker are not the client's. *)
LEMMA AsideLines ==
    ASSUME LinesInv, StreamInv, worker' = worker,
           \A t \in Sessions : \/ srv'[t] = srv[t]
                               \/ /\ srv'[t].pc \in {"none", "accept", "gone"}
                                  /\ srv[t].pc \in {"none", "accept", "gone"}
    PROVE  LinesInv' /\ StreamInv'
<1>1. active' = active /\ Engaged' = Engaged
  BY DEF active, Engaged, InSession
<1>2. LinesInv'
  BY <1>1 DEF LinesInv, Reading, HasRead
<1>3. StreamInv'
  BY <1>1 DEF StreamInv
<1>4. QED  BY <1>2, <1>3

LEMMA ClientStepDelivery ==
    ASSUME TypeOK, ServerInv, DeliveryInv, NEW s \in Sessions, Client(s)
    PROVE  DeliveryInv'
<1>1. Delivery(cli'[s], srv'[s], worker', up'[s], down'[s], heard'[s])
  BY FeedDelivery, LeaveDelivery, ReceiveDelivery, SendDelivery, EndDelivery
     DEF Client, DeliveryInv
<1>2. /\ worker' = worker /\ heard' = heard
      /\ \A t \in Sessions : t # s => /\ cli'[t] = cli[t] /\ srv'[t] = srv[t]
                                      /\ up'[t] = up[t] /\ down'[t] = down[t]
      /\ srv' = srv \/ (srv[s].pc = "none" /\ srv'[s].pc = "accept")
  BY ClientAside
<1>3. Deliveries'
  BY <1>1, <1>2, OwnStep DEF DeliveryInv
<1>4. LinesInv' /\ StreamInv'
  BY <1>2, AsideLines DEF DeliveryInv
<1>5. QED  BY <1>3, <1>4 DEF DeliveryInv

-----------------------------------------------------------------------------
(* The handler's steps *)

(* A message other than the acknowledgement is none. *)
LEMMA SentAcked ==
    ASSUME TypeOK, NEW s \in Sessions, NEW m \in Seq(Reply)
    PROVE  /\ \A t \in Sessions : t # s => Sent(s, m)[t] = down[t]
           /\ cli[s].pc = "done" => Sent(s, m)[s] = down[s]
           /\ ~Acked(m) => (Acked(Sent(s, m)[s]) => Acked(down[s]))
<1>1. down \in [Sessions -> Seq(Reply)] /\ down[s] \in Seq(Reply)
  BY DEF TypeOK
<1>2. Sent(s, m)[s] = down[s] \/ Sent(s, m)[s] = down[s] \o m
  BY <1>1 DEF Sent
<1>3. ~Acked(m) => (Acked(down[s] \o m) => Acked(down[s]))
  BY <1>1, AckedConcat
<1>4. QED  BY <1>1, <1>2, <1>3 DEF Sent

LEMMA NotAcked ==
    ASSUME NEW s \in Sessions
    PROVE  /\ <<Message("close", s)>> \in Seq(Reply) /\ ~Acked(<<Message("close", s)>>)
           /\ <<Message("config", s)>> \in Seq(Reply) /\ ~Acked(<<Message("config", s)>>)
           /\ <<Message("error", s), Message("close", s)>> \in Seq(Reply)
           /\ ~Acked(<<Message("error", s), Message("close", s)>>)
           /\ <<Message("ready_to_stop", s), Message("close", s)>> \in Seq(Reply)
<1>1. \A k \in {"config", "ready_to_stop", "error", "close"} : Message(k, s) \in Reply
  BY MessageTypes
<1>2. /\ <<Message("close", s)>> \in Seq(Reply) /\ <<Message("config", s)>> \in Seq(Reply)
      /\ <<Message("error", s), Message("close", s)>> \in Seq(Reply)
      /\ <<Message("ready_to_stop", s), Message("close", s)>> \in Seq(Reply)
  BY <1>1, Sequence
<1>3. \A k : Message(k, s).kind = k
  BY DEF Message
<1>4. ~Acked(<<Message("close", s)>>) /\ ~Acked(<<Message("config", s)>>)
  BY <1>3 DEF Acked
<1>5. ~Acked(<<Message("error", s), Message("close", s)>>)
  BY <1>3 DEF Acked
<1>6. QED  BY <1>2, <1>4, <1>5

(* What the last message is. *)
LEMMA ReleaseDown ==
    ASSUME TypeOK, NEW s \in Sessions, Release(s)
    PROVE  /\ \A t \in Sessions : t # s => down'[t] = down[t] /\ up'[t] = up[t]
           /\ cli[s].pc = "done" => down'[s] = down[s]
           /\ srv[s].outcome # "passed" => (Acked(down'[s]) => Acked(down[s]))
           /\ up'[s] = <<>>
<1> DEFINE m == <<Message(IF srv[s].outcome = "passed" THEN "ready_to_stop" ELSE "error", s),
                  Message("close", s)>>
<1>1. down' = Sent(s, m)
  BY DEF Release
<1>2. m \in Seq(Reply) /\ (srv[s].outcome # "passed" => ~Acked(m))
  BY NotAcked
<1> HIDE DEF m
<1>3. /\ \A t \in Sessions : t # s => down'[t] = down[t]
      /\ cli[s].pc = "done" => down'[s] = down[s]
      /\ srv[s].outcome # "passed" => (Acked(down'[s]) => Acked(down[s]))
  BY <1>1, <1>2, SentAcked
<1>4. up'[s] = <<>> /\ \A t \in Sessions : t # s => up'[t] = up[t]
  BY DEF Release, TypeOK
<1>5. QED  BY <1>3, <1>4

(* A handler's step is about its own session, and the worker works for it. *)
LEMMA HandlerAside ==
    ASSUME TypeOK, ServerInv, NEW s \in Sessions, Handler(s) \/ HandlerRaises(s)
    PROVE  /\ cli' = cli /\ heard' = heard
           /\ \A t \in Sessions : t # s => /\ srv'[t] = srv[t]
                                           /\ up'[t] = up[t] /\ down'[t] = down[t]
           /\ worker' = worker \/ \A t \in Sessions : t # s => srv[t].pc \notin InSession
<1>0. /\ srv \in [Sessions -> Connection]
      /\ up \in [Sessions -> Seq({"pcm", "eof", "close"})] /\ down \in [Sessions -> Seq(Reply)]
  BY DEF TypeOK
<1>1. cli' = cli /\ heard' = heard
  BY DEF Handler, Admit, BeginSession, Results, FeedWorker, Drain, Await, Cleanup, Reap,
         HandlerRaises, clientVars
<1>2. ASSUME srv[s].pc \in InSession PROVE \A t \in Sessions : t # s => srv[t].pc \notin InSession
  BY <1>2 DEF ServerInv
<1>3. CASE Admit(s)
  <2>1. /\ up' = up
        /\ (down' = down /\ Free) \/ (down' = Sent(s, <<Message("close", s)>>) /\ worker' = worker)
    BY <1>3 DEF Admit
  <2>2. \A t \in Sessions : t # s => down'[t] = down[t]
    BY <1>0, <2>1 DEF Sent
  <2>3. \A t \in Sessions : t # s => srv'[t] = srv[t]
    BY <1>0, <1>3 DEF Admit
  <2>4. Free => \A t \in Sessions : srv[t].pc \notin InSession
    BY DEF Free, active
  <2>5. QED  BY <1>1, <2>1, <2>2, <2>3, <2>4
<1>4. CASE BeginSession(s)
  <2>1. /\ up' = up /\ srv[s].pc \in InSession
        /\ down' = down \/ down' = Sent(s, <<Message("config", s)>>)
    BY <1>4 DEF BeginSession, InSession
  <2>2. \A t \in Sessions : t # s => down'[t] = down[t]
    BY <1>0, <2>1 DEF Sent
  <2>3. \A t \in Sessions : t # s => srv'[t] = srv[t]
    BY <1>4, SessionMoves
  <2>4. QED  BY <1>1, <1>2, <2>1, <2>2, <2>3
<1>5. CASE Results(s)
  <2>1. up' = up /\ srv[s].pc \in InSession
    BY <1>5 DEF Results, InSession
  <2>2. \A t \in Sessions : t # s => down'[t] = down[t]
    <3>1. down' = down \/ down' = Sent(s, <<Line>>)
      BY <1>5 DEF Results
    <3>2. QED  BY <1>0, <3>1 DEF Sent
  <2>3. \A t \in Sessions : t # s => srv'[t] = srv[t]
    BY <1>5, SessionMoves
  <2>4. QED  BY <1>1, <1>2, <2>1, <2>2, <2>3
<1>6. CASE FeedWorker(s)
  <2>1. down' = down /\ srv[s].pc \in InSession /\ \A t \in Sessions : t # s => up'[t] = up[t]
    BY <1>0, <1>6 DEF FeedWorker, InSession
  <2>2. \A t \in Sessions : t # s => srv'[t] = srv[t]
    BY <1>6, SessionMoves
  <2>3. QED  BY <1>1, <1>2, <2>1, <2>2
<1>7. CASE \/ Drain(s) \/ Await(s) \/ HandlerRaises(s) \/ (Cleanup(s) /\ srv[s].outcome # "passed")
  <2>1. down' = down /\ up' = up /\ worker' = worker
    BY <1>7 DEF Drain, Await, HandlerRaises, Cleanup, clientVars
  <2>2. \A t \in Sessions : t # s => srv'[t] = srv[t]
    BY <1>7, SessionMoves
  <2>3. QED  BY <1>1, <2>1, <2>2
<1>8. CASE Reap(s) \/ (Cleanup(s) /\ srv[s].outcome = "passed")
  <2>1. Release(s) /\ srv[s].pc \in InSession
    BY <1>8 DEF Reap, Cleanup, InSession
  <2>2. QED  BY <1>1, <1>2, <2>1, ReleaseMoves, ReleaseDown
<1>9. QED  BY <1>3, <1>4, <1>5, <1>6, <1>7, <1>8 DEF Handler

(* A handler that fails, or is gone, promises nothing. *)
LEMMA Fails ==
    ASSUME NEW c, NEW h, NEW k, NEW w, NEW x, NEW u, NEW v, NEW d, NEW g, NEW n,
           Delivery(c, h, w, u, d, n), h.pc # "gone",
           k.pc = "gone" \/ (k.pc \in {"cleanup", "reap"} /\ k.outcome # "passed"),
           v = u \/ v = <<>>, Acked(g) => Acked(d)
    PROVE  Delivery(c, k, x, v, g, n)
<1>1. ClientInv(c, v)
  BY EmptyQueues DEF Delivery, ClientInv
<1>2. FlowInv(c, k, x, v, n)
  BY DEF FlowInv, Reading, HasRead
<1>3. AckInv(c, k, g, n)
  BY DEF Delivery, AckInv
<1>4. QED  BY <1>1, <1>2, <1>3 DEF Delivery

(* The lines of the worker after a step of session s. *)
LEMMA LinesStep ==
    ASSUME LinesInv, NEW s \in Sessions, \A t \in Sessions : t # s => srv'[t] = srv[t],
           HasFinished(worker'.out) => HasFinished(worker.out),
           OneFinished(worker.out) => OneFinished(worker'.out),
           srv'[s].pc = "begin" \/ HasRead(srv'[s]) => ~HasFinished(worker'.out),
           Reading(srv'[s]) => OneFinished(worker'.out),
           ~active' => ~HasFinished(worker'.out)
    PROVE  LinesInv'
<1>1. ASSUME NEW t \in Sessions
      PROVE  /\ srv'[t].pc = "begin" \/ HasRead(srv'[t]) => ~HasFinished(worker'.out)
             /\ Reading(srv'[t]) => OneFinished(worker'.out)
  BY DEF LinesInv
<1>2. QED  BY <1>1 DEF LinesInv, HasRead, Reading

(* The worker's stream and input stay, and so do the sessions. *)
LEMMA StreamStays ==
    ASSUME StreamInv, Engaged \subseteq Engaged',
           worker'.alive => /\ worker.alive /\ worker'.stream = worker.stream
                            /\ worker'.in = worker.in
    PROVE  StreamInv'
BY DEF StreamInv, Owned

(* A handler that fails or is refused, and its worker. *)
LEMMA FailsDelivery ==
    ASSUME TypeOK, ServerInv, DeliveryInv, NEW s \in Sessions, Handler(s) \/ HandlerRaises(s),
           srv[s].pc # "gone",
           srv'[s].pc = "gone" \/ (srv'[s].pc \in {"cleanup", "reap"} /\ srv'[s].outcome # "passed"),
           up'[s] = up[s] \/ up'[s] = <<>>, Acked(down'[s]) => Acked(down[s])
    PROVE  Deliveries'
<1>1. Delivery(cli[s], srv[s], worker, up[s], down[s], heard[s])
  BY DEF DeliveryInv, Deliveries
<1>2. Delivery(cli[s], srv'[s], worker', up'[s], down'[s], heard[s])
  BY <1>1, Fails
<1>3. QED  BY <1>2, HandlerAside, OwnStep DEF DeliveryInv

LEMMA AdmitDelivery ==
    ASSUME TypeOK, ServerInv, WorkerInv, DeliveryInv, NEW s \in Sessions, Admit(s)
    PROVE  DeliveryInv'
<1>0. /\ srv[s] \in Connection /\ srv \in [Sessions -> Connection] /\ srv[s].pc = "accept"
      /\ UNCHANGED <<cli, up, heard>> /\ worker \in Worker /\ Handler(s)
  BY DEF TypeOK, Admit, Handler
<1>1. CASE ~Free
  <2>1. /\ srv' = [srv EXCEPT ![s].pc = "gone"] /\ down' = Sent(s, <<Message("close", s)>>)
        /\ worker' = worker
    BY <1>1 DEF Admit
  <2>2. srv'[s].pc = "gone" /\ \A t \in Sessions : t # s => srv'[t] = srv[t]
    BY <1>0, <2>1 DEF Connection
  <2>3. Acked(down'[s]) => Acked(down[s])
    BY <2>1, NotAcked, SentAcked
  <2>4. Deliveries'
    BY <1>0, <2>2, <2>3, FailsDelivery
  <2>5. LinesInv' /\ StreamInv'
    BY <1>0, <2>1, <2>2, AsideLines DEF DeliveryInv
  <2>6. QED  BY <2>4, <2>5 DEF DeliveryInv
<1>2. CASE Free
  <2>1. /\ srv' = [srv EXCEPT ![s].pc = "begin"] /\ down' = down
        /\ worker' = [worker EXCEPT !.in = IF worker.alive
                                           THEN Append(@, Message("start", s)) ELSE @]
    BY <1>2 DEF Admit
  <2>2. srv'[s].pc = "begin" /\ \A t \in Sessions : t # s => srv'[t] = srv[t]
    BY <1>0, <2>1 DEF Connection
  <2>3. /\ worker'.out = worker.out /\ worker'.stream = worker.stream
        /\ worker'.alive = worker.alive
        /\ worker.alive => worker'.in = Append(worker.in, Message("start", s))
    BY <1>0, <2>1 DEF Worker
  <2>4. ~active /\ active'
    BY <1>2, <2>2 DEF Free, active, InSession
  <2>5. LinesInv'
    BY <2>2, <2>3, <2>4, LinesStep DEF DeliveryInv, LinesInv, HasRead, Reading
  <2>6. StreamInv'
    <3> SUFFICES ASSUME worker.alive PROVE worker'.stream = "none" /\ Owned(worker'.in, Engaged')
      BY <2>3 DEF StreamInv
    <3>1. worker.stream = "none" /\ worker.in = <<>>
      BY <2>4 DEF WorkerInv, Quiet
    <3>2. s \in Engaged'
      BY <2>2 DEF Engaged, InSession
    <3>3. Owned(<<>>, Engaged') /\ <<>> \in Seq(Command)
      BY DEF Owned
    <3>4. Message("start", s) \in Command /\ Message("start", s).of = s
      BY MessageTypes DEF Message
    <3>5. Owned(Append(<<>>, Message("start", s)), Engaged')
      BY <3>2, <3>3, <3>4, OwnedChanges
    <3>6. QED  BY <2>3, <3>1, <3>5
  <2>7. Delivery(cli[s], srv'[s], worker', up[s], down[s], heard[s])
    <3>1. Delivery(cli[s], srv[s], worker, up[s], down[s], heard[s])
      BY DEF DeliveryInv, Deliveries
    <3>2. QED  BY <1>0, <2>2, <3>1 DEF Delivery, FlowInv, AckInv, Reading, HasRead
  <2>8. Deliveries'
    BY <1>0, <2>1, <2>7, HandlerAside, OwnStep DEF DeliveryInv
  <2>9. QED  BY <2>5, <2>6, <2>8 DEF DeliveryInv
<1>3. QED  BY <1>1, <1>2

(* The session goes on in the same way for its client and its worker. *)
LEMMA GoesOn ==
    ASSUME NEW c, NEW h, NEW k, NEW w, NEW x, NEW u, NEW d, NEW g, NEW n,
           Delivery(c, h, w, u, d, n), h.pc \in {"both", "last"}, k.pc \in {"both", "last"},
           k.reader = h.reader \/ (k.reader = "failed" /\ h.reader = "run"),
           w.alive = x.alive, w.in = x.in, w.stream = x.stream,
           HasFinished(x.out) => HasFinished(w.out), Acked(g) => Acked(d),
           w.alive => \/ k.feeder = h.feeder
                      \/ k.feeder = "recv" /\ h.feeder = "drain"
                      \/ k.feeder = "done" /\ h.feeder = "stop"
    PROVE  Delivery(c, k, x, u, g, n)
<1>1. FlowInv(c, k, x, u, n)
  BY DEF Delivery, FlowInv, Reading, HasRead
<1>2. AckInv(c, k, g, n)
  BY DEF Delivery, AckInv
<1>3. QED  BY <1>1, <1>2 DEF Delivery

(* A step within the session leaves the sessions as they are. *)
LEMMA EngagedStays ==
    ASSUME NEW s \in Sessions, srv[s].pc \in InSession, srv'[s].pc \in InSession,
           \A t \in Sessions : t # s => srv'[t] = srv[t]
    PROVE  Engaged' = Engaged /\ active' /\ s \in Engaged
BY DEF Engaged, active

(* The handler reads a line: the worker's lines lose their head. *)
LEMMA LinesRead ==
    ASSUME TypeOK, ReadLine
    PROVE  /\ worker'.alive = worker.alive /\ worker'.stream = worker.stream
           /\ worker'.in = worker.in
           /\ HasFinished(worker'.out) => HasFinished(worker.out)
           /\ OneFinished(worker.out) => OneFinished(worker'.out)
           /\ Line.kind = "finished" =>
                 HasFinished(worker.out) /\ (OneFinished(worker.out) => ~HasFinished(worker'.out))
<1>1. worker \in Worker /\ worker.out \in Seq(Text)
  BY DEF TypeOK, Worker
<1>2. /\ worker'.alive = worker.alive /\ worker'.stream = worker.stream /\ worker'.in = worker.in
      /\ worker'.out = IF worker.out = <<>> THEN worker.out ELSE Tail(worker.out)
  BY <1>1 DEF ReadLine, Worker
<1>3. worker.out # <<>> =>
         /\ HasFinished(Tail(worker.out)) => HasFinished(worker.out)
         /\ Head(worker.out).kind = "finished" => HasFinished(worker.out)
         /\ OneFinished(worker.out) => OneFinished(Tail(worker.out))
         /\ OneFinished(worker.out) /\ Head(worker.out).kind = "finished"
               => ~HasFinished(Tail(worker.out))
  BY <1>1, FinishedTail
<1>4. Line.kind = "finished" => worker.out # <<>> /\ Line = Head(worker.out)
  BY DEF Line, Message
<1>5. QED  BY <1>2, <1>3, <1>4

LEMMA BeginDelivery ==
    ASSUME TypeOK, ServerInv, WorkerInv, DeliveryInv, NEW s \in Sessions, BeginSession(s)
    PROVE  DeliveryInv'
<1>0. /\ srv[s] \in Connection /\ srv \in [Sessions -> Connection] /\ srv[s].pc = "begin"
      /\ srv[s].feeder = "recv" /\ srv[s].reader = "run"
      /\ UNCHANGED <<cli, up, heard>> /\ worker \in Worker /\ Handler(s)
  BY DEF TypeOK, ServerInv, BeginSession, Handler
<1>1. /\ \A t \in Sessions : t # s => srv'[t] = srv[t]
      /\ srv[s].pc \in InSession /\ srv'[s].pc \in InSession /\ srv'[s].pc # "begin"
  BY SessionMoves
<1>2. Engaged' = Engaged /\ active' /\ s \in Engaged
  BY <1>1, EngagedStays
<1>3. /\ worker'.alive = worker.alive /\ worker'.stream = worker.stream /\ worker'.in = worker.in
      /\ HasFinished(worker'.out) => HasFinished(worker.out)
      /\ OneFinished(worker.out) => OneFinished(worker'.out)
  <2>1. ReadLine \/ worker' = worker
    BY DEF BeginSession
  <2>2. QED  BY <2>1, LinesRead
<1>4. ~HasFinished(worker.out) /\ ~HasFinished(worker'.out)
  BY <1>0, <1>3 DEF DeliveryInv, LinesInv
<1>5. OneFinished(worker'.out)
  BY <1>4 DEF OneFinished, HasFinished
<1>6. LinesInv'
  BY <1>1, <1>2, <1>3, <1>4, <1>5, LinesStep DEF DeliveryInv
<1>7. StreamInv'
  BY <1>2, <1>3, StreamStays DEF DeliveryInv
<1>8. CASE Ends(s, "failed") \/ Ends(s, "indeterminate")
  <2>1. srv'[s].pc = "cleanup" /\ srv'[s].outcome # "passed"
    BY <1>8, EndsMoves
  <2>2. Acked(down'[s]) => Acked(down[s])
    BY <1>8, <2>1, <1>0, NotAcked, SentAcked DEF BeginSession
  <2>3. Deliveries'
    BY <1>0, <2>1, <2>2, FailsDelivery
  <2>4. QED  BY <1>6, <1>7, <2>3 DEF DeliveryInv
<1>9. CASE /\ srv' = [srv EXCEPT ![s].pc = "both"] /\ down' = Sent(s, <<Message("config", s)>>)
           /\ CanRead /\ ReadLine
  <2>1. srv'[s].pc = "both" /\ srv'[s].feeder = "recv" /\ srv'[s].reader = "run"
    BY <1>0, <1>9 DEF Connection
  <2>2. Acked(down'[s]) => Acked(down[s])
    BY <1>9, NotAcked, SentAcked
  <2>3. worker.alive => worker'.in = <<>>
    <3> SUFFICES ASSUME worker.alive PROVE worker'.in = <<>>
      OBVIOUS
    <3>1. worker.out # <<>>
      BY <1>9, Reads
    <3>2. QED  BY <1>0, <1>3, <3>1, InConversation DEF Chat
  <2>4. Delivery(cli[s], srv[s], worker, up[s], down[s], heard[s])
    BY DEF DeliveryInv, Deliveries
  <2>5. AckInv(cli[s], srv'[s], down'[s], heard[s])
    BY <1>0, <2>1, <2>2, <2>4 DEF Delivery, AckInv
  <2>6. FlowInv(cli[s], srv'[s], worker', up[s], heard[s])
    <3> DEFINE a == Waiting(cli[s], up[s])
               l == Len(worker'.in)
               n == heard[s]
    <3>1. cli[s].pc # "done" => cli[s].fed = a + n
      BY <1>0, <2>4 DEF Delivery, FlowInv
    <3>2. worker'.alive => l = 0
      BY <1>3, <2>3
    <3>3. a \in Nat /\ n \in Nat
      <4>1. FramesIn(cli[s].queue) \in Nat /\ FramesIn(up[s]) \in Nat
        BY PlacesFinite DEF TypeOK, Session
      <4>2. QED  BY <4>1 DEF TypeOK, Waiting
    <3> HIDE DEF a, l, n
    <3>4. worker'.alive => a + l + n = a + n
      BY <3>2, <3>3
    <3>5. worker'.alive /\ cli[s].pc # "done" => cli[s].fed = a + l + n
      BY <3>1, <3>4
    <3>6. QED  BY <1>4, <2>1, <3>5 DEF FlowInv, Reading, HasRead, a, l, n
  <2>7. Delivery(cli[s], srv'[s], worker', up[s], down'[s], heard[s])
    BY <2>4, <2>5, <2>6 DEF Delivery
  <2>8. Deliveries'
    BY <1>0, <2>7, HandlerAside, OwnStep DEF DeliveryInv
  <2>9. QED  BY <1>6, <1>7, <2>8 DEF DeliveryInv
<1>10. QED  BY <1>8, <1>9 DEF BeginSession

LEMMA ResultsDelivery ==
    ASSUME TypeOK, ServerInv, DeliveryInv, NEW s \in Sessions, Results(s)
    PROVE  DeliveryInv'
<1> DEFINE h == srv[s]
           k == srv'[s]
<1>0. /\ h \in Connection /\ srv \in [Sessions -> Connection]
      /\ h.pc \in {"both", "last"} /\ h.reader = "run" /\ ReadLine
      /\ UNCHANGED <<cli, up, heard>> /\ worker \in Worker /\ Handler(s)
  BY DEF TypeOK, Results, Handler
<1>1. /\ \A t \in Sessions : t # s => srv'[t] = srv[t]
      /\ h.pc \in InSession /\ k.pc \in InSession /\ k.pc # "begin"
  BY SessionMoves
<1>2. Engaged' = Engaged /\ active' /\ s \in Engaged
  BY <1>1, EngagedStays
<1>3. /\ worker'.alive = worker.alive /\ worker'.stream = worker.stream /\ worker'.in = worker.in
      /\ HasFinished(worker'.out) => HasFinished(worker.out)
      /\ OneFinished(worker.out) => OneFinished(worker'.out)
      /\ Line.kind = "finished" =>
            HasFinished(worker.out) /\ (OneFinished(worker.out) => ~HasFinished(worker'.out))
  BY <1>0, LinesRead
<1>4. k.pc = h.pc /\ k.feeder = h.feeder
  BY <1>0 DEF Results, Connection
<1>5. k.reader = CASE Line.kind = "snapshot" -> "run" [] Line.kind = "finished" -> "done"
                   [] OTHER -> "failed"
  BY <1>0 DEF Results, Connection
<1>6. Acked(down'[s]) => Acked(down[s])
  <2>1. CASE Line.kind = "snapshot"
    <3>1. Line \in Reply
      BY <2>1, WorkerTypes, MessageTypes
    <3>2. <<Line>> \in Seq(Reply)
      BY <3>1, Sequence
    <3>3. ~Acked(<<Line>>)
      BY <2>1 DEF Acked
    <3>4. down' = Sent(s, <<Line>>)
      BY <2>1 DEF Results
    <3>5. QED  BY <3>2, <3>3, <3>4, SentAcked
  <2>2. CASE Line.kind # "snapshot"
    BY <2>2 DEF Results
  <2>3. QED  BY <2>1, <2>2
<1>7. OneFinished(worker.out) /\ OneFinished(worker'.out)
  BY <1>0, <1>3 DEF DeliveryInv, LinesInv, Reading
<1>8. StreamInv'
  BY <1>2, <1>3, StreamStays DEF DeliveryInv
<1>9. LinesInv'
  <2>1. HasRead(k) => Line.kind = "finished"
    BY <1>0, <1>4, <1>5 DEF HasRead
  <2>2. HasRead(k) => ~HasFinished(worker'.out)
    BY <1>3, <1>7, <2>1
  <2>3. QED  BY <1>1, <1>2, <1>3, <1>7, <2>2, LinesStep DEF DeliveryInv
<1>10. Delivery(cli[s], h, worker, up[s], down[s], heard[s])
  BY DEF DeliveryInv, Deliveries
<1>11. Delivery(cli[s], k, worker', up[s], down'[s], heard[s])
  <2>1. CASE Line.kind # "finished"
    <3>1. k.reader = h.reader \/ (k.reader = "failed" /\ h.reader = "run")
      BY <1>0, <1>5, <2>1
    <3> HIDE DEF h, k
    <3>2. QED  BY <1>0, <1>3, <1>4, <1>6, <1>10, <3>1, GoesOn
  <2>2. CASE Line.kind = "finished"
    <3>1. k.reader = "done"
      BY <1>5, <2>2
    <3>2. Reading(h) /\ HasFinished(worker.out)
      BY <1>0, <1>3, <2>2 DEF Reading
    <3>3. cli[s].pc # "done" => Complete(cli[s], heard[s])
      BY <1>10, <3>2 DEF Delivery, FlowInv
    <3>4. FlowInv(cli[s], k, worker', up[s], heard[s])
      BY <1>0, <1>4, <3>1, <3>3 DEF FlowInv, Reading
    <3>5. AckInv(cli[s], k, down'[s], heard[s])
      BY <1>0, <1>4, <1>6, <1>10 DEF Delivery, AckInv
    <3>6. QED  BY <1>10, <3>4, <3>5 DEF Delivery
  <2>3. QED  BY <2>1, <2>2
<1>12. Deliveries'
  BY <1>0, <1>11, HandlerAside, OwnStep DEF DeliveryInv
<1>13. QED  BY <1>8, <1>9, <1>12 DEF DeliveryInv

(* Audio that the server takes from the socket goes into the pipe, and the *)
(* end of the input behind all of it.                                      *)
LEMMA Fed ==
    ASSUME NEW c \in Session, NEW h, NEW k, NEW w, NEW x, NEW u \in Seq({"pcm", "eof", "close"}),
           NEW d, NEW n \in Nat, w.in \in Seq(Command), u # <<>>,
           Delivery(c, h, w, u, d, n), h.pc = "both", h.feeder = "recv",
           k.pc = "both", k.reader = h.reader,
           k.feeder = IF Head(u) = "pcm" THEN "drain" ELSE "stop",
           x.alive = w.alive, x.out = w.out, x.stream = w.stream,
           w.alive => Len(x.in) = Len(w.in) + 1
    PROVE  Delivery(c, k, x, Tail(u), d, n)
<1> DEFINE a == Waiting(c, u)
           b == Waiting(c, Tail(u))
           v == IF Head(u) = "pcm" THEN 1 ELSE 0
           l == Len(w.in)
           m == Len(x.in)
<1>0. /\ Head(u) \in {"pcm", "eof", "close"} /\ Tail(u) \in Seq({"pcm", "eof", "close"})
      /\ c.queue \in Seq({"pcm", "eof"}) /\ l \in Nat /\ c.fed \in Nat
  <2>1. Head(u) \in {"pcm", "eof", "close"} /\ Tail(u) \in Seq({"pcm", "eof", "close"})
    BY Sequence
  <2>2. QED  BY <2>1 DEF Session
<1>1. /\ HasEof(Tail(u)) => HasEof(u)
      /\ EofLast(u) => EofLast(Tail(u))
      /\ NoClose(u) => NoClose(Tail(u)) /\ Head(u) # "close"
      /\ Head(u) = "eof" => HasEof(u)
      /\ EofLast(u) /\ Head(u) = "eof" => Tail(u) = <<>>
  BY EofTail
<1>2. ClientInv(c, Tail(u))
  BY <1>1 DEF Delivery, ClientInv
<1>3. a = b + v /\ b \in Nat
  <2> DEFINE y == FramesIn(c.queue)
             f == FramesIn(u)
             g == FramesIn(Tail(u))
             z == IF c.tx = "pcm" THEN 1 ELSE 0
  <2>1. a = y + z + f /\ b = y + z + g
    BY DEF Waiting
  <2>2. f = g + v
    BY FramesInTail
  <2>3. y \in Nat /\ f \in Nat /\ g \in Nat /\ z \in Nat /\ v \in Nat
    BY <1>0, PlacesFinite
  <2> HIDE DEF a, b, v, y, f, g, z
  <2>4. QED  BY <2>1, <2>2, <2>3
<1>4. ASSUME c.pc # "done", Reading(k), x.alive
      PROVE  /\ k.feeder = "drain" => c.fed = b + m + n
             /\ k.feeder = "stop" => Sealed(c) /\ c.fed = n + m - 1
  <2>1. c.fed = a + l + n /\ m = l + 1
    BY <1>4 DEF Delivery, FlowInv, Reading
  <2>2. CASE Head(u) = "pcm"
    <3>1. v = 1 /\ k.feeder = "drain"
      BY <2>2
    <3> HIDE DEF a, b, v, l, m
    <3>2. c.fed = b + m + n
      BY <1>0, <1>3, <2>1, <3>1
    <3>3. QED  BY <3>1, <3>2
  <2>3. CASE Head(u) # "pcm"
    <3>1. v = 0 /\ k.feeder = "stop" /\ Head(u) = "eof"
      BY <1>0, <1>1, <1>4, <2>3 DEF Delivery, ClientInv
    <3>2. Sealed(c) /\ Tail(u) = <<>>
      BY <1>1, <1>4, <3>1 DEF Delivery, ClientInv, Sealed
    <3>3. b = 0
      <4>1. FramesIn(c.queue) = 0 /\ FramesIn(Tail(u)) = 0 /\ c.tx = "done"
        BY <3>2, FramesInEmpty DEF Sealed
      <4>2. QED  BY <4>1 DEF Waiting
    <3> HIDE DEF a, b, v, l, m
    <3>4. c.fed = n + m - 1
      BY <1>0, <1>3, <2>1, <3>1, <3>3
    <3>5. QED  BY <3>1, <3>2, <3>4
  <2>4. QED  BY <2>2, <2>3
<1>5. Reading(k) => Reading(h)
  BY DEF Reading
<1>6. HasRead(k) => HasRead(h)
  BY DEF HasRead
<1>7. FlowInv(c, k, x, Tail(u), n)
  <2>1. k.pc \notin {"none", "accept", "begin"} /\ k.feeder \in {"drain", "stop"}
    OBVIOUS
  <2>2. c.pc # "done" => (HasRead(k) => Complete(c, n))
    BY <1>6 DEF Delivery, FlowInv
  <2>3. c.pc # "done" => (Reading(k) /\ HasFinished(x.out) => Complete(c, n))
    BY <1>5 DEF Delivery, FlowInv
  <2>4. c.pc # "done" => (Reading(k) /\ x.alive /\ k.feeder = "drain" => c.fed = b + m + n)
    BY <1>4
  <2>5. c.pc # "done" => (Reading(k) /\ x.alive /\ k.feeder = "stop" => Sealed(c) /\ c.fed = n + m - 1)
    BY <1>4
  <2>6. QED  BY <2>1, <2>2, <2>3, <2>4, <2>5 DEF FlowInv
<1>8. AckInv(c, k, d, n)
  BY DEF Delivery, AckInv
<1>9. QED  BY <1>2, <1>7, <1>8 DEF Delivery

LEMMA FeedWorkerDelivery ==
    ASSUME TypeOK, ServerInv, DeliveryInv, NEW s \in Sessions, FeedWorker(s)
    PROVE  DeliveryInv'
<1> DEFINE h == srv[s]
           k == srv'[s]
           u == up[s]
           cmd == Message(IF Head(u) = "pcm" THEN "pcm" ELSE "stop", s)
<1>0. /\ h \in Connection /\ srv \in [Sessions -> Connection]
      /\ h.pc = "both" /\ h.feeder = "recv" /\ u # <<>> /\ u \in Seq({"pcm", "eof", "close"})
      /\ UNCHANGED <<cli, down, heard>> /\ worker \in Worker /\ worker.in \in Seq(Command)
      /\ Handler(s) /\ cli[s] \in Session /\ heard[s] \in Nat
  BY DEF TypeOK, FeedWorker, Handler, Worker
<1>1. /\ \A t \in Sessions : t # s => srv'[t] = srv[t]
      /\ h.pc \in InSession /\ k.pc \in InSession /\ k.pc # "begin"
  BY SessionMoves
<1>2. Engaged' = Engaged /\ active' /\ s \in Engaged
  BY <1>1, EngagedStays
<1>3. /\ worker'.alive = worker.alive /\ worker'.stream = worker.stream
      /\ worker'.out = worker.out
      /\ worker.alive => worker'.in = Append(worker.in, cmd)
  BY <1>0 DEF FeedWorker, Worker
<1>4. /\ k.pc = "both" /\ k.reader = h.reader
      /\ k.feeder = IF Head(u) = "pcm" THEN "drain" ELSE "stop"
  BY <1>0 DEF FeedWorker, Connection
<1>5. up'[s] = Tail(u)
  BY DEF FeedWorker, TypeOK
<1>6. cmd \in Command /\ cmd.of = s
  BY MessageTypes DEF Message
<1> HIDE DEF cmd
<1>7. StreamInv'
  <2> SUFFICES ASSUME worker.alive
               PROVE  /\ worker'.stream # "none" => worker'.stream \in Engaged'
                      /\ Owned(worker'.in, Engaged')
    BY <1>3 DEF StreamInv
  <2>1. Owned(worker.in, Engaged) /\ (worker.stream # "none" => worker.stream \in Engaged)
    BY DEF DeliveryInv, StreamInv
  <2>2. Owned(Append(worker.in, cmd), Engaged)
    BY <1>0, <1>2, <1>6, <2>1, OwnedChanges
  <2>3. QED  BY <1>2, <1>3, <2>1, <2>2
<1>8. LinesInv'
  <2>1. (HasRead(k) => HasRead(h)) /\ (Reading(k) => Reading(h))
    BY <1>0, <1>4 DEF HasRead, Reading
  <2>2. QED  BY <1>1, <1>2, <1>3, <2>1, LinesStep DEF DeliveryInv, LinesInv
<1>9. Delivery(cli[s], h, worker, u, down[s], heard[s])
  BY DEF DeliveryInv, Deliveries
<1>10. worker.alive => Len(worker'.in) = Len(worker.in) + 1
  BY <1>0, <1>3, <1>6, AppendProperties
<1> HIDE DEF h, k, u
<1>11. Delivery(cli[s], k, worker', Tail(u), down[s], heard[s])
  BY <1>0, <1>3, <1>4, <1>9, <1>10, Fed
<1>12. Deliveries'
  BY <1>0, <1>5, <1>11, HandlerAside, OwnStep DEF DeliveryInv, k
<1>13. QED  BY <1>7, <1>8, <1>12 DEF DeliveryInv

(* The handler waits for its two tasks. *)
LEMMA WaitsDelivery ==
    ASSUME TypeOK, ServerInv, DeliveryInv, NEW s \in Sessions,
           Drain(s) \/ Await(s) \/ HandlerRaises(s)
    PROVE  DeliveryInv'
<1> DEFINE h == srv[s]
           k == srv'[s]
<1>0. /\ h \in Connection /\ srv \in [Sessions -> Connection]
      /\ UNCHANGED <<cli, up, down, worker, heard>> /\ (Handler(s) \/ HandlerRaises(s))
  BY DEF TypeOK, Drain, Await, HandlerRaises, Handler, clientVars
<1>1. /\ \A t \in Sessions : t # s => srv'[t] = srv[t]
      /\ h.pc \in InSession /\ k.pc \in InSession /\ k.pc # "begin"
  BY SessionMoves
<1>2. Engaged' = Engaged /\ active' /\ s \in Engaged
  BY <1>1, EngagedStays
<1>3. StreamInv'
  BY <1>0, <1>2 DEF DeliveryInv, StreamInv
<1>4. Delivery(cli[s], h, worker, up[s], down[s], heard[s])
  BY DEF DeliveryInv, Deliveries
<1>5. SUFFICES /\ Delivery(cli[s], k, worker, up[s], down[s], heard[s])
               /\ HasRead(k) => HasRead(h)
               /\ Reading(k) => Reading(h)
  <2>1. Deliveries'
    BY <1>0, <1>5, HandlerAside, OwnStep DEF DeliveryInv
  <2>2. LinesInv'
    BY <1>0, <1>1, <1>2, <1>5, LinesStep DEF DeliveryInv, LinesInv
  <2>3. QED  BY <1>3, <2>1, <2>2 DEF DeliveryInv
<1>6. CASE Drain(s)
  <2>1. /\ h.pc = "both" /\ k.pc = "both" /\ k.reader = h.reader
        /\ worker.alive => \/ k.feeder = "recv" /\ h.feeder = "drain"
                           \/ k.feeder = "done" /\ h.feeder = "stop"
    BY <1>0, <1>6 DEF Drain, Connection
  <2> HIDE DEF h, k
  <2>2. Delivery(cli[s], k, worker, up[s], down[s], heard[s])
    BY <1>4, <2>1, GoesOn
  <2>3. QED  BY <2>1, <2>2 DEF HasRead, Reading
<1>7. CASE srv' = [srv EXCEPT ![s].pc = "last"] /\ h.pc = "both"
  <2>1. h.pc = "both" /\ k.pc = "last" /\ k.reader = h.reader /\ k.feeder = h.feeder
    BY <1>0, <1>7 DEF Connection
  <2> HIDE DEF h, k
  <2>2. Delivery(cli[s], k, worker, up[s], down[s], heard[s])
    BY <1>4, <2>1, GoesOn
  <2>3. QED  BY <2>1, <2>2 DEF HasRead, Reading
<1>8. CASE Ends(s, "failed") \/ Ends(s, "indeterminate")
  <2>1. k.pc = "cleanup" /\ k.outcome # "passed" /\ h.pc # "gone"
    BY <1>1, <1>8, EndsMoves DEF InSession
  <2> HIDE DEF h, k
  <2>2. Delivery(cli[s], k, worker, up[s], down[s], heard[s])
    BY <1>4, <2>1, Fails
  <2>3. QED  BY <2>1, <2>2 DEF HasRead, Reading
<1>9. CASE Ends(s, "passed") /\ h.pc = "last" /\ h.reader = "done"
  <2>1. k.pc = "cleanup" /\ k.outcome = "passed" /\ HasRead(h) /\ h.pc = "last"
    BY <1>9, EndsMoves DEF HasRead
  <2> HIDE DEF h, k
  <2>2. FlowInv(cli[s], k, worker, up[s], heard[s])
    BY <1>4, <2>1 DEF Delivery, FlowInv, Reading
  <2>3. AckInv(cli[s], k, down[s], heard[s])
    BY <1>4, <2>1 DEF Delivery, AckInv
  <2>4. QED  BY <1>4, <2>1, <2>2, <2>3 DEF Delivery, Reading
<1>10. CASE Await(s)
  BY <1>7, <1>8, <1>9, <1>10 DEF Await
<1>11. CASE HandlerRaises(s)
  BY <1>8, <1>11 DEF HandlerRaises
<1>12. QED  BY <1>6, <1>10, <1>11

(* The end of a session. *)
LEMMA ReleaseDelivery ==
    ASSUME TypeOK, ServerInv, WorkerInv, DeliveryInv, NEW s \in Sessions, Cleanup(s) \/ Reap(s)
    PROVE  DeliveryInv'
<1> DEFINE h == srv[s]
           k == srv'[s]
<1>0. /\ h \in Connection /\ srv \in [Sessions -> Connection]
      /\ UNCHANGED <<cli, heard>> /\ Handler(s)
  BY DEF TypeOK, Cleanup, Reap, Handler
<1>1. Delivery(cli[s], h, worker, up[s], down[s], heard[s])
  BY DEF DeliveryInv, Deliveries
<1>2. CASE Cleanup(s) /\ h.outcome # "passed"
  <2>1. /\ srv' = [srv EXCEPT ![s].pc = "reap"] /\ UNCHANGED <<up, down, worker>>
        /\ h.pc = "cleanup"
    BY <1>2 DEF Cleanup
  <2>2. k.pc = "reap" /\ k.outcome = h.outcome /\ \A t \in Sessions : t # s => srv'[t] = srv[t]
    BY <1>0, <2>1 DEF Connection
  <2>3. Deliveries'
    BY <1>0, <1>2, <2>1, <2>2, FailsDelivery
  <2>4. Engaged' = Engaged /\ active' /\ s \in Engaged
    BY <2>1, <2>2, EngagedStays DEF InSession
  <2>5. StreamInv'
    BY <2>1, <2>4 DEF DeliveryInv, StreamInv
  <2>6. LinesInv'
    BY <2>1, <2>2, <2>4, LinesStep DEF DeliveryInv, HasRead, Reading
  <2>7. QED  BY <2>3, <2>5, <2>6 DEF DeliveryInv
<1>3. CASE Reap(s)
  <2>1. Release(s) /\ worker' = NoWorker /\ h.pc = "reap"
    BY <1>3 DEF Reap
  <2>2. k.pc = "gone" /\ \A t \in Sessions : t # s => srv'[t] = srv[t]
    BY <2>1, ReleaseMoves
  <2>3. h.outcome # "passed"
    BY <1>1, <2>1 DEF Delivery, AckInv
  <2>4. up'[s] = <<>> /\ (Acked(down'[s]) => Acked(down[s]))
    BY <2>1, <2>3, ReleaseDown
  <2>5. Deliveries'
    BY <1>0, <2>1, <2>2, <2>4, FailsDelivery
  <2>6. ~worker'.alive /\ worker'.out = <<>>
    BY <2>1 DEF NoWorker
  <2>7. StreamInv'
    BY <2>6 DEF StreamInv
  <2>8. LinesInv'
    BY <2>6, EmptyQueues DEF LinesInv
  <2>9. QED  BY <2>5, <2>7, <2>8 DEF DeliveryInv
<1>4. CASE Cleanup(s) /\ h.outcome = "passed"
  <2>1. Release(s) /\ worker' = worker /\ h.pc = "cleanup" /\ HasRead(h)
    BY <1>4 DEF Cleanup, HasRead
  <2>2. k.pc = "gone" /\ \A t \in Sessions : t # s => srv'[t] = srv[t]
    BY <2>1, ReleaseMoves
  <2>3. up'[s] = <<>> /\ (cli[s].pc = "done" => down'[s] = down[s])
    BY <2>1, ReleaseDown
  <2>4. cli[s].pc # "done" => Complete(cli[s], heard[s])
    BY <1>1, <2>1 DEF Delivery, FlowInv
  <2>5. ClientInv(cli[s], <<>>)
    BY <1>1, EmptyQueues DEF Delivery, ClientInv
  <2>6. FlowInv(cli[s], k, worker, <<>>, heard[s])
    BY <2>2 DEF FlowInv, Reading, HasRead
  <2>7. AckInv(cli[s], k, down'[s], heard[s])
    BY <1>1, <2>2, <2>3, <2>4 DEF Delivery, AckInv
  <2>8. Delivery(cli[s], k, worker, <<>>, down'[s], heard[s])
    BY <2>5, <2>6, <2>7 DEF Delivery
  <2>9. Deliveries'
    BY <1>0, <2>1, <2>3, <2>8, HandlerAside, OwnStep DEF DeliveryInv
  <2>10. ~HasFinished(worker'.out)
    BY <2>1 DEF DeliveryInv, LinesInv
  <2>11. LinesInv'
    BY <2>1, <2>2, <2>10, LinesStep DEF DeliveryInv, Reading
  <2>12. worker.alive => Quiet(worker)
    BY <2>1, <1>4, InConversation DEF Chat
  <2>13. StreamInv'
    BY <2>1, <2>12 DEF Quiet, StreamInv, Owned
  <2>14. QED  BY <2>9, <2>11, <2>13 DEF DeliveryInv
<1>5. QED  BY <1>2, <1>3, <1>4

-----------------------------------------------------------------------------
(* The worker's steps *)

(* What a step of the worker does to its input and to its stream. *)
LEMMA WorkMoves ==
    ASSUME TypeOK, Work
    PROVE  LET w == worker
               cmd == Head(worker.in)
           IN  \/ /\ cmd.kind = "start" /\ w.stream = "none"
                  /\ worker'.alive /\ worker'.in = Tail(w.in) /\ worker'.stream = cmd.of
               \/ /\ cmd.kind = "pcm" /\ w.stream # "none"
                  /\ worker'.alive /\ worker'.in = Tail(w.in) /\ worker'.stream = w.stream
               \/ /\ cmd.kind = "stop" /\ w.stream # "none"
                  /\ worker'.alive /\ worker'.in = Tail(w.in) /\ worker'.stream = "none"
               \/ /\ cmd.kind = "start" => w.stream # "none"
                  /\ cmd.kind \in {"pcm", "stop"} => w.stream = "none"
                  /\ ~worker'.alive
                  /\ worker'.out = Append(w.out, Message("error", "none"))
<1> DEFINE w == worker
           cmd == Head(w.in)
           Emits(stream, lines) ==
              [w EXCEPT !.in = Tail(@), !.stream = stream, !.out = @ \o lines]
           texts == {<<>>, <<Message("snapshot", w.stream)>>}
<1>0. w.alive /\ worker' \in After(cmd) /\ w \in Worker
  BY DEF Work, TypeOK
<1>1. After(cmd) =
        CASE cmd.kind = "start" /\ w.stream = "none" ->
               {Emits(cmd.of, <<Message("started", cmd.of)>>)}
          [] cmd.kind = "pcm" /\ w.stream # "none" -> {Emits(w.stream, t) : t \in texts}
          [] cmd.kind = "stop" /\ w.stream # "none" ->
               {Emits("none", Append(t, Message("finished", w.stream))) : t \in texts}
          [] OTHER -> {[NoWorker EXCEPT !.out = Append(w.out, Message("error", "none"))]}
  BY DEF After
<1>2. \A stream, lines : /\ Emits(stream, lines).in = Tail(w.in)
                         /\ Emits(stream, lines).stream = stream
                         /\ Emits(stream, lines).alive = w.alive
  BY <1>0 DEF Worker
<1> HIDE DEF Emits, texts, cmd
<1>3. CASE cmd.kind = "start" /\ w.stream = "none"
  <2>1. worker' = Emits(cmd.of, <<Message("started", cmd.of)>>)
    BY <1>0, <1>1, <1>3
  <2>2. worker'.alive /\ worker'.in = Tail(w.in) /\ worker'.stream = cmd.of
    BY <1>0, <1>2, <2>1
  <2>3. QED  BY <1>3, <2>2 DEF cmd
<1>4. CASE cmd.kind = "pcm" /\ w.stream # "none"
  <2>1. PICK t \in texts : worker' = Emits(w.stream, t)
    BY <1>0, <1>1, <1>4
  <2>2. worker'.alive /\ worker'.in = Tail(w.in) /\ worker'.stream = w.stream
    BY <1>0, <1>2, <2>1
  <2>3. QED  BY <1>4, <2>2 DEF cmd
<1>5. CASE cmd.kind = "stop" /\ w.stream # "none"
  <2>1. PICK t \in texts : worker' = Emits("none", Append(t, Message("finished", w.stream)))
    BY <1>0, <1>1, <1>5
  <2>2. worker'.alive /\ worker'.in = Tail(w.in) /\ worker'.stream = "none"
    BY <1>0, <1>2, <2>1
  <2>3. QED  BY <1>5, <2>2 DEF cmd
<1>6. CASE /\ ~(cmd.kind = "start" /\ w.stream = "none")
           /\ ~(cmd.kind = "pcm" /\ w.stream # "none")
           /\ ~(cmd.kind = "stop" /\ w.stream # "none")
  <2>1. After(cmd) = {[NoWorker EXCEPT !.out = Append(w.out, Message("error", "none"))]}
    BY <1>1, <1>6
  <2>2. ~worker'.alive /\ worker'.out = Append(w.out, Message("error", "none"))
    BY <1>0, <2>1 DEF NoWorker
  <2>3. QED  BY <1>6, <2>2 DEF cmd
<1>7. QED  BY <1>3, <1>4, <1>5, <1>6

(* A session that is not read promises nothing, whatever the worker does. *)
LEMMA Unread ==
    ASSUME NEW c, NEW h, NEW w, NEW x, NEW u, NEW d, NEW n, NEW m,
           Delivery(c, h, w, u, d, n), ~Reading(h), ~HasRead(h),
           h.pc \in InSession, h.pc # "begin"
    PROVE  Delivery(c, h, x, u, d, m)
<1>1. FlowInv(c, h, x, u, m)
  BY DEF FlowInv, InSession
<1>2. AckInv(c, h, d, m)
  BY DEF Delivery, AckInv, InSession
<1>3. QED  BY <1>1, <1>2 DEF Delivery

(* The worker takes a frame in. *)
LEMMA Heard ==
    ASSUME NEW c \in Session, NEW h \in Connection, NEW w, NEW x,
           NEW u \in Seq({"pcm", "eof", "close"}), NEW d, NEW n \in Nat,
           Delivery(c, h, w, u, d, n), Reading(h), w.alive, w.stream # "none",
           x.in \in Seq(Command), Len(w.in) = Len(x.in) + 1, ~HasFinished(x.out)
    PROVE  Delivery(c, h, x, u, d, n + 1)
<1> DEFINE a == Waiting(c, u)
           l == Len(x.in)
<1>0. a \in Nat /\ l \in Nat
  <2>1. FramesIn(c.queue) \in Nat /\ FramesIn(u) \in Nat
    BY PlacesFinite DEF Session
  <2>2. QED  BY <2>1 DEF Waiting
<1>1. ~HasRead(h) /\ h.pc \notin {"none", "accept", "begin", "gone"}
  BY DEF Reading, HasRead
<1>2. ASSUME c.pc # "done", h.feeder \in {"recv", "drain"} PROVE c.fed = a + l + (n + 1)
  <2>1. c.fed = a + Len(w.in) + n
    BY <1>2 DEF Delivery, FlowInv
  <2>2. Len(w.in) = l + 1
    OBVIOUS
  <2> HIDE DEF a, l
  <2>3. QED  BY <1>0, <2>1, <2>2
<1>3. ASSUME c.pc # "done", h.feeder \in {"stop", "done"} PROVE Sealed(c) /\ c.fed = (n + 1) + l - 1
  <2>1. Sealed(c) /\ c.fed = n + Len(w.in) - 1
    BY <1>3 DEF Delivery, FlowInv
  <2>2. n + Len(w.in) - 1 = n + (l + 1) - 1
    OBVIOUS
  <2> HIDE DEF l
  <2>3. n + (l + 1) - 1 = (n + 1) + l - 1
    BY <1>0
  <2>4. QED  BY <2>1, <2>2, <2>3
<1>4. FlowInv(c, h, x, u, n + 1)
  BY <1>1, <1>2, <1>3 DEF FlowInv
<1>5. AckInv(c, h, d, n + 1)
  BY <1>1 DEF Delivery, AckInv, Reading
<1>6. QED  BY <1>4, <1>5 DEF Delivery

(* The worker finishes the stream, when nothing is left to take in. *)
LEMMA Stopped ==
    ASSUME NEW c \in Session, NEW h, NEW w, NEW x, NEW u, NEW d, NEW n \in Nat,
           Delivery(c, h, w, u, d, n), Reading(h), w.alive, w.stream # "none",
           h.feeder \in {"stop", "done"}, Len(w.in) = 1, x.stream = "none"
    PROVE  Delivery(c, h, x, u, d, n)
<1>1. ~HasRead(h) /\ h.pc \notin {"none", "accept", "begin", "gone"}
  BY DEF Reading, HasRead
<1>2. ASSUME c.pc # "done" PROVE Complete(c, n)
  <2>1. Sealed(c) /\ c.fed = n + 1 - 1
    BY <1>2 DEF Delivery, FlowInv
  <2>2. QED  BY <2>1 DEF Complete
<1>3. FlowInv(c, h, x, u, n)
  BY <1>1, <1>2 DEF FlowInv
<1>4. QED  BY <1>3 DEF Delivery

(* The lines of a living worker are in the conversation. *)
LEMMA LivingLines ==
    ASSUME TypeOK', WorkerInv', worker'.alive PROVE LinesInv'
<1>1. worker'.out \in Seq(Text) /\ \A t \in Sessions : srv'[t] \in Connection
  BY DEF TypeOK, Worker
<1> DEFINE o == worker'.out
<1>2. ASSUME Quiet(worker') PROVE ~HasFinished(o)
  BY <1>2, EmptyQueues DEF Quiet
<1>3. ~active' => ~HasFinished(o)
  BY <1>2 DEF WorkerInv
<1>4. ASSUME NEW t \in Sessions
      PROVE  /\ srv'[t].pc = "begin" => ~HasFinished(o)
             /\ HasRead(srv'[t]) => ~HasFinished(o)
             /\ Reading(srv'[t]) => OneFinished(o)
  <2>1. Chat(t, srv'[t], worker')
    BY DEF WorkerInv
  <2>2. srv'[t].pc = "begin" => ~HasFinished(o)
    <3>1. srv'[t].pc = "begin" => o = <<>> \/ (Len(o) = 1 /\ o[1].kind = "started")
      BY <2>1 DEF Chat
    <3>2. Len(o) = 1 /\ o[1].kind = "started" => ~HasFinished(o)
      BY DEF HasFinished
    <3>3. QED  BY <3>1, <3>2, EmptyQueues
  <2>3. HasRead(srv'[t]) => ~HasFinished(o)
    BY <1>2, <2>1 DEF Chat, HasRead
  <2>4. Reading(srv'[t]) => OneFinished(o)
    <3>1. Reading(srv'[t]) => Texts(o) \/ TextsThenFinished(o)
      BY <1>1, <2>1 DEF Chat, Reading, Connection
    <3>2. QED  BY <1>1, <3>1, FinishedTexts
  <2>5. QED  BY <2>2, <2>3, <2>4
<1>5. QED  BY <1>3, <1>4 DEF LinesInv, HasRead, Reading

(* A worker that dies says so, and nothing else. *)
LEMMA DeadLines ==
    ASSUME TypeOK, LinesInv, srv' = srv, ~worker'.alive,
           worker'.out = Append(worker.out, Message("error", "none"))
    PROVE  LinesInv' /\ StreamInv'
<1>1. worker.out \in Seq(Text) /\ Message("error", "none") \in Text
  BY MessageTypes DEF TypeOK, Worker
<1>2. Message("error", "none").kind # "finished"
  BY DEF Message
<1>3. /\ HasFinished(worker'.out) => HasFinished(worker.out)
      /\ OneFinished(worker.out) => OneFinished(worker'.out)
  BY <1>1, <1>2, FinishedAppend
<1>4. active' = active
  BY DEF active
<1>5. LinesInv'
  BY <1>3, <1>4 DEF LinesInv, HasRead, Reading
<1>6. QED  BY <1>5 DEF StreamInv

LEMMA WorkDelivery ==
    ASSUME TypeOK, TypeOK', ServerInv, WorkerInv, WorkerInv', DeliveryInv, Work
    PROVE  DeliveryInv'
<1> DEFINE w == worker
           cmd == Head(worker.in)
<1>0. /\ w.alive /\ w.in # <<>> /\ UNCHANGED <<cli, up, down, srv>>
      /\ w \in Worker /\ w.in \in Seq(Command) /\ w.out \in Seq(Text)
      /\ w.stream \in Sessions \cup {"none"} /\ "none" \notin Sessions
      /\ heard \in [Sessions -> Nat]
  BY DEF Work, serverVars, clientVars, TypeOK, Worker
<1>1. PICK s \in Sessions : srv[s].pc \in InSession
  <2>1. ~Quiet(w)
    BY <1>0 DEF Quiet
  <2>2. QED  BY <1>0, <2>1 DEF WorkerInv, active
<1>2. \A t \in Sessions : t # s => srv[t].pc \notin InSession
  BY <1>1 DEF ServerInv
<1>3. /\ w.stream # "none" => w.stream = s
      /\ Owned(w.in, Engaged) /\ Engaged = {s}
  BY <1>0, <1>1, <1>2 DEF DeliveryInv, StreamInv, Engaged
<1>4. \A t \in Sessions : heard'[t] = heard[t] + (IF cmd.kind = "pcm" /\ w.stream = t THEN 1 ELSE 0)
  BY DEF Work
<1>5. \A t \in Sessions : heard[t] \in Nat
  BY <1>0
<1>6. \A t \in Sessions : t # s => heard'[t] = heard[t]
  BY <1>0, <1>3, <1>4, <1>5
<1>7. Owned(Tail(w.in), {s}) /\ cmd.of = s /\ Tail(w.in) \in Seq(Command)
  BY <1>0, <1>3, OwnedChanges, Sequence
<1>8. \/ /\ cmd.kind = "start" /\ w.stream = "none"
         /\ worker'.alive /\ worker'.in = Tail(w.in) /\ worker'.stream = cmd.of
      \/ /\ cmd.kind = "pcm" /\ w.stream # "none"
         /\ worker'.alive /\ worker'.in = Tail(w.in) /\ worker'.stream = w.stream
      \/ /\ cmd.kind = "stop" /\ w.stream # "none"
         /\ worker'.alive /\ worker'.in = Tail(w.in) /\ worker'.stream = "none"
      \/ /\ cmd.kind = "start" => w.stream # "none"
         /\ cmd.kind \in {"pcm", "stop"} => w.stream = "none"
         /\ ~worker'.alive
         /\ worker'.out = Append(w.out, Message("error", "none"))
  BY WorkMoves
<1>9. LinesInv' /\ StreamInv'
  <2>1. CASE worker'.alive
    <3>1. Engaged' = {s}
      BY <1>0, <1>3 DEF Engaged
    <3>2. worker'.in = Tail(w.in) /\ (worker'.stream # "none" => worker'.stream = s)
      BY <1>3, <1>7, <1>8, <2>1
    <3>3. StreamInv'
      BY <1>7, <3>1, <3>2 DEF StreamInv
    <3>4. QED  BY <2>1, <3>3, LivingLines
  <2>2. CASE ~worker'.alive
    BY <1>0, <1>8, <2>2, DeadLines DEF DeliveryInv
  <2>3. QED  BY <2>1, <2>2
<1> DEFINE h == srv[s]
<1>10. /\ Delivery(cli[s], h, w, up[s], down[s], heard[s]) /\ Chat(s, h, w)
       /\ h \in Connection /\ cli[s] \in Session /\ up[s] \in Seq({"pcm", "eof", "close"})
  BY <1>0, InConversation DEF DeliveryInv, Deliveries, TypeOK
<1>11. SUFFICES Delivery(cli[s], h, worker', up[s], down[s], heard'[s])
  <2>1. Deliveries'
    BY <1>0, <1>2, <1>6, <1>11, OwnStep DEF DeliveryInv
  <2>2. QED  BY <1>9, <2>1 DEF DeliveryInv
<1>12. ~HasRead(h)
  BY <1>0, <1>10 DEF HasRead, Chat, Quiet
<1>13. CASE h.pc = "begin"
  <2>1. w.in = <<Message("start", s)>>
    BY <1>0, <1>10, <1>13 DEF Chat
  <2>2. cmd.kind = "start"
    BY <2>1 DEF Message
  <2>3. heard'[s] = heard[s]
    BY <1>4, <1>5, <2>2
  <2> HIDE DEF h
  <2>4. FlowInv(cli[s], h, worker', up[s], heard[s])
    BY <1>10, <1>13 DEF Delivery, FlowInv, Reading, HasRead
  <2>5. QED  BY <1>10, <2>3, <2>4 DEF Delivery
<1>14. CASE Reading(h)
  <2>1. /\ w.stream # "none" /\ Texts(w.out)
        /\ \/ Audio(w.in) /\ h.feeder \in {"recv", "drain"}
           \/ AudioThenStop(w.in) /\ h.feeder \in {"stop", "done"}
    BY <1>0, <1>10, <1>14 DEF Chat, Connection, Reading
  <2>2. \/ cmd.kind = "pcm"
        \/ cmd.kind = "stop" /\ Tail(w.in) = <<>> /\ h.feeder \in {"stop", "done"}
    BY <1>0, <2>1, Pipes
  <2>3. Len(w.in) = Len(Tail(w.in)) + 1
    <3>1. Len(Tail(w.in)) = Len(w.in) - 1 /\ Len(w.in) \in Nat
      BY <1>0, HeadTailProperties
    <3>2. QED  BY <3>1
  <2>4. CASE cmd.kind = "pcm"
    <3>1. worker'.alive /\ worker'.in = Tail(w.in) /\ worker'.stream = w.stream
      BY <1>8, <2>1, <2>4
    <3>2. heard'[s] = heard[s] + 1
      BY <1>3, <1>4, <2>1, <2>4
    <3>3. ~HasFinished(worker'.out)
      <4>1. Chat(s, h, worker') /\ worker'.out \in Seq(Text)
        BY <1>0, <3>1 DEF WorkerInv, TypeOK, Worker
      <4>2. Texts(worker'.out)
        BY <1>14, <2>1, <3>1, <4>1 DEF Chat, Reading
      <4>3. QED  BY <4>1, <4>2, FinishedTexts
    <3> HIDE DEF h, cmd
    <3>4. Delivery(cli[s], h, worker', up[s], down[s], heard[s] + 1)
      BY <1>0, <1>5, <1>7, <1>10, <1>14, <2>1, <2>3, <3>1, <3>3, Heard
    <3>5. QED  BY <3>2, <3>4
  <2>5. CASE cmd.kind = "stop" /\ Tail(w.in) = <<>> /\ h.feeder \in {"stop", "done"}
    <3>1. worker'.alive /\ worker'.stream = "none"
      BY <1>8, <2>1, <2>5
    <3>2. heard'[s] = heard[s]
      BY <1>4, <1>5, <2>5
    <3>3. Len(w.in) = 1
      <4> DEFINE r == Tail(w.in)
      <4>1. r = <<>> /\ Len(w.in) = Len(r) + 1
        BY <2>3, <2>5
      <4> HIDE DEF r
      <4>2. Len(r) = 0
        BY <4>1
      <4>3. QED  BY <4>1, <4>2
    <3> HIDE DEF h, cmd
    <3>4. Delivery(cli[s], h, worker', up[s], down[s], heard[s])
      BY <1>0, <1>5, <1>10, <1>14, <2>1, <2>5, <3>1, <3>3, Stopped
    <3>5. QED  BY <3>2, <3>4
  <2>6. QED  BY <2>2, <2>4, <2>5
<1>15. CASE h.pc # "begin" /\ ~Reading(h)
  <2> HIDE DEF h
  <2>1. h.pc \in InSession
    BY <1>1 DEF h
  <2>2. QED  BY <1>10, <1>12, <1>15, <2>1, Unread
<1>16. QED  BY <1>13, <1>14, <1>15

(* Starts, stops and faults. *)
LEMMA OtherStepDelivery ==
    ASSUME TypeOK, ServerInv, DeliveryInv,
           \/ StartServer \/ StartFails \/ Lifespan \/ StopServer
           \/ WorkerFails \/ WorkerHangs \/ FinalTakes \/ FinalReleases
    PROVE  DeliveryInv'
<1>0. UNCHANGED <<cli, up, down, srv, heard>> /\ worker \in Worker
  BY DEF StartServer, StartFails, Lifespan, ServerReady, Aborted, StopServer, WorkerFails,
         WorkerHangs, FinalTakes, FinalReleases, clientVars, serverVars, TypeOK
<1>1. CASE Lifespan \/ FinalTakes \/ FinalReleases
  <2>1. worker' = worker
    BY <1>1 DEF Lifespan, ServerReady, Aborted, FinalTakes, FinalReleases
  <2>2. LinesInv' /\ StreamInv'
    BY <1>0, <2>1, AsideLines DEF DeliveryInv
  <2>3. Deliveries'
    BY <1>0, <2>1 DEF DeliveryInv, Deliveries
  <2>4. QED  BY <2>2, <2>3 DEF DeliveryInv
<1>2. CASE StartServer \/ StartFails \/ StopServer
  <2>1. \A t \in Sessions : srv[t].pc \notin InSession
    BY <1>2 DEF StartServer, StartFails, StopServer, ServerInv, InSession
  <2>2. worker'.out = <<>> /\ worker'.in = <<>> /\ worker'.stream = "none"
    BY <1>2 DEF StartServer, StartFails, StopServer, NoWorker
  <2>3. LinesInv'
    BY <2>2, EmptyQueues DEF LinesInv
  <2>4. StreamInv'
    BY <2>2 DEF StreamInv, Owned
  <2>5. Deliveries'
    <3> SUFFICES ASSUME NEW t \in Sessions
                 PROVE  Delivery(cli[t], srv[t], worker', up[t], down[t], heard[t])
      BY <1>0 DEF Deliveries
    <3>1. Delivery(cli[t], srv[t], worker, up[t], down[t], heard[t])
      BY DEF DeliveryInv, Deliveries
    <3>2. QED  BY <2>1, <3>1, Elsewhere
  <2>6. QED  BY <2>3, <2>4, <2>5 DEF DeliveryInv
<1>3. CASE WorkerFails
  <2>1. ~worker'.alive /\ worker'.out = Append(worker.out, Message("error", "none"))
    BY <1>3 DEF WorkerFails, NoWorker
  <2>2. LinesInv' /\ StreamInv'
    BY <1>0, <2>1, DeadLines DEF DeliveryInv
  <2>3. HasFinished(worker'.out) => HasFinished(worker.out)
    <3>1. worker.out \in Seq(Text) /\ Message("error", "none") \in Text
      BY MessageTypes DEF TypeOK, Worker
    <3>2. Message("error", "none").kind # "finished"
      BY DEF Message
    <3>3. QED  BY <2>1, <3>1, <3>2, FinishedAppend
  <2>4. Deliveries'
    <3> SUFFICES ASSUME NEW t \in Sessions
                 PROVE  Delivery(cli[t], srv[t], worker', up[t], down[t], heard[t])
      BY <1>0 DEF Deliveries
    <3>1. Delivery(cli[t], srv[t], worker, up[t], down[t], heard[t])
      BY DEF DeliveryInv, Deliveries
    <3>2. FlowInv(cli[t], srv[t], worker', up[t], heard[t])
      BY <2>1, <2>3, <3>1 DEF Delivery, FlowInv
    <3>3. QED  BY <3>1, <3>2 DEF Delivery
  <2>5. QED  BY <2>2, <2>4 DEF DeliveryInv
<1>4. CASE WorkerHangs
  <2>1. /\ worker'.alive = worker.alive /\ worker'.stream = worker.stream
        /\ worker'.in = worker.in /\ worker'.out = worker.out
    BY <1>0, <1>4 DEF WorkerHangs, Worker
  <2>2. active' = active /\ Engaged' = Engaged
    BY <1>0 DEF active, Engaged
  <2>3. LinesInv' /\ StreamInv'
    BY <1>0, <2>1, <2>2 DEF DeliveryInv, LinesInv, StreamInv, HasRead, Reading
  <2>4. Deliveries'
    <3> SUFFICES ASSUME NEW t \in Sessions
                 PROVE  Delivery(cli[t], srv[t], worker', up[t], down[t], heard[t])
      BY <1>0 DEF Deliveries
    <3>1. Delivery(cli[t], srv[t], worker, up[t], down[t], heard[t])
      BY DEF DeliveryInv, Deliveries
    <3>2. FlowInv(cli[t], srv[t], worker', up[t], heard[t])
      BY <2>1, <3>1 DEF Delivery, FlowInv
    <3>3. QED  BY <3>1, <3>2 DEF Delivery
  <2>5. QED  BY <2>3, <2>4 DEF DeliveryInv
<1>5. QED  BY <1>1, <1>2, <1>3, <1>4

-----------------------------------------------------------------------------
(* The theorems *)

LEMMA InitDelivery == Init => DeliveryInv
<1> SUFFICES ASSUME Init PROVE DeliveryInv
  OBVIOUS
<1>1. /\ \A s \in Sessions : /\ cli[s] = NewClient /\ srv[s] = NoHandler /\ up[s] = <<>>
                             /\ down[s] = <<>> /\ heard[s] = 0
      /\ worker = NoWorker
  BY DEF Init
<1>2. ClientInv(NewClient, <<>>)
  BY FramesInEmpty, EmptyQueues DEF ClientInv, NewClient
<1>3. FlowInv(NewClient, NoHandler, NoWorker, <<>>, 0)
  <2>1. Waiting(NewClient, <<>>) = 0
    BY FramesInEmpty DEF Waiting, NewClient
  <2>2. NewClient.fed = Waiting(NewClient, <<>>) + 0
    BY <2>1 DEF NewClient
  <2>3. QED  BY <2>2 DEF FlowInv, Reading, HasRead, NoHandler
<1>4. AckInv(NewClient, NoHandler, <<>>, 0)
  BY EmptyQueues DEF AckInv, NewClient, NoHandler
<1>5. Deliveries
  BY <1>1, <1>2, <1>3, <1>4 DEF Deliveries, Delivery
<1>6. LinesInv /\ StreamInv
  <2>1. ~HasFinished(NoWorker.out) /\ OneFinished(NoWorker.out) /\ ~NoWorker.alive
    BY EmptyQueues DEF NoWorker
  <2>2. QED  BY <1>1, <2>1 DEF LinesInv, StreamInv
<1>7. QED  BY <1>5, <1>6 DEF DeliveryInv

LEMMA DeliveryStep ==
    /\ TypeOK /\ ServerInv /\ WorkerInv /\ DeliveryInv /\ [Next]_vars
    /\ TypeOK' /\ WorkerInv'
    => DeliveryInv'
<1> SUFFICES ASSUME TypeOK, ServerInv, WorkerInv, DeliveryInv, [Next]_vars, TypeOK', WorkerInv'
             PROVE  DeliveryInv'
  OBVIOUS
<1>1. ASSUME NEW s \in Sessions, Handler(s) \/ HandlerRaises(s) PROVE DeliveryInv'
  BY <1>1, AdmitDelivery, BeginDelivery, ResultsDelivery, FeedWorkerDelivery, WaitsDelivery,
     ReleaseDelivery DEF Handler
<1>2. CASE Next
  BY <1>1, <1>2, ClientStepDelivery, WorkDelivery, OtherStepDelivery DEF Next
<1>3. CASE UNCHANGED vars
  BY <1>3 DEF vars, DeliveryInv, Deliveries, LinesInv, StreamInv, Engaged, active, Reading, HasRead
<1>4. QED  BY <1>2, <1>3

LEMMA DeliveryInvariance == Spec => []DeliveryInv
<1>1. /\ TypeOK /\ ServerInv /\ WorkerInv /\ DeliveryInv /\ [Next]_vars
      /\ (TypeOK /\ ServerInv /\ WorkerInv)'
      => DeliveryInv'
  BY DeliveryStep
<1>2. QED  BY <1>1, InitDelivery, Invariance, PTL DEF Spec

(* The bound on waiting audio counts the frames that wait, in every client *)
(* and at every moment, and a preview that has ended keeps none.           *)
THEOREM PendingCounts == Spec => []PendingIsExact
<1>1. DeliveryInv => PendingIsExact
  BY DEF DeliveryInv, Deliveries, Delivery, ClientInv, PendingIsExact
<1>2. QED  BY <1>1, DeliveryInvariance, PTL

(* An acknowledged preview had every frame that the client accepted taken  *)
(* in by the worker, and one that ends without a failure is acknowledged,  *)
(* unless the teardown was cancelled while it waited.                      *)
THEOREM AcknowledgedIsHeard == Spec => []AckIsComplete
<1>1. DeliveryInv => AckIsComplete
  BY DEF DeliveryInv, Deliveries, Delivery, AckInv, Complete, AckIsComplete
<1>2. QED  BY <1>1, DeliveryInvariance, PTL

=============================================================================
