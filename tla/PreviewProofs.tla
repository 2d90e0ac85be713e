---------------------------- MODULE PreviewProofs ----------------------------
(***************************************************************************)
(* Proofs about Preview, for any number of recordings, all buffer sizes    *)
(* and any number of faults.                                               *)
(***************************************************************************)
EXTENDS Preview, FiniteSetTheorems, SequenceTheorems, TLAPS

USE PreviewAssumption

-----------------------------------------------------------------------------
(* Types *)

(* Sequences stay sequences. *)
LEMMA Sequence ==
    ASSUME NEW S
    PROVE  /\ <<>> \in Seq(S)
           /\ \A q \in Seq(S), x \in S : Append(q, x) \in Seq(S)
           /\ \A q \in Seq(S) : q # <<>> => Head(q) \in S /\ Tail(q) \in Seq(S)
           /\ \A q, r \in Seq(S) : q \o r \in Seq(S)
           /\ \A x \in S : <<x>> \in Seq(S)
           /\ \A x, y \in S : <<x, y>> \in Seq(S)
<1>1. \A q \in Seq(S) : q # <<>> => Head(q) \in S /\ Tail(q) \in Seq(S)
  BY HeadTailProperties
<1>2. \A q, r \in Seq(S) : q \o r \in Seq(S)
  BY ConcatProperties
<1>3. QED  BY <1>1, <1>2

(* Every record that is built is what it should be. *)
LEMMA Constants ==
    /\ NewClient \in Session /\ NoHandler \in Connection /\ NoWorker \in Worker
    /\ [NoWorker EXCEPT !.alive = TRUE] \in Worker
    /\ [NoHandler EXCEPT !.pc = "gone"] \in Connection
<1>1. NewClient \in Session
  BY Sequence DEF NewClient, Session
<1>2. NoHandler \in Connection /\ [NoHandler EXCEPT !.pc = "gone"] \in Connection
  BY DEF NoHandler, Connection, InSession
<1>3. NoWorker \in Worker /\ [NoWorker EXCEPT !.alive = TRUE] \in Worker
  BY Sequence DEF NoWorker, Worker
<1>4. QED  BY <1>1, <1>2, <1>3

LEMMA MessageTypes ==
    /\ \A s \in Sessions, k \in {"start", "pcm", "stop"} : Message(k, s) \in Command
    /\ \A s \in Sessions, k \in {"started", "snapshot", "finished"} : Message(k, s) \in Text
    /\ \A s \in Sessions, k \in {"config", "snapshot", "ready_to_stop", "error", "close"} :
          Message(k, s) \in Reply
    /\ Message("error", "none") \in Text
    /\ \A x \in Text : x.kind # "error" => x.of \in Sessions /\ x = Message(x.kind, x.of)
BY DEF Message, Command, Text, Reply

LEMMA FaultType == TypeOK /\ (Fault \/ NoFault) => faults' \in 0 .. MaxFaults
BY DEF TypeOK, Fault, NoFault

LEMMA TimesOutType == TypeOK /\ TimesOut => faults' \in 0 .. MaxFaults
BY FaultType DEF TimesOut

LEMMA SentType ==
    ASSUME TypeOK, NEW s \in Sessions, NEW m \in Seq(Reply)
    PROVE  Sent(s, m) \in [Sessions -> Seq(Reply)]
<1>1. down[s] \o m \in Seq(Reply)
  BY Sequence DEF TypeOK
<1>2. QED  BY <1>1 DEF Sent, TypeOK

(* A client that changes. *)
LEMMA ClientTypes ==
    ASSUME NEW c \in Session
    PROVE  /\ \A p \in {"connect", "config", "run", "closing", "done"} : [c EXCEPT !.pc = p] \in Session
           /\ \A f : [c EXCEPT !.pc = "closing", !.failed = @ \/ f] \in Session
           /\ \A f : [[c EXCEPT !.pc = "closing", !.failed = @ \/ f] EXCEPT !.accepting = FALSE] \in Session
           /\ [c EXCEPT !.fed = @ + 1, !.pending = @ + 1, !.queue = Append(@, "pcm")] \in Session
           /\ c.queue # <<>> => Taken(c) \in Session
           /\ \A t \in {"get", "done", "failed"} : [c EXCEPT !.tx = t] \in Session
           /\ [c EXCEPT !.ack = TRUE, !.rx = "done"] \in Session
           /\ [c EXCEPT !.rx = "failed"] \in Session
           /\ [c EXCEPT !.pc = "done", !.accepting = FALSE, !.queue = <<>>,
                        !.pending = 0, !.tx = "get", !.rx = "run"] \in Session
           /\ [Ended(c) EXCEPT !.fin = "wait"] \in Session
           /\ \A x \in {"returned", "raised"} : [c EXCEPT !.fin = x] \in Session
           /\ \A f : [[c EXCEPT !.pc = "closing", !.failed = @ \/ f] EXCEPT !.fin = "cancelled"] \in Session
<1>0. /\ Append(c.queue, "pcm") \in Seq({"pcm", "eof"}) /\ Append(c.queue, "eof") \in Seq({"pcm", "eof"})
      /\ c.queue # <<>> => Head(c.queue) \in {"pcm", "eof"} /\ Tail(c.queue) \in Seq({"pcm", "eof"})
  BY Sequence DEF Session
<1>1. \A p \in {"connect", "config", "run", "closing", "done"} : [c EXCEPT !.pc = p] \in Session
  BY DEF Session
<1>2. \A f : [c EXCEPT !.pc = "closing", !.failed = @ \/ f] \in Session
  BY DEF Session
<1>3. \A f : [[c EXCEPT !.pc = "closing", !.failed = @ \/ f] EXCEPT !.accepting = FALSE] \in Session
  BY DEF Session
<1>4. [c EXCEPT !.fed = @ + 1, !.pending = @ + 1, !.queue = Append(@, "pcm")] \in Session
  <2>1. c.fed + 1 \in Nat /\ c.pending + 1 \in Int
    BY DEF Session
  <2>2. QED  BY <1>0, <2>1 DEF Session
<1>5. c.queue # <<>> => Taken(c) \in Session
  <2> DEFINE n == IF Head(c.queue) = "pcm" THEN c.pending - 1 ELSE c.pending
  <2>1. n \in Int
    BY DEF Session
  <2>2. Taken(c) = [c EXCEPT !.queue = Tail(@), !.tx = Head(c.queue), !.pending = n]
    BY DEF Taken
  <2> HIDE DEF n
  <2>3. QED  BY <1>0, <2>1, <2>2 DEF Session
<1>6. \A t \in {"get", "done", "failed"} : [c EXCEPT !.tx = t] \in Session
  BY DEF Session
<1>7. [c EXCEPT !.ack = TRUE, !.rx = "done"] \in Session /\ [c EXCEPT !.rx = "failed"] \in Session
  BY DEF Session
<1>8. [c EXCEPT !.pc = "done", !.accepting = FALSE, !.queue = <<>>,
                !.pending = 0, !.tx = "get", !.rx = "run"] \in Session
  <2> DEFINE e == <<>>
             z == 0
             d == [c EXCEPT !.pc = "done", !.accepting = FALSE, !.queue = e]
  <2>1. e \in Seq({"pcm", "eof"}) /\ z \in Int
    BY Sequence
  <2> HIDE DEF e, z
  <2>2. d \in Session
    BY <2>1 DEF Session
  <2>3. [c EXCEPT !.pc = "done", !.accepting = FALSE, !.queue = e,
                  !.pending = z, !.tx = "get", !.rx = "run"]
        = [d EXCEPT !.pending = z, !.tx = "get", !.rx = "run"]
    OBVIOUS
  <2> HIDE DEF d
  <2>4. [d EXCEPT !.pending = z, !.tx = "get", !.rx = "run"] \in Session
    BY <2>1, <2>2 DEF Session
  <2>5. QED  BY <2>3, <2>4 DEF e, z
<1>9. [Ended(c) EXCEPT !.fin = "wait"] \in Session
  BY <1>0 DEF Session, Ended
<1>10. \A x \in {"returned", "raised"} : [c EXCEPT !.fin = x] \in Session
  BY DEF Session
<1>11. \A f : [[c EXCEPT !.pc = "closing", !.failed = @ \/ f] EXCEPT !.fin = "cancelled"] \in Session
  BY DEF Session
<1>12. QED
  BY <1>1, <1>2, <1>3, <1>4, <1>5, <1>6, <1>7, <1>8, <1>9, <1>10, <1>11

(* A handler that changes. *)
LEMMA HandlerTypes ==
    ASSUME NEW h \in Connection
    PROVE  /\ \A p \in {"none", "accept", "gone"} \cup InSession : [h EXCEPT !.pc = p] \in Connection
           /\ \A o \in {"passed", "failed", "indeterminate"} :
                 [h EXCEPT !.pc = "cleanup", !.outcome = o] \in Connection
           /\ \A b : [h EXCEPT !.disconnected = @ \/ b] \in Connection
           /\ \A r \in {"done", "failed"} : [h EXCEPT !.reader = r] \in Connection
           /\ \A f \in {"recv", "drain", "stop", "done", "failed"} : [h EXCEPT !.feeder = f] \in Connection
           /\ \A b : \A f \in {"drain", "stop"} :
                 [h EXCEPT !.feeder = f, !.disconnected = @ \/ b] \in Connection
<1>1. \A p \in {"none", "accept", "gone"} \cup InSession : [h EXCEPT !.pc = p] \in Connection
  BY DEF Connection, InSession
<1>2. \A o \in {"passed", "failed", "indeterminate"} :
                 [h EXCEPT !.pc = "cleanup", !.outcome = o] \in Connection
  BY DEF Connection, InSession
<1>3. \A b : [h EXCEPT !.disconnected = @ \/ b] \in Connection
  BY DEF Connection
<1>4. \A r \in {"done", "failed"} : [h EXCEPT !.reader = r] \in Connection
  BY DEF Connection
<1>5. \A f \in {"recv", "drain", "stop", "done", "failed"} : [h EXCEPT !.feeder = f] \in Connection
  BY DEF Connection
<1>6. \A b : \A f \in {"drain", "stop"} :
                 [h EXCEPT !.feeder = f, !.disconnected = @ \/ b] \in Connection
  BY DEF Connection
<1>7. QED  BY <1>1, <1>2, <1>3, <1>4, <1>5, <1>6

(* A worker that changes. *)
LEMMA WorkerTypes ==
    ASSUME TypeOK
    PROVE  /\ \A x \in Command : [worker EXCEPT !.in = IF worker.alive THEN Append(@, x) ELSE @] \in Worker
           /\ ReadLine => worker' \in Worker
           /\ Line \in Text
           /\ [NoWorker EXCEPT !.out = Append(worker.out, Message("error", "none"))] \in Worker
           /\ [worker EXCEPT !.hung = TRUE] \in Worker
           /\ worker.in # <<>> => After(Head(worker.in)) \subseteq Worker
<1>0. /\ worker \in Worker /\ worker.in \in Seq(Command) /\ worker.out \in Seq(Text)
      /\ worker.stream \in Sessions \cup {"none"}
  BY DEF TypeOK, Worker
<1>1. \A x \in Command : [worker EXCEPT !.in = IF worker.alive THEN Append(@, x) ELSE @] \in Worker
  <2>1. \A x \in Command : Append(worker.in, x) \in Seq(Command)
    BY <1>0, Sequence
  <2>2. QED  BY <1>0, <2>1 DEF Worker
<1>2. ReadLine => worker' \in Worker
  <2>1. worker.out # <<>> => Tail(worker.out) \in Seq(Text)
    BY <1>0, Sequence
  <2>2. QED  BY <1>0, <2>1 DEF Worker, ReadLine
<1>3. Line \in Text
  BY <1>0, Sequence, MessageTypes DEF Line
<1>4. [NoWorker EXCEPT !.out = Append(worker.out, Message("error", "none"))] \in Worker
  <2>1. Append(worker.out, Message("error", "none")) \in Seq(Text)
    BY <1>0, Sequence, MessageTypes
  <2>2. QED  BY <1>0, <2>1, Sequence DEF Worker, NoWorker
<1>5. [worker EXCEPT !.hung = TRUE] \in Worker
  BY <1>0 DEF Worker
<1>6. ASSUME worker.in # <<>> PROVE After(Head(worker.in)) \subseteq Worker
  <2> DEFINE w == worker
             cmd == Head(w.in)
             Emits(stream, lines) ==
                [w EXCEPT !.in = Tail(@), !.stream = stream, !.out = @ \o lines]
             texts == {<<>>, <<Message("snapshot", w.stream)>>}
  <2> SUFFICES After(cmd) \subseteq Worker
    OBVIOUS
  <2>0. cmd \in Command /\ Tail(w.in) \in Seq(Command)
    BY <1>0, <1>6, Sequence
  <2>1. cmd \in Command /\ Tail(w.in) \in Seq(Command) /\ cmd.of \in Sessions
    BY <2>0 DEF Command
  <2>2. \A st \in Sessions \cup {"none"}, l \in Seq(Text) : Emits(st, l) \in Worker
    <3>1. \A l \in Seq(Text) : w.out \o l \in Seq(Text)
      BY <1>0, Sequence
    <3>2. QED  BY <1>0, <2>1, <3>1 DEF Worker
  <2>3. w.stream # "none" => texts \subseteq Seq(Text)
    BY <1>0, Sequence, MessageTypes
  <2>4. w.stream # "none" =>
          \A t \in texts : Append(t, Message("finished", w.stream)) \in Seq(Text)
    BY <1>0, <2>3, Sequence, MessageTypes
  <2>5. <<Message("started", cmd.of)>> \in Seq(Text)
    BY <2>1, Sequence, MessageTypes
  <2>6. After(cmd) =
          CASE cmd.kind = "start" /\ w.stream = "none" ->
                 {Emits(cmd.of, <<Message("started", cmd.of)>>)}
            [] cmd.kind = "pcm" /\ w.stream # "none" -> {Emits(w.stream, t) : t \in texts}
            [] cmd.kind = "stop" /\ w.stream # "none" ->
                 {Emits("none", Append(t, Message("finished", w.stream))) : t \in texts}
            [] OTHER -> {[NoWorker EXCEPT !.out = Append(w.out, Message("error", "none"))]}
    BY DEF After
  <2> HIDE DEF Emits, texts, cmd
  <2>7. CASE cmd.kind = "start" /\ w.stream = "none"
    <3>1. After(cmd) = {Emits(cmd.of, <<Message("started", cmd.of)>>)}
      BY <2>6, <2>7
    <3>2. Emits(cmd.of, <<Message("started", cmd.of)>>) \in Worker
      BY <2>1, <2>2, <2>5
    <3>3. QED  BY <3>1, <3>2
  <2>8. CASE cmd.kind = "pcm" /\ w.stream # "none"
    <3>1. After(cmd) = {Emits(w.stream, t) : t \in texts}
      BY <2>6, <2>8
    <3>2. \A t \in texts : Emits(w.stream, t) \in Worker
      BY <1>0, <2>2, <2>3, <2>8
    <3>3. QED  BY <3>1, <3>2
  <2>9. CASE cmd.kind = "stop" /\ w.stream # "none"
    <3>1. After(cmd) = {Emits("none", Append(t, Message("finished", w.stream))) : t \in texts}
      BY <2>6, <2>9
    <3>2. \A t \in texts : Emits("none", Append(t, Message("finished", w.stream))) \in Worker
      BY <1>0, <2>2, <2>4, <2>9
    <3>3. QED  BY <3>1, <3>2
  <2>10. CASE /\ ~(cmd.kind = "start" /\ w.stream = "none")
              /\ ~(cmd.kind = "pcm" /\ w.stream # "none")
              /\ ~(cmd.kind = "stop" /\ w.stream # "none")
    <3>1. After(cmd) = {[NoWorker EXCEPT !.out = Append(w.out, Message("error", "none"))]}
      BY <2>6, <2>10
    <3>2. QED  BY <1>4, <3>1
  <2>11. QED  BY <2>7, <2>8, <2>9, <2>10
<1>7. QED  BY <1>1, <1>2, <1>3, <1>4, <1>5, <1>6

LEMMA InitType == Init => TypeOK
<1>1. <<>> \in Seq({"pcm", "eof", "close"}) /\ <<>> \in Seq(Reply)
  BY Sequence
<1> SUFFICES ASSUME Init PROVE TypeOK
  OBVIOUS
<1>2. cli \in [Sessions -> Session] /\ srv \in [Sessions -> Connection] /\ worker \in Worker
  BY Constants DEF Init
<1>3. up \in [Sessions -> Seq({"pcm", "eof", "close"})] /\ down \in [Sessions -> Seq(Reply)]
  BY <1>1 DEF Init
<1>4. heard \in [Sessions -> Nat] /\ faults \in 0 .. MaxFaults
  BY DEF Init
<1>5. QED  BY <1>2, <1>3, <1>4 DEF Init, TypeOK

(* The client's steps. *)
LEMMA ClientStepType ==
    ASSUME TypeOK, NEW s \in Sessions, Client(s) PROVE TypeOK'
<1>0. cli[s] \in Session /\ up[s] \in Seq({"pcm", "eof", "close"}) /\ down[s] \in Seq(Reply)
  BY DEF TypeOK
<1>1. CASE Feed(s)
  <2>1. cli' \in [Sessions -> Session]
    BY <1>0, <1>1, ClientTypes DEF Feed, Leaves, TypeOK
  <2>2. QED  BY <1>1, <2>1 DEF Feed, serverVars, TypeOK
<1>2. CASE Connect(s)
  <2>1. cli' \in [Sessions -> Session]
    BY <1>0, <1>2, ClientTypes DEF Connect, Leaves, TypeOK
  <2>2. srv' \in [Sessions -> Connection]
    <3>1. srv[s] \in Connection
      BY DEF TypeOK
    <3>2. [srv[s] EXCEPT !.pc = "accept"] \in Connection
      BY <3>1, HandlerTypes
    <3>3. QED  BY <1>2, <3>2 DEF Connect, TypeOK
  <2>3. faults' \in 0 .. MaxFaults
    BY <1>2, FaultType DEF Connect
  <2>4. QED  BY <1>2, <2>1, <2>2, <2>3 DEF Connect, TypeOK
<1>3. CASE ReadConfig(s)
  <2>1. cli' \in [Sessions -> Session]
    BY <1>0, <1>3, ClientTypes DEF ReadConfig, Leaves, TypeOK
  <2>2. down' \in [Sessions -> Seq(Reply)]
    <3>1. down[s] # <<>> => Tail(down[s]) \in Seq(Reply)
      BY <1>0, Sequence
    <3>2. QED  BY <1>3, <3>1 DEF ReadConfig, TypeOK
  <2>3. faults' \in 0 .. MaxFaults
    BY <1>3, FaultType, TimesOutType DEF ReadConfig
  <2>4. QED  BY <1>3, <2>1, <2>2, <2>3 DEF ReadConfig, serverVars, TypeOK
<1>4. CASE ClientEnds(s)
  <2>1. cli' \in [Sessions -> Session]
    BY <1>0, <1>4, ClientTypes DEF ClientEnds, Leaves, TypeOK
  <2>2. QED  BY <1>4, <2>1 DEF ClientEnds, serverVars, TypeOK
<1>5. CASE CloseSocket(s)
  <2>1. cli' \in [Sessions -> Session]
    BY <1>0, <1>5, ClientTypes DEF CloseSocket, TypeOK
  <2>2. Append(up[s], "close") \in Seq({"pcm", "eof", "close"})
    BY <1>0, Sequence
  <2>3. up' \in [Sessions -> Seq({"pcm", "eof", "close"})]
    BY <1>5, <2>2 DEF CloseSocket, TypeOK
  <2>4. down' \in [Sessions -> Seq(Reply)]
    BY <1>5, Sequence DEF CloseSocket, TypeOK
  <2>5. QED  BY <1>5, <2>1, <2>3, <2>4 DEF CloseSocket, serverVars, TypeOK
<1>6. CASE Take(s)
  <2>1. Taken(cli[s]) \in Session
    BY <1>0, <1>6, ClientTypes DEF Take
  <2>2. QED  BY <1>6, <2>1 DEF Take, serverVars, TypeOK
<1>7. CASE Push(s)
  <2>1. \A t \in {"get", "done", "failed"} : [cli[s] EXCEPT !.tx = t] \in Session
    BY <1>0, ClientTypes
  <2>2. cli' \in [Sessions -> Session]
    BY <1>7, <2>1 DEF Push, TypeOK
  <2>3. Append(up[s], cli[s].tx) \in Seq({"pcm", "eof", "close"})
    BY <1>0, <1>7, Sequence DEF Push
  <2>4. up' \in [Sessions -> Seq({"pcm", "eof", "close"})]
    BY <1>7, <2>3 DEF Push, TypeOK
  <2>5. QED  BY <1>7, <2>2, <2>4 DEF Push, serverVars, TypeOK
<1>8. CASE Receive(s)
  <2>1. cli' \in [Sessions -> Session]
    BY <1>0, <1>8, ClientTypes DEF Receive, TypeOK
  <2>2. down' \in [Sessions -> Seq(Reply)]
    BY <1>0, <1>8, Sequence DEF Receive, TypeOK
  <2>3. QED  BY <1>8, <2>1, <2>2 DEF Receive, serverVars, TypeOK
<1>9. CASE Finish(s) \/ FinishReturns(s)
  <2>1. cli' \in [Sessions -> Session]
    BY <1>0, <1>9, ClientTypes DEF Finish, FinishReturns, TypeOK
  <2>2. QED  BY <1>9, <2>1 DEF Finish, FinishReturns, serverVars, TypeOK
<1>10. CASE FinishTimeout(s)
  <2>1. cli' \in [Sessions -> Session]
    BY <1>0, <1>10, ClientTypes DEF FinishTimeout, Leaves, TypeOK
  <2>2. faults' \in 0 .. MaxFaults
    BY <1>10, TimesOutType DEF FinishTimeout
  <2>3. QED  BY <1>10, <2>1, <2>2 DEF FinishTimeout, serverVars, TypeOK
<1>11. CASE FinishCancelled(s)
  <2>1. cli' \in [Sessions -> Session]
    BY <1>0, <1>11, ClientTypes DEF FinishCancelled, Leaves, TypeOK
  <2>2. faults' \in 0 .. MaxFaults
    BY <1>11, FaultType DEF FinishCancelled
  <2>3. QED  BY <1>11, <2>1, <2>2 DEF FinishCancelled, serverVars, TypeOK
<1>12. QED
  BY <1>1, <1>2, <1>3, <1>4, <1>5, <1>6, <1>7, <1>8, <1>9, <1>10, <1>11 DEF Client

(* The last message and the end of a handler. *)
LEMMA ReleaseType ==
    ASSUME TypeOK, NEW s \in Sessions, Release(s)
    PROVE  /\ srv' \in [Sessions -> Connection]
           /\ up' \in [Sessions -> Seq({"pcm", "eof", "close"})]
           /\ down' \in [Sessions -> Seq(Reply)]
           /\ lock' = "nobody"
<1> DEFINE last == Message(IF srv[s].outcome = "passed" THEN "ready_to_stop" ELSE "error", s)
<1>1. last \in Reply /\ Message("close", s) \in Reply
  BY MessageTypes
<1>2. <<last, Message("close", s)>> \in Seq(Reply)
  BY <1>1, Sequence
<1>3. down' = Sent(s, <<last, Message("close", s)>>)
  BY DEF Release
<1> HIDE DEF last
<1>4. down' \in [Sessions -> Seq(Reply)]
  BY <1>2, <1>3, SentType
<1>5. srv' \in [Sessions -> Connection]
  BY Constants DEF Release, TypeOK
<1>6. up' \in [Sessions -> Seq({"pcm", "eof", "close"})]
  BY Sequence DEF Release, TypeOK
<1>7. QED  BY <1>4, <1>5, <1>6 DEF Release

LEMMA EndsType ==
    ASSUME TypeOK, NEW s \in Sessions, NEW o \in {"passed", "failed", "indeterminate"}, Ends(s, o)
    PROVE  srv' \in [Sessions -> Connection]
<1>1. srv[s] \in Connection
  BY DEF TypeOK
<1>2. [srv[s] EXCEPT !.pc = "cleanup", !.outcome = o] \in Connection
  BY <1>1, HandlerTypes
<1>3. QED  BY <1>2 DEF Ends, TypeOK

(* The handler's steps. *)
LEMMA HandlerStepType ==
    ASSUME TypeOK, NEW s \in Sessions, Handler(s) \/ HandlerRaises(s) PROVE TypeOK'
<1>0. srv[s] \in Connection /\ up[s] \in Seq({"pcm", "eof", "close"})
  BY DEF TypeOK
<1>1. CASE Admit(s)
  <2>1. srv' \in [Sessions -> Connection]
    <3>1. [srv[s] EXCEPT !.pc = "begin"] \in Connection /\ [srv[s] EXCEPT !.pc = "gone"] \in Connection
      BY <1>0, HandlerTypes DEF InSession
    <3>2. QED  BY <1>1, <3>1 DEF Admit, TypeOK
  <2>2. worker' \in Worker
    BY <1>1, WorkerTypes, MessageTypes DEF Admit, TypeOK
  <2>3. down' \in [Sessions -> Seq(Reply)]
    <3>1. <<Message("close", s)>> \in Seq(Reply)
      BY MessageTypes, Sequence
    <3>2. Sent(s, <<Message("close", s)>>) \in [Sessions -> Seq(Reply)]
      BY <3>1, SentType
    <3>3. QED  BY <1>1, <3>2 DEF Admit, TypeOK
  <2>4. QED  BY <1>1, <2>1, <2>2, <2>3 DEF Admit, TypeOK
<1>2. CASE BeginSession(s)
  <2>1. srv' \in [Sessions -> Connection]
    <3>1. [srv[s] EXCEPT !.pc = "both"] \in Connection
      BY <1>0, HandlerTypes DEF InSession
    <3>2. QED  BY <1>2, <3>1, EndsType DEF BeginSession, TypeOK
  <2>2. worker' \in Worker
    BY <1>2, WorkerTypes DEF BeginSession, TypeOK
  <2>3. down' \in [Sessions -> Seq(Reply)]
    <3>1. <<Message("config", s)>> \in Seq(Reply)
      BY MessageTypes, Sequence
    <3>2. Sent(s, <<Message("config", s)>>) \in [Sessions -> Seq(Reply)]
      BY <3>1, SentType
    <3>3. QED  BY <1>2, <3>2 DEF BeginSession, TypeOK
  <2>4. faults' \in 0 .. MaxFaults
    BY <1>2, FaultType, TimesOutType DEF BeginSession
  <2>5. QED  BY <1>2, <2>1, <2>2, <2>3, <2>4 DEF BeginSession, TypeOK
<1>3. CASE Results(s)
  <2>1. srv' \in [Sessions -> Connection]
    <3>1. /\ [srv[s] EXCEPT !.disconnected = @ \/ cli[s].pc = "done"] \in Connection
          /\ [srv[s] EXCEPT !.reader = "done"] \in Connection
          /\ [srv[s] EXCEPT !.reader = "failed"] \in Connection
      BY <1>0, HandlerTypes
    <3>2. QED  BY <1>3, <3>1 DEF Results, TypeOK
  <2>2. worker' \in Worker
    BY <1>3, WorkerTypes DEF Results
  <2>3. down' \in [Sessions -> Seq(Reply)]
    <3>1. CASE Line.kind = "snapshot"
      <4>1. Line \in Reply
        BY <3>1, WorkerTypes, MessageTypes
      <4>2. <<Line>> \in Seq(Reply)
        BY <4>1, Sequence
      <4>3. down' = Sent(s, <<Line>>)
        BY <1>3, <3>1 DEF Results
      <4>4. QED  BY <4>2, <4>3, SentType
    <3>2. CASE Line.kind # "snapshot"
      BY <1>3, <3>2 DEF Results, TypeOK
    <3>3. QED  BY <3>1, <3>2
  <2>4. QED  BY <1>3, <2>1, <2>2, <2>3 DEF Results, TypeOK
<1>4. CASE FeedWorker(s)
  <2> DEFINE audio == Head(up[s]) = "pcm"
  <2>1. srv' \in [Sessions -> Connection]
    <3>1. \A f \in {"drain", "stop"} :
             [srv[s] EXCEPT !.feeder = f, !.disconnected = @ \/ Head(up[s]) = "close"] \in Connection
      BY <1>0, HandlerTypes
    <3> DEFINE f == IF audio THEN "drain" ELSE "stop"
    <3>2. srv' = [srv EXCEPT ![s] = [srv[s] EXCEPT !.feeder = f,
                                          !.disconnected = @ \/ Head(up[s]) = "close"]]
      BY <1>0, <1>4 DEF FeedWorker, Connection, TypeOK
    <3>3. f \in {"drain", "stop"}
      OBVIOUS
    <3> HIDE DEF f
    <3>4. QED  BY <3>1, <3>2, <3>3 DEF TypeOK
  <2>2. worker' \in Worker
    <3>1. \A x \in Command : [worker EXCEPT !.in = IF worker.alive THEN Append(@, x) ELSE @] \in Worker
      BY WorkerTypes
    <3>2. Message(IF audio THEN "pcm" ELSE "stop", s) \in Command
      BY MessageTypes
    <3>3. worker' = [worker EXCEPT !.in = IF worker.alive
                        THEN Append(@, Message(IF audio THEN "pcm" ELSE "stop", s)) ELSE @]
      BY <1>4 DEF FeedWorker
    <3> HIDE DEF audio
    <3>4. QED  BY <3>1, <3>2, <3>3
  <2>3. up' \in [Sessions -> Seq({"pcm", "eof", "close"})]
    BY <1>0, <1>4, Sequence DEF FeedWorker, TypeOK
  <2>4. QED  BY <1>4, <2>1, <2>2, <2>3 DEF FeedWorker, TypeOK
<1>5. CASE Drain(s)
  <2>1. srv' \in [Sessions -> Connection]
    <3>1. \A f \in {"recv", "done", "failed"} : [srv[s] EXCEPT !.feeder = f] \in Connection
      BY <1>0, HandlerTypes
    <3>2. QED  BY <1>5, <3>1 DEF Drain, TypeOK
  <2>2. QED  BY <1>5, <2>1 DEF Drain, clientVars, TypeOK
<1>6. CASE Await(s)
  <2>1. srv' \in [Sessions -> Connection]
    <3>1. [srv[s] EXCEPT !.pc = "last"] \in Connection
      BY <1>0, HandlerTypes DEF InSession
    <3>2. QED  BY <1>6, <3>1, EndsType DEF Await, TypeOK
  <2>2. faults' \in 0 .. MaxFaults
    BY <1>6, FaultType, TimesOutType DEF Await
  <2>3. QED  BY <1>6, <2>1, <2>2 DEF Await, clientVars, TypeOK
<1>7. CASE Cleanup(s)
  <2>1. CASE srv[s].outcome = "passed"
    BY <1>7, <2>1, ReleaseType DEF Cleanup, TypeOK
  <2>2. CASE srv[s].outcome # "passed"
    <3>1. [srv[s] EXCEPT !.pc = "reap"] \in Connection
      BY <1>0, HandlerTypes DEF InSession
    <3>2. QED  BY <1>7, <2>2, <3>1 DEF Cleanup, TypeOK
  <2>3. QED  BY <2>1, <2>2
<1>8. CASE Reap(s)
  BY <1>8, ReleaseType, Constants DEF Reap, TypeOK
<1>9. CASE HandlerRaises(s)
  <2>1. srv' \in [Sessions -> Connection]
    BY <1>9, EndsType DEF HandlerRaises
  <2>2. faults' \in 0 .. MaxFaults
    BY <1>9, FaultType DEF HandlerRaises
  <2>3. QED  BY <1>9, <2>1, <2>2 DEF HandlerRaises, clientVars, TypeOK
<1>10. QED
  BY <1>1, <1>2, <1>3, <1>4, <1>5, <1>6, <1>7, <1>8, <1>9 DEF Handler

(* The server's, the worker's and the final transcription's steps. *)
LEMMA OtherStepType ==
    ASSUME TypeOK,
           \/ StartServer \/ StartFails \/ Lifespan \/ StopServer
           \/ Work \/ WorkerFails \/ WorkerHangs \/ FinalTakes \/ FinalReleases
    PROVE  TypeOK'
<1>1. CASE StartServer \/ Lifespan \/ FinalTakes \/ FinalReleases
  BY <1>1, Constants
  DEF StartServer, Lifespan, ServerReady, Aborted, FinalTakes, FinalReleases, clientVars, TypeOK
<1>2. CASE StartFails
  BY <1>2, Constants, FaultType DEF StartFails, clientVars, TypeOK
<1>3. CASE StopServer
  BY <1>3, Constants, FaultType DEF StopServer, clientVars, TypeOK
<1>4. CASE Work
  <2>1. worker' \in Worker
    BY <1>4, WorkerTypes DEF Work
  <2>2. heard' \in [Sessions -> Nat]
    BY <1>4 DEF Work, TypeOK
  <2>3. QED  BY <1>4, <2>1, <2>2 DEF Work, clientVars, serverVars, TypeOK
<1>5. CASE WorkerFails \/ WorkerHangs
  <2>1. worker' \in Worker
    BY <1>5, WorkerTypes DEF WorkerFails, WorkerHangs
  <2>2. faults' \in 0 .. MaxFaults
    BY <1>5, FaultType DEF WorkerFails, WorkerHangs
  <2>3. QED  BY <1>5, <2>1, <2>2 DEF WorkerFails, WorkerHangs, clientVars, serverVars, TypeOK
<1>6. QED  BY <1>1, <1>2, <1>3, <1>4, <1>5

LEMMA TypeStep == TypeOK /\ [Next]_vars => TypeOK'
<1> SUFFICES ASSUME TypeOK, [Next]_vars PROVE TypeOK'
  OBVIOUS
<1>1. CASE Next
  BY <1>1, ClientStepType, HandlerStepType, OtherStepType DEF Next
<1>2. CASE UNCHANGED vars
  BY <1>2 DEF vars, TypeOK
<1>3. QED  BY <1>1, <1>2

(* Preview is type correct. *)
THEOREM TypeCorrect == Spec => []TypeOK
BY InitType, TypeStep, PTL DEF Spec

-----------------------------------------------------------------------------
(* One session, under the lock *)

(* Handlers exist while the server is up, one of them at most is in        *)
(* session, and it holds the lock, as the start of the server does.        *)
ServerInv ==
    /\ server # "up" => ~ready /\ \A s \in Sessions : srv[s].pc \in {"none", "gone"}
    /\ server \in {"starting", "aborting"} => lock = "preview"
    /\ \A s \in Sessions : srv[s].pc \in InSession => lock = "preview"
    /\ \A s, t \in Sessions : srv[s].pc \in InSession /\ srv[t].pc \in InSession => s = t
    /\ \A s \in Sessions : cli[s].pc = "connect" => srv[s].pc = "none"
    /\ \A s \in Sessions : srv[s].pc \in {"none", "accept", "begin", "gone"}
          => srv[s].feeder = "recv" /\ srv[s].reader = "run"

(* All but the last part of ServerInv is about where the handlers are. *)
LEMMA InitServer == Init => ServerInv
BY DEF Init, ServerInv, NewClient, NoHandler, InSession

(* Where a client is after its steps. *)
LEMMA ClientMoves ==
    ASSUME NEW c \in Session
    PROVE  /\ \A p : [c EXCEPT !.pc = p].pc = p
           /\ \A f : [c EXCEPT !.pc = "closing", !.failed = @ \/ f].pc = "closing"
           /\ \A f : [[c EXCEPT !.pc = "closing", !.failed = @ \/ f] EXCEPT !.accepting = FALSE].pc = "closing"
           /\ [c EXCEPT !.fed = @ + 1, !.pending = @ + 1, !.queue = Append(@, "pcm")].pc = c.pc
           /\ Taken(c).pc = c.pc
           /\ \A x : [c EXCEPT !.tx = x].pc = c.pc
           /\ [c EXCEPT !.ack = TRUE, !.rx = "done"].pc = c.pc
           /\ [c EXCEPT !.rx = "failed"].pc = c.pc
           /\ [c EXCEPT !.pc = "done", !.accepting = FALSE, !.queue = <<>>,
                        !.pending = 0, !.tx = "get", !.rx = "run"].pc = "done"
           /\ [Ended(c) EXCEPT !.fin = "wait"].pc = c.pc
           /\ \A x : [c EXCEPT !.fin = x].pc = c.pc
           /\ \A f : [[c EXCEPT !.pc = "closing", !.failed = @ \/ f] EXCEPT !.fin = "cancelled"].pc = "closing"
<1>1. Taken(c).pc = c.pc
  BY DEF Taken, Session
<1>2. [Ended(c) EXCEPT !.fin = "wait"].pc = c.pc
  BY DEF Ended, Session
<1>3. QED  BY <1>1, <1>2 DEF Session

(* A client's step leaves the handlers alone, but for the connection. *)
LEMMA ClientStepServer ==
    ASSUME TypeOK, ServerInv, NEW s \in Sessions, Client(s) PROVE ServerInv'
<1>1. CASE Connect(s)
  <2>0. cli \in [Sessions -> Session] /\ srv \in [Sessions -> Connection]
    BY DEF TypeOK
  <2>a. cli[s].pc = "connect" /\ UNCHANGED <<server, ready, lock>>
    BY <1>1 DEF Connect
  <2>b. srv[s].pc = "none"
    BY <2>a DEF ServerInv
  <2>c. /\ \A t \in Sessions : t # s => cli'[t] = cli[t]
        /\ cli'[s].pc \in {"config", "closing"}
    <3>1. \/ cli' = [cli EXCEPT ![s].pc = "config"]
          \/ cli' = [cli EXCEPT ![s] = Leaves(s, TRUE)]
      BY <1>1, Zenon DEF Connect
    <3>2. Leaves(s, TRUE).pc = "closing"
      BY <2>0, ClientMoves DEF Leaves
    <3>3. [cli[s] EXCEPT !.pc = "config"].pc = "config"
      BY <2>0, ClientMoves
    <3>4. QED  BY <2>0, <3>1, <3>2, <3>3
  <2>d. srv' = srv \/ (server = "up" /\ srv' = [srv EXCEPT ![s].pc = "accept"])
    BY <1>1, Zenon DEF Connect
  <2>1. /\ \A t \in Sessions : t # s => cli'[t] = cli[t] /\ srv'[t] = srv[t]
        /\ cli'[s].pc # "connect" /\ UNCHANGED <<server, ready, lock>>
        /\ \/ srv' = srv
           \/ server = "up" /\ srv'[s] = [srv[s] EXCEPT !.pc = "accept"] /\ srv[s].pc = "none"
    BY <2>0, <2>a, <2>b, <2>c, <2>d
  <2>2. CASE srv' = srv
    BY <2>1, <2>2 DEF ServerInv
  <2>3. CASE server = "up" /\ srv'[s] = [srv[s] EXCEPT !.pc = "accept"] /\ srv[s].pc = "none"
    <3>1. srv[s] \in Connection
      BY DEF TypeOK
    <3>2. srv'[s].pc = "accept" /\ srv'[s].feeder = "recv" /\ srv'[s].reader = "run"
      BY <2>3, <3>1 DEF ServerInv, Connection
    <3>3. \A t \in Sessions : srv'[t].pc \in InSession => srv[t].pc \in InSession
      BY <2>1, <3>2 DEF InSession
    <3>4. \A t \in Sessions : srv'[t].pc \in InSession => lock' = "preview"
      BY <2>1, <3>3 DEF ServerInv
    <3>5. \A t, u \in Sessions : srv'[t].pc \in InSession /\ srv'[u].pc \in InSession => t = u
      BY <3>3 DEF ServerInv
    <3>6. \A t \in Sessions : cli'[t].pc = "connect" => srv'[t].pc = "none"
      BY <2>1 DEF ServerInv
    <3>7. \A t \in Sessions : srv'[t].pc \in {"none", "accept", "begin", "gone"}
             => srv'[t].feeder = "recv" /\ srv'[t].reader = "run"
      BY <2>1, <3>2 DEF ServerInv
    <3>8. server' = "up"
      BY <2>1, <2>3
    <3>9. QED  BY <3>4, <3>5, <3>6, <3>7, <3>8 DEF ServerInv
  <2>4. QED  BY <2>1, <2>2, <2>3
<1>2. CASE ~Connect(s)
  <2>0. cli \in [Sessions -> Session]
    BY DEF TypeOK
  <2>1. UNCHANGED <<srv, server, ready, lock>>
    BY <1>2 DEF Client, Feed, ReadConfig, ClientEnds, CloseSocket, Take, Push, Receive, Finish,
                FinishReturns, FinishTimeout, FinishCancelled, serverVars
  <2>2. \A t \in Sessions : cli'[t].pc = "connect" => cli[t].pc = "connect"
    <3>1. CASE Feed(s)
      <4> DEFINE c == cli[s]
                 d == [[c EXCEPT !.pc = "closing", !.failed = @ \/ TRUE] EXCEPT !.accepting = FALSE]
                 e == [c EXCEPT !.fed = @ + 1, !.pending = @ + 1, !.queue = Append(@, "pcm")]
      <4>1. c \in Session
        BY <2>0
      <4>2. d.pc = "closing" /\ e.pc = c.pc
        BY <4>1, ClientMoves
      <4>3. cli' = [cli EXCEPT ![s] = d] \/ cli' = [cli EXCEPT ![s] = e]
        BY <3>1 DEF Feed, Leaves
      <4> HIDE DEF d, e
      <4>4. QED  BY <2>0, <4>2, <4>3
    <3>2. CASE ReadConfig(s)
      <4>1. \/ cli' = [cli EXCEPT ![s] = [@ EXCEPT !.pc = "run"]]
            \/ cli' = [cli EXCEPT ![s] = Leaves(s, TRUE)]
        BY <3>2 DEF ReadConfig
      <4>2. Leaves(s, TRUE).pc = "closing"
        BY <2>0, ClientMoves DEF Leaves
      <4>3. [cli[s] EXCEPT !.pc = "run"].pc = "run"
        BY <2>0, ClientMoves
      <4>4. QED  BY <2>0, <4>1, <4>2, <4>3
    <3>3. CASE ClientEnds(s)
      BY <2>0, <3>3, ClientMoves DEF ClientEnds, Leaves
    <3>4. CASE CloseSocket(s)
      BY <2>0, <3>4, ClientMoves DEF CloseSocket
    <3>5. CASE Take(s)
      BY <2>0, <3>5, ClientMoves DEF Take
    <3>6. CASE Push(s)
      <4>1. \E x : cli' = [cli EXCEPT ![s] = [cli[s] EXCEPT !.tx = x]]
        BY <2>0, <3>6 DEF Push
      <4>2. QED  BY <2>0, <4>1, ClientMoves
    <3>7. CASE Receive(s)
      BY <2>0, <3>7, ClientMoves DEF Receive
    <3>8. CASE Finish(s)
      BY <2>0, <3>8, ClientMoves DEF Finish
    <3>9. CASE FinishReturns(s)
      BY <2>0, <3>9, ClientMoves DEF FinishReturns
    <3>10. CASE FinishTimeout(s)
      BY <2>0, <3>10, ClientMoves DEF FinishTimeout, Leaves
    <3>11. CASE FinishCancelled(s)
      BY <2>0, <3>11, ClientMoves DEF FinishCancelled, Leaves
    <3>12. QED
      BY <1>2, <3>1, <3>2, <3>3, <3>4, <3>5, <3>6, <3>7, <3>8, <3>9, <3>10, <3>11 DEF Client
  <2>3. QED  BY <2>1, <2>2 DEF ServerInv
<1>3. QED  BY <1>1, <1>2

LEMMA EndsMoves ==
    ASSUME TypeOK, NEW s \in Sessions, NEW o, Ends(s, o)
    PROVE  /\ srv'[s].pc = "cleanup" /\ srv'[s].outcome = o
           /\ \A t \in Sessions : t # s => srv'[t] = srv[t]
BY DEF Ends, Connection, TypeOK

(* What a handler in its session does to itself. *)
LEMMA SessionMoves ==
    ASSUME TypeOK, NEW s \in Sessions,
           \/ BeginSession(s) \/ Results(s) \/ FeedWorker(s) \/ Drain(s) \/ Await(s)
           \/ HandlerRaises(s) \/ (Cleanup(s) /\ srv[s].outcome # "passed")
    PROVE  /\ \A t \in Sessions : t # s => srv'[t] = srv[t]
           /\ srv[s].pc \in InSession /\ srv'[s].pc \in InSession /\ srv'[s].pc # "begin"
           /\ UNCHANGED <<cli, server, lock>> /\ ready' \in {ready, FALSE}
<1>0. srv \in [Sessions -> Connection] /\ srv[s] \in Connection
  BY DEF TypeOK
<1>p. ASSUME NEW q, srv' = [srv EXCEPT ![s].pc = q]
      PROVE  srv'[s].pc = q /\ \A t \in Sessions : t # s => srv'[t] = srv[t]
  BY <1>0, <1>p DEF Connection
<1>1. CASE BeginSession(s)
  BY <1>1, <1>p, EndsMoves DEF BeginSession, InSession
<1>2. CASE Results(s)
  BY <1>0, <1>2 DEF Results, Connection, InSession
<1>3. CASE FeedWorker(s)
  BY <1>0, <1>3 DEF FeedWorker, Connection, InSession
<1>4. CASE Drain(s)
  BY <1>0, <1>4 DEF Drain, clientVars, Connection, InSession
<1>5. CASE Await(s)
  BY <1>5, <1>p, EndsMoves DEF Await, clientVars, InSession
<1>6. CASE HandlerRaises(s)
  BY <1>0, <1>6 DEF HandlerRaises, Ends, clientVars, Connection, InSession
<1>7. CASE Cleanup(s) /\ srv[s].outcome # "passed"
  BY <1>7, <1>p DEF Cleanup, InSession
<1>8. QED  BY <1>1, <1>2, <1>3, <1>4, <1>5, <1>6, <1>7

(* A handler that releases the lock is gone. *)
LEMMA ReleaseMoves ==
    ASSUME TypeOK, NEW s \in Sessions, Release(s)
    PROVE  /\ \A t \in Sessions : t # s => srv'[t] = srv[t]
           /\ srv'[s].pc = "gone" /\ srv'[s].feeder = "recv" /\ srv'[s].reader = "run"
           /\ lock' = "nobody"
BY DEF Release, NoHandler, TypeOK

LEMMA HandlerStepServer ==
    ASSUME TypeOK, ServerInv, NEW s \in Sessions, Handler(s) \/ HandlerRaises(s)
    PROVE  ServerInv'
<1>1. ASSUME \/ BeginSession(s) \/ Results(s) \/ FeedWorker(s) \/ Drain(s) \/ Await(s)
             \/ HandlerRaises(s) \/ (Cleanup(s) /\ srv[s].outcome # "passed")
      PROVE  ServerInv'
  <2>1. /\ \A t \in Sessions : t # s => srv'[t] = srv[t]
        /\ srv[s].pc \in InSession /\ srv'[s].pc \in InSession /\ srv'[s].pc # "begin"
        /\ UNCHANGED <<cli, server, lock>> /\ ready' \in {ready, FALSE}
    BY <1>1, SessionMoves
  <2>2. server = "up" /\ lock = "preview" /\ cli[s].pc # "connect"
    BY <2>1 DEF ServerInv, InSession
  <2>3. QED  BY <2>1, <2>2 DEF ServerInv, InSession
<1>2. ASSUME Reap(s) \/ (Cleanup(s) /\ srv[s].outcome = "passed")
      PROVE  ServerInv'
  <2>1. /\ \A t \in Sessions : t # s => srv'[t] = srv[t]
        /\ srv'[s].pc = "gone" /\ srv'[s].feeder = "recv" /\ srv'[s].reader = "run"
        /\ lock' = "nobody" /\ srv[s].pc \in InSession /\ UNCHANGED <<cli, server, ready>>
    BY <1>2, ReleaseMoves DEF Reap, Cleanup, InSession
  <2>2. server = "up" /\ cli[s].pc # "connect" /\ \A t \in Sessions : t # s => srv[t].pc \notin InSession
    BY <2>1 DEF ServerInv, InSession
  <2>3. QED  BY <2>1, <2>2 DEF ServerInv, InSession
<1>3. CASE Admit(s)
  <2>1. /\ \A t \in Sessions : t # s => srv'[t] = srv[t]
        /\ srv[s].pc = "accept" /\ UNCHANGED <<cli, server, ready>>
        /\ srv'[s].feeder = srv[s].feeder /\ srv'[s].reader = srv[s].reader
        /\ \/ srv'[s].pc = "begin" /\ Free /\ lock' = "preview"
           \/ srv'[s].pc = "gone" /\ lock' = lock
    BY <1>3 DEF Admit, TypeOK, Connection
  <2>2. server = "up" /\ cli[s].pc # "connect"
    BY <2>1 DEF ServerInv
  <2>3. Free => \A t \in Sessions : srv[t].pc \notin InSession
    BY DEF Free, active
  <2>4. QED  BY <2>1, <2>2, <2>3 DEF ServerInv, InSession
<1>4. CASE Cleanup(s)
  BY <1>1, <1>2, <1>4
<1>5. QED  BY <1>1, <1>2, <1>3, <1>4 DEF Handler

LEMMA OtherStepServer ==
    ASSUME TypeOK, ServerInv,
           \/ StartServer \/ StartFails \/ Lifespan \/ StopServer
           \/ Work \/ WorkerFails \/ WorkerHangs \/ FinalTakes \/ FinalReleases
    PROVE  ServerInv'
<1>1. CASE StartServer \/ StartFails \/ Lifespan
  BY <1>1 DEF StartServer, StartFails, Lifespan, ServerReady, Aborted, clientVars, ServerInv, InSession
<1>2. CASE StopServer
  BY <1>2 DEF StopServer, clientVars, ServerInv, InSession
<1>3. CASE Work \/ WorkerFails \/ WorkerHangs
  BY <1>3 DEF Work, WorkerFails, WorkerHangs, clientVars, serverVars, ServerInv
<1>4. CASE FinalTakes \/ FinalReleases
  BY <1>4 DEF FinalTakes, FinalReleases, clientVars, ServerInv
<1>5. QED  BY <1>1, <1>2, <1>3, <1>4

LEMMA ServerStep == TypeOK /\ ServerInv /\ [Next]_vars => ServerInv'
<1> SUFFICES ASSUME TypeOK, ServerInv, [Next]_vars PROVE ServerInv'
  OBVIOUS
<1>1. CASE Next
  BY <1>1, ClientStepServer, HandlerStepServer, OtherStepServer DEF Next
<1>2. CASE UNCHANGED vars
  BY <1>2 DEF vars, ServerInv
<1>3. QED  BY <1>1, <1>2

(* One recording at a time is in session with the worker. *)
THEOREM SessionIsAlone == Spec => []OneSession
<1>1. ServerInv => OneSession
  <2> SUFFICES ASSUME ServerInv PROVE OneSession
    OBVIOUS
  <2> DEFINE S == {s \in Sessions : srv[s].pc \in InSession}
  <2>0. Cardinality(S) <= 1 => OneSession
    BY DEF OneSession
  <2>0a. \A s, t \in S : s = t
    BY DEF ServerInv
  <2> HIDE DEF S
  <2>1. CASE S = {}
    <3>1. Cardinality(S) = 0
      BY <2>1, FS_EmptySet
    <3>2. QED  BY <2>0, <3>1
  <2>2. CASE S # {}
    <3>1. PICK s : S = {s}
      BY <2>0a, <2>2
    <3>2. Cardinality(S) = 1
      BY <3>1, FS_Singleton
    <3>3. QED  BY <2>0, <3>2
  <2>3. QED  BY <2>1, <2>2
<1>2. QED  BY <1>1, InitType, TypeStep, InitServer, ServerStep, PTL DEF Spec

-----------------------------------------------------------------------------
(* The conversation with the worker *)

(* The worker as it was started. *)
Quiet(w) == w.stream = "none" /\ w.in = <<>> /\ w.out = <<>>

Audio(q) == \A i \in 1 .. Len(q) : q[i].kind = "pcm"
AudioThenStop(q) ==
    Len(q) > 0 /\ \A i \in 1 .. Len(q) : q[i].kind = IF i = Len(q) THEN "stop" ELSE "pcm"
Texts(q) == \A i \in 1 .. Len(q) : q[i].kind = "snapshot"
TextsThenFinished(q) ==
    Len(q) > 0 /\ \A i \in 1 .. Len(q) : q[i].kind = IF i = Len(q) THEN "finished" ELSE "snapshot"

(* Where handler h of session s and a living worker w are in their         *)
(* conversation: start and started; audio and texts; stop and finished.    *)
Chat(s, h, w) ==
    /\ h.pc = "begin" =>
          \/ w.stream = "none" /\ w.in = <<Message("start", s)>> /\ w.out = <<>>
          \/ w.stream # "none" /\ w.in = <<>> /\ Len(w.out) = 1 /\ w.out[1].kind = "started"
    /\ h.pc = "last" => h.feeder = "done"
    /\ h.pc \in {"both", "last"} =>
          /\ h.feeder # "failed"
          /\ h.reader = "run" /\ h.feeder \in {"recv", "drain"}
                => w.stream # "none" /\ Audio(w.in) /\ Texts(w.out)
          /\ h.reader = "run" /\ h.feeder \in {"stop", "done"}
                => \/ w.stream # "none" /\ AudioThenStop(w.in) /\ Texts(w.out)
                   \/ w.stream = "none" /\ w.in = <<>> /\ TextsThenFinished(w.out)
          /\ h.reader = "done" => Quiet(w) /\ h.feeder \in {"stop", "done"}
    /\ h.pc = "cleanup" /\ h.outcome = "passed" => Quiet(w)

(* A living worker is in the conversation of the one session, or at rest.  *)
WorkerInv ==
    worker.alive =>
       /\ ~active => Quiet(worker)
       /\ \A s \in Sessions : Chat(s, srv[s], worker)

(* What is added to the end of the pipes, and taken from their heads. *)
LEMMA Pipes ==
    ASSUME NEW S, NEW q \in Seq(S)
    PROVE  /\ Audio(<<>>) /\ Texts(<<>>)
           /\ \A x \in S : Audio(q) /\ x.kind = "pcm" => Audio(Append(q, x))
           /\ \A x \in S : Audio(q) /\ x.kind = "stop" => AudioThenStop(Append(q, x))
           /\ \A x \in S : Texts(q) /\ x.kind = "snapshot" => Texts(Append(q, x))
           /\ \A x \in S : Texts(q) /\ x.kind = "finished" => TextsThenFinished(Append(q, x))
           /\ Audio(q) /\ q # <<>> => Head(q).kind = "pcm" /\ Audio(Tail(q))
           /\ Texts(q) /\ q # <<>> => Head(q).kind = "snapshot" /\ Texts(Tail(q))
           /\ AudioThenStop(q) => \/ Head(q).kind = "pcm" /\ AudioThenStop(Tail(q))
                                  \/ Head(q).kind = "stop" /\ Tail(q) = <<>>
           /\ TextsThenFinished(q) => \/ Head(q).kind = "snapshot" /\ TextsThenFinished(Tail(q))
                                      \/ Head(q).kind = "finished" /\ Tail(q) = <<>>
<1>1. Audio(<<>>) /\ Texts(<<>>)
  BY DEF Audio, Texts
<1>2. \A x \in S : /\ Len(Append(q, x)) = Len(q) + 1 /\ Append(q, x)[Len(q) + 1] = x
                   /\ \A i \in 1 .. Len(q) : Append(q, x)[i] = q[i]
  BY AppendProperties
<1>3. Len(q) \in Nat
  OBVIOUS
<1>4. \A x \in S : Audio(q) /\ x.kind = "pcm" => Audio(Append(q, x))
  BY <1>2, <1>3 DEF Audio
<1>5. \A x \in S : Audio(q) /\ x.kind = "stop" => AudioThenStop(Append(q, x))
  BY <1>2, <1>3 DEF Audio, AudioThenStop
<1>6. \A x \in S : Texts(q) /\ x.kind = "snapshot" => Texts(Append(q, x))
  BY <1>2, <1>3 DEF Texts
<1>7. \A x \in S : Texts(q) /\ x.kind = "finished" => TextsThenFinished(Append(q, x))
  BY <1>2, <1>3 DEF Texts, TextsThenFinished
<1>8. q # <<>> => /\ Head(q) = q[1] /\ Len(Tail(q)) = Len(q) - 1 /\ Len(q) > 0
                  /\ \A i \in 1 .. Len(q) - 1 : Tail(q)[i] = q[i + 1]
                  /\ Tail(q) \in Seq(S)
  BY HeadTailProperties, EmptySeq
<1>9. Audio(q) /\ q # <<>> => Head(q).kind = "pcm" /\ Audio(Tail(q))
  BY <1>3, <1>8 DEF Audio
<1>10. Texts(q) /\ q # <<>> => Head(q).kind = "snapshot" /\ Texts(Tail(q))
  BY <1>3, <1>8 DEF Texts
<1>11. q # <<>> /\ Len(q) = 1 => Tail(q) = <<>>
  <2>1. q # <<>> /\ Len(q) = 1 => Len(Tail(q)) = 0 /\ Tail(q) \in Seq(S)
    BY <1>8
  <2>2. \A r \in Seq(S) : Len(r) = 0 => r = <<>>
    BY EmptySeq
  <2>3. QED  BY <2>1, <2>2
<1>12. Len(q) > 0 => q # <<>>
  BY EmptySeq
<1>13. AudioThenStop(q) => \/ Head(q).kind = "pcm" /\ AudioThenStop(Tail(q))
                           \/ Head(q).kind = "stop" /\ Tail(q) = <<>>
  BY <1>3, <1>8, <1>11, <1>12 DEF AudioThenStop
<1>14. TextsThenFinished(q) => \/ Head(q).kind = "snapshot" /\ TextsThenFinished(Tail(q))
                               \/ Head(q).kind = "finished" /\ Tail(q) = <<>>
  BY <1>3, <1>8, <1>11, <1>12 DEF TextsThenFinished
<1>15. QED
  BY <1>1, <1>4, <1>5, <1>6, <1>7, <1>9, <1>10, <1>13, <1>14

LEMMA ConcatAppend ==
    ASSUME NEW q \in Seq(Text), NEW r \in Seq(Text), NEW x \in Text
    PROVE  q \o Append(r, x) = Append(q \o r, x)
OBVIOUS

(* Only a handler in its session converses. *)
LEMMA NoChat ==
    ASSUME NEW s, NEW h, NEW w, h.pc \notin InSession PROVE Chat(s, h, w)
BY DEF Chat, InSession

(* After a step of the one session, WorkerInv is about that session. *)
LEMMA OneChat ==
    ASSUME ServerInv', NEW s \in Sessions, srv'[s].pc \in InSession,
           worker'.alive => Chat(s, srv'[s], worker')
    PROVE  WorkerInv'
<1>1. \A t \in Sessions : t # s => srv'[t].pc \notin InSession
  BY DEF ServerInv
<1>2. \A t \in Sessions : t # s => Chat(t, srv'[t], worker')
  BY <1>1, NoChat
<1>3. active'
  BY DEF active
<1>4. QED  BY <1>2, <1>3 DEF WorkerInv

(* Without a session, the worker rests. *)
LEMMA NoSession ==
    ASSUME \A t \in Sessions : srv'[t].pc \notin InSession,
           worker'.alive => Quiet(worker')
    PROVE  WorkerInv'
<1>1. \A t \in Sessions : Chat(t, srv'[t], worker')
  BY NoChat
<1>2. QED  BY <1>1 DEF WorkerInv

(* A step outside of the session does not touch the conversation. *)
LEMMA Aside ==
    ASSUME WorkerInv, worker' = worker,
           \A t \in Sessions : \/ srv'[t] = srv[t]
                               \/ srv'[t].pc \notin InSession /\ srv[t].pc \notin InSession
    PROVE  WorkerInv'
<1>1. active' = active
  BY DEF active
<1>2. worker.alive => \A t \in Sessions : Chat(t, srv'[t], worker)
  BY NoChat DEF WorkerInv
<1>3. QED  BY <1>1, <1>2 DEF WorkerInv

LEMMA InitWorker == Init => WorkerInv
BY DEF Init, WorkerInv, NoWorker

(* The handler of the session and a living worker, and what both see. *)
LEMMA InConversation ==
    ASSUME TypeOK, WorkerInv, worker.alive, NEW s \in Sessions
    PROVE  /\ Chat(s, srv[s], worker) /\ srv[s] \in Connection
           /\ worker \in Worker /\ worker.in \in Seq(Command) /\ worker.out \in Seq(Text)
BY DEF TypeOK, WorkerInv, Worker

(* Reading a line of a living worker. *)
LEMMA Reads ==
    ASSUME TypeOK, worker.alive, CanRead, ReadLine
    PROVE  /\ worker.out # <<>> /\ Line = Head(worker.out) /\ worker'.out = Tail(worker.out)
           /\ worker'.stream = worker.stream /\ worker'.in = worker.in /\ worker'.alive
BY DEF TypeOK, Worker, CanRead, ReadLine, Line

LEMMA BeginWorker ==
    ASSUME TypeOK, ServerInv, ServerInv', WorkerInv, NEW s \in Sessions, BeginSession(s)
    PROVE  WorkerInv'
<1>0. srv[s] \in Connection /\ srv[s].pc = "begin" /\ srv[s].feeder = "recv" /\ srv[s].reader = "run"
  BY DEF TypeOK, ServerInv, BeginSession
<1>1. srv'[s].pc \in InSession
  BY SessionMoves
<1>2. SUFFICES ASSUME worker'.alive PROVE Chat(s, srv'[s], worker')
  BY <1>1, OneChat
<1>3. worker.alive
  BY <1>2 DEF BeginSession, ReadLine, TypeOK, Worker
<1>4. CASE srv' = [srv EXCEPT ![s].pc = "both"] /\ CanRead /\ ReadLine
  <2>1. /\ worker.out # <<>> /\ worker'.out = Tail(worker.out)
        /\ worker'.stream = worker.stream /\ worker'.in = worker.in
    BY <1>3, <1>4, Reads
  <2>2. worker.stream # "none" /\ worker.in = <<>> /\ Len(worker.out) = 1 /\ worker.out \in Seq(Text)
    BY <1>0, <1>3, <2>1, InConversation DEF Chat
  <2>3. Tail(worker.out) = <<>>
    <3>1. Tail(worker.out) \in Seq(Text) /\ Len(Tail(worker.out)) = 0
      BY <2>1, <2>2, HeadTailProperties
    <3>2. QED  BY <3>1, EmptySeq
  <2>4. Audio(worker'.in) /\ Texts(worker'.out)
    BY <2>1, <2>2, <2>3 DEF Audio, Texts
  <2>5. srv'[s].pc = "both" /\ srv'[s].feeder = "recv" /\ srv'[s].reader = "run"
    BY <1>0, <1>4 DEF Connection, TypeOK
  <2>6. QED  BY <2>1, <2>2, <2>4, <2>5 DEF Chat
<1>5. CASE Ends(s, "failed") \/ Ends(s, "indeterminate")
  <2>1. srv'[s].pc = "cleanup" /\ srv'[s].outcome # "passed"
    BY <1>5, EndsMoves
  <2>2. QED  BY <2>1 DEF Chat
<1>6. QED  BY <1>4, <1>5 DEF BeginSession

LEMMA ResultsWorker ==
    ASSUME TypeOK, ServerInv', WorkerInv, NEW s \in Sessions, Results(s)
    PROVE  WorkerInv'
<1>0. /\ srv[s] \in Connection /\ srv \in [Sessions -> Connection]
      /\ srv[s].pc \in {"both", "last"} /\ srv[s].reader = "run"
      /\ CanRead /\ ReadLine
  BY DEF TypeOK, Results
<1>1. srv'[s].pc \in InSession
  BY SessionMoves
<1>2. SUFFICES ASSUME worker'.alive PROVE Chat(s, srv'[s], worker')
  BY <1>1, OneChat
<1>3. worker.alive
  BY <1>0, <1>2 DEF ReadLine, TypeOK, Worker
<1>4. /\ worker.out # <<>> /\ Line = Head(worker.out) /\ worker'.out = Tail(worker.out)
      /\ worker'.stream = worker.stream /\ worker'.in = worker.in
  BY <1>0, <1>3, Reads
<1>5. Chat(s, srv[s], worker) /\ worker.out \in Seq(Text)
  BY <1>3, InConversation
<1>6. srv'[s].pc = srv[s].pc /\ srv'[s].feeder = srv[s].feeder
  BY <1>0 DEF Results, Connection
<1>7. srv'[s].reader = CASE Line.kind = "snapshot" -> "run" [] Line.kind = "finished" -> "done"
                         [] OTHER -> "failed"
  BY <1>0 DEF Results, Connection
<1>8. CASE srv[s].feeder \in {"recv", "drain"}
  <2>1. /\ worker.stream # "none" /\ Audio(worker.in) /\ Texts(worker.out)
        /\ srv[s].pc = "last" => srv[s].feeder = "done"
    BY <1>0, <1>5, <1>8 DEF Chat
  <2>2. Line.kind = "snapshot" /\ Texts(worker'.out)
    BY <1>4, <1>5, <2>1, Pipes
  <2>3. srv'[s].reader = "run"
    BY <1>7, <2>2
  <2>4. QED  BY <1>0, <1>4, <1>6, <1>8, <2>1, <2>2, <2>3 DEF Chat
<1>9. CASE srv[s].feeder \in {"stop", "done"}
  <2>1. /\ \/ worker.stream # "none" /\ AudioThenStop(worker.in) /\ Texts(worker.out)
           \/ worker.stream = "none" /\ worker.in = <<>> /\ TextsThenFinished(worker.out)
        /\ srv[s].pc = "last" => srv[s].feeder = "done"
    BY <1>0, <1>5, <1>9 DEF Chat
  <2>2. CASE worker.stream # "none" /\ AudioThenStop(worker.in) /\ Texts(worker.out)
    <3>1. Line.kind = "snapshot" /\ Texts(worker'.out)
      BY <1>4, <1>5, <2>2, Pipes
    <3>2. srv'[s].reader = "run"
      BY <1>7, <3>1
    <3>3. QED  BY <1>0, <1>4, <1>6, <1>9, <2>1, <2>2, <3>1, <3>2 DEF Chat
  <2>3. CASE worker.stream = "none" /\ worker.in = <<>> /\ TextsThenFinished(worker.out)
    <3>1. \/ Line.kind = "snapshot" /\ TextsThenFinished(worker'.out)
          \/ Line.kind = "finished" /\ worker'.out = <<>>
      BY <1>4, <1>5, <2>3, Pipes
    <3>2. CASE Line.kind = "snapshot" /\ TextsThenFinished(worker'.out)
      <4>1. srv'[s].reader = "run"
        BY <1>7, <3>2
      <4>2. QED  BY <1>0, <1>4, <1>6, <1>9, <2>1, <2>3, <3>2, <4>1 DEF Chat
    <3>3. CASE Line.kind = "finished" /\ worker'.out = <<>>
      <4>1. srv'[s].reader = "done"
        BY <1>7, <3>3
      <4>2. Quiet(worker')
        BY <1>4, <2>3, <3>3 DEF Quiet
      <4>3. QED  BY <1>0, <1>6, <1>9, <2>1, <4>1, <4>2 DEF Chat
    <3>4. QED  BY <3>1, <3>2, <3>3
  <2>4. QED  BY <2>1, <2>2, <2>3
<1>10. srv[s].feeder # "failed"
  BY <1>0, <1>5 DEF Chat
<1>11. QED  BY <1>0, <1>8, <1>9, <1>10 DEF Connection

LEMMA FeedingWorker ==
    ASSUME TypeOK, ServerInv', WorkerInv, NEW s \in Sessions, FeedWorker(s)
    PROVE  WorkerInv'
<1>0. /\ srv[s] \in Connection /\ srv \in [Sessions -> Connection] /\ worker \in Worker
      /\ srv[s].pc = "both" /\ srv[s].feeder = "recv"
  BY DEF TypeOK, FeedWorker
<1>1. srv'[s].pc \in InSession
  BY SessionMoves
<1>2. SUFFICES ASSUME worker'.alive PROVE Chat(s, srv'[s], worker')
  BY <1>1, OneChat
<1> DEFINE audio == Head(up[s]) = "pcm"
           cmd == Message(IF audio THEN "pcm" ELSE "stop", s)
<1>3. /\ worker.alive /\ worker'.in = Append(worker.in, cmd)
      /\ worker'.stream = worker.stream /\ worker'.out = worker.out
  BY <1>0, <1>2 DEF FeedWorker, Worker
<1>4. /\ srv'[s].pc = "both" /\ srv'[s].reader = srv[s].reader
      /\ srv'[s].feeder = IF audio THEN "drain" ELSE "stop"
  BY <1>0 DEF FeedWorker, Connection
<1>5. Chat(s, srv[s], worker) /\ worker.in \in Seq(Command)
  BY <1>3, InConversation
<1>6. srv[s].reader # "done"
  BY <1>0, <1>5 DEF Chat
<1>7. CASE srv[s].reader = "run"
  <2>1. worker.stream # "none" /\ Audio(worker.in) /\ Texts(worker.out)
    BY <1>0, <1>5, <1>7 DEF Chat
  <2>2. CASE audio
    <3>1. cmd \in Command /\ cmd.kind = "pcm"
      BY <2>2, MessageTypes DEF Message
    <3> HIDE DEF cmd
    <3>2. Audio(worker'.in)
      BY <1>3, <1>5, <2>1, <3>1, Pipes
    <3>3. srv'[s].feeder = "drain"
      BY <1>4, <2>2
    <3>4. QED  BY <1>3, <1>4, <1>7, <2>1, <3>2, <3>3 DEF Chat
  <2>3. CASE ~audio
    <3>1. cmd \in Command /\ cmd.kind = "stop"
      BY <2>3, MessageTypes DEF Message
    <3> HIDE DEF cmd
    <3>2. AudioThenStop(worker'.in)
      BY <1>3, <1>5, <2>1, <3>1, Pipes
    <3>3. srv'[s].feeder = "stop"
      BY <1>4, <2>3
    <3>4. QED  BY <1>3, <1>4, <1>7, <2>1, <3>2, <3>3 DEF Chat
  <2>4. QED  BY <2>2, <2>3
<1>8. CASE srv[s].reader = "failed"
  <2>1. srv'[s].feeder \in {"drain", "stop"}
    BY <1>4
  <2>2. QED  BY <1>4, <1>8, <2>1 DEF Chat
<1>9. QED  BY <1>0, <1>6, <1>7, <1>8 DEF Connection

LEMMA DrainWorker ==
    ASSUME TypeOK, ServerInv', WorkerInv, NEW s \in Sessions, Drain(s)
    PROVE  WorkerInv'
<1>0. /\ srv[s] \in Connection /\ srv \in [Sessions -> Connection] /\ worker' = worker
      /\ srv[s].pc = "both" /\ srv[s].feeder \in {"drain", "stop"}
  BY DEF TypeOK, Drain
<1>1. srv'[s].pc \in InSession
  BY SessionMoves
<1>2. SUFFICES ASSUME worker.alive PROVE Chat(s, srv'[s], worker)
  BY <1>0, <1>1, OneChat
<1>3. /\ srv'[s].pc = "both" /\ srv'[s].reader = srv[s].reader
      /\ srv'[s].feeder = IF srv[s].feeder = "stop" THEN "done" ELSE "recv"
  BY <1>0, <1>2 DEF Drain, Connection
<1>4. Chat(s, srv[s], worker)
  BY <1>2, InConversation
<1>5. QED  BY <1>0, <1>3, <1>4 DEF Chat

LEMMA EndingWorker ==
    ASSUME TypeOK, ServerInv', WorkerInv, NEW s \in Sessions,
           \/ Await(s) \/ HandlerRaises(s) \/ (Cleanup(s) /\ srv[s].outcome # "passed")
    PROVE  WorkerInv'
<1>0. srv[s] \in Connection /\ srv \in [Sessions -> Connection] /\ worker' = worker
  BY DEF TypeOK, Await, HandlerRaises, Cleanup
<1>1. srv'[s].pc \in InSession
  BY SessionMoves
<1>2. SUFFICES ASSUME worker.alive PROVE Chat(s, srv'[s], worker)
  BY <1>0, <1>1, OneChat
<1>3. Chat(s, srv[s], worker)
  BY <1>2, InConversation
<1>4. CASE srv' = [srv EXCEPT ![s].pc = "last"] /\ srv[s].pc = "both" /\ srv[s].feeder = "done"
  <2>1. /\ srv'[s].pc = "last" /\ srv'[s].reader = srv[s].reader /\ srv'[s].feeder = "done"
    BY <1>0, <1>4 DEF Connection
  <2>2. QED  BY <1>3, <1>4, <2>1 DEF Chat
<1>5. ASSUME Ends(s, "failed") \/ Ends(s, "indeterminate") PROVE Chat(s, srv'[s], worker)
  <2>1. srv'[s].pc = "cleanup" /\ srv'[s].outcome # "passed"
    BY <1>5, EndsMoves
  <2>2. QED  BY <2>1 DEF Chat
<1>6. CASE srv[s].pc = "last" /\ srv[s].reader = "done" /\ Ends(s, "passed")
  <2>1. srv'[s].pc = "cleanup"
    BY <1>6, EndsMoves
  <2>2. Quiet(worker)
    BY <1>3, <1>6 DEF Chat
  <2>3. QED  BY <2>1, <2>2 DEF Chat
<1>7. CASE srv' = [srv EXCEPT ![s].pc = "reap"]
  <2>1. srv'[s].pc = "reap"
    BY <1>0, <1>7 DEF Connection
  <2>2. QED  BY <2>1 DEF Chat
<1>8. CASE Await(s)
  BY <1>4, <1>5, <1>6, <1>8 DEF Await
<1>9. CASE HandlerRaises(s)
  BY <1>5, <1>9 DEF HandlerRaises
<1>10. CASE Cleanup(s) /\ srv[s].outcome # "passed"
  BY <1>7, <1>10 DEF Cleanup
<1>11. QED  BY <1>8, <1>9, <1>10

LEMMA AdmitWorker ==
    ASSUME TypeOK, ServerInv', WorkerInv, NEW s \in Sessions, Admit(s)
    PROVE  WorkerInv'
<1>0. srv[s] \in Connection /\ srv \in [Sessions -> Connection] /\ srv[s].pc = "accept"
  BY DEF TypeOK, Admit
<1>1. CASE Free
  <2>1. srv'[s].pc = "begin" /\ srv'[s].pc \in InSession
    BY <1>0, <1>1 DEF Admit, Connection, InSession
  <2>2. SUFFICES ASSUME worker'.alive PROVE Chat(s, srv'[s], worker')
    BY <2>1, OneChat
  <2>3. worker \in Worker /\ worker.alive
    BY <1>1, <2>2 DEF Admit, TypeOK, Worker
  <2>4. Quiet(worker)
    BY <1>1, <2>3 DEF Free, WorkerInv
  <2>5. /\ worker'.stream = "none" /\ worker'.out = <<>>
        /\ worker'.in = Append(<<>>, Message("start", s))
    BY <1>1, <2>3, <2>4 DEF Admit, Quiet, Worker
  <2>6. Append(<<>>, Message("start", s)) = <<Message("start", s)>>
    OBVIOUS
  <2>7. QED  BY <2>1, <2>5, <2>6 DEF Chat
<1>2. CASE ~Free
  <2>1. worker' = worker /\ srv'[s].pc = "gone" /\ \A t \in Sessions : t # s => srv'[t] = srv[t]
    BY <1>0, <1>2 DEF Admit, Connection
  <2>2. QED  BY <1>0, <2>1, Aside DEF InSession
<1>3. QED  BY <1>1, <1>2

LEMMA ReleaseWorker ==
    ASSUME TypeOK, ServerInv, ServerInv', WorkerInv, NEW s \in Sessions,
           Reap(s) \/ (Cleanup(s) /\ srv[s].outcome = "passed")
    PROVE  WorkerInv'
<1>1. /\ srv[s].pc \in InSession /\ srv'[s].pc \notin InSession
      /\ \A t \in Sessions : t # s => srv'[t] = srv[t]
  BY ReleaseMoves DEF Reap, Cleanup, InSession
<1>2. \A t \in Sessions : srv'[t].pc \notin InSession
  BY <1>1 DEF ServerInv
<1>3. worker'.alive => Quiet(worker')
  <2>1. CASE Reap(s)
    BY <2>1 DEF Reap, NoWorker
  <2>2. CASE Cleanup(s) /\ srv[s].outcome = "passed"
    BY <2>2, InConversation DEF Cleanup, Chat
  <2>3. QED  BY <2>1, <2>2
<1>4. QED  BY <1>2, <1>3, NoSession

(* The worker takes its next command. *)
LEMMA WorkWorker ==
    ASSUME TypeOK, ServerInv', WorkerInv, Work PROVE WorkerInv'
<1> DEFINE w == worker
           cmd == Head(w.in)
           Emits(stream, lines) ==
              [w EXCEPT !.in = Tail(@), !.stream = stream, !.out = @ \o lines]
           texts == {<<>>, <<Message("snapshot", w.stream)>>}
<1>0. /\ w.alive /\ w.in # <<>> /\ worker' \in After(cmd) /\ UNCHANGED srv
      /\ w \in Worker /\ w.in \in Seq(Command) /\ w.out \in Seq(Text)
      /\ w.stream \in Sessions \cup {"none"}
  BY DEF Work, serverVars, TypeOK, Worker
<1>1. PICK s \in Sessions : srv[s].pc \in InSession
  <2>1. ~Quiet(w)
    BY <1>0 DEF Quiet
  <2>2. QED  BY <1>0, <2>1 DEF WorkerInv, active
<1>2. Chat(s, srv[s], w) /\ srv[s] \in Connection
  BY <1>0, InConversation
<1>3. SUFFICES ASSUME worker'.alive PROVE Chat(s, srv[s], worker')
  BY <1>0, <1>1, OneChat
<1>4. After(cmd) =
        CASE cmd.kind = "start" /\ w.stream = "none" ->
               {Emits(cmd.of, <<Message("started", cmd.of)>>)}
          [] cmd.kind = "pcm" /\ w.stream # "none" -> {Emits(w.stream, t) : t \in texts}
          [] cmd.kind = "stop" /\ w.stream # "none" ->
               {Emits("none", Append(t, Message("finished", w.stream))) : t \in texts}
          [] OTHER -> {[NoWorker EXCEPT !.out = Append(w.out, Message("error", "none"))]}
  BY DEF After
<1>5. \A stream, lines : /\ Emits(stream, lines).in = Tail(w.in)
                         /\ Emits(stream, lines).stream = stream
                         /\ Emits(stream, lines).out = w.out \o lines
  BY <1>0 DEF Worker
<1> HIDE DEF Emits
<1>6. CASE srv[s].pc = "begin"
  <2>1. w.stream = "none" /\ w.in = <<Message("start", s)>> /\ w.out = <<>>
    BY <1>0, <1>2, <1>6 DEF Chat
  <2>2. cmd = Message("start", s) /\ Tail(w.in) = <<>>
    BY <2>1
  <2>3. cmd.kind = "start" /\ cmd.of = s
    BY <2>2 DEF Message
  <2> HIDE DEF cmd
  <2>4. worker' = Emits(s, <<Message("started", s)>>)
    BY <1>0, <1>4, <2>1, <2>3
  <2>5. <<>> \o <<Message("started", s)>> = <<Message("started", s)>>
    OBVIOUS
  <2>6. worker'.in = <<>> /\ worker'.stream = s /\ worker'.out = <<Message("started", s)>>
    BY <1>5, <2>1, <2>2, <2>4, <2>5
  <2>7. Len(worker'.out) = 1 /\ worker'.out[1].kind = "started" /\ s # "none"
    BY <2>6 DEF Message
  <2>8. QED  BY <1>6, <2>6, <2>7 DEF Chat
<1>7. CASE srv[s].pc \in {"both", "last"} /\ srv[s].reader = "run"
  <2>1. \/ w.stream # "none" /\ Audio(w.in) /\ Texts(w.out) /\ srv[s].feeder \in {"recv", "drain"}
        \/ w.stream # "none" /\ AudioThenStop(w.in) /\ Texts(w.out) /\ srv[s].feeder \in {"stop", "done"}
    BY <1>0, <1>2, <1>7 DEF Chat, Connection
  <2>2. \/ cmd.kind = "pcm" /\ Audio(w.in) /\ Audio(Tail(w.in)) /\ srv[s].feeder \in {"recv", "drain"}
        \/ cmd.kind = "pcm" /\ AudioThenStop(Tail(w.in)) /\ srv[s].feeder \in {"stop", "done"}
        \/ cmd.kind = "stop" /\ Tail(w.in) = <<>> /\ srv[s].feeder \in {"stop", "done"}
    BY <1>0, <2>1, Pipes
  <2> HIDE DEF cmd
  <2>3. \A t \in texts : Texts(w.out \o t) /\ w.out \o t \in Seq(Text)
    <3>1. w.out \o <<>> = w.out
      BY <1>0, ConcatEmptySeq
    <3> DEFINE x == Message("snapshot", w.stream)
    <3>2. x \in Text /\ x.kind = "snapshot"
      BY <1>0, <2>1, MessageTypes DEF Message
    <3> HIDE DEF x
    <3>3. w.out \o <<x>> = Append(w.out, x)
      BY <1>0, <3>2, AppendIsConcat
    <3>4. Texts(Append(w.out, x)) /\ Append(w.out, x) \in Seq(Text)
      BY <1>0, <2>1, <3>2, Pipes
    <3>5. QED  BY <1>0, <2>1, <3>1, <3>3, <3>4 DEF x
  <2>4. CASE cmd.kind = "pcm"
    <3>1. PICK t \in texts : worker' = Emits(w.stream, t)
      BY <1>0, <1>4, <2>1, <2>4
    <3> HIDE DEF texts
    <3>2. worker'.in = Tail(w.in) /\ worker'.stream # "none" /\ Texts(worker'.out)
      <4>1. worker'.in = Tail(w.in) /\ worker'.stream = w.stream /\ worker'.out = w.out \o t
        BY <1>5, <3>1
      <4>2. QED  BY <2>1, <2>3, <4>1
    <3>3. QED  BY <1>2, <1>7, <2>2, <2>4, <3>2 DEF Chat
  <2>5. CASE cmd.kind = "stop"
    <3>1. PICK t \in texts : worker' = Emits("none", Append(t, Message("finished", w.stream)))
      BY <1>0, <1>4, <2>1, <2>5
    <3> DEFINE x == Message("finished", w.stream)
    <3>2. x \in Text /\ x.kind = "finished"
      BY <1>0, <2>1, MessageTypes DEF Message
    <3>3. t \in Seq(Text)
      <4>1. Message("snapshot", w.stream) \in Text
        BY <1>0, <2>1, MessageTypes
      <4>2. <<>> \in Seq(Text) /\ <<Message("snapshot", w.stream)>> \in Seq(Text)
        BY <4>1, Sequence
      <4>3. t = <<>> \/ t = <<Message("snapshot", w.stream)>>
        OBVIOUS
      <4>4. QED  BY <4>2, <4>3
    <3> HIDE DEF x, texts
    <3>4. w.out \o Append(t, x) = Append(w.out \o t, x)
      <4> DEFINE o == w.out
      <4>1. o \in Seq(Text)
        BY <1>0
      <4> HIDE DEF o
      <4>2. o \o Append(t, x) = Append(o \o t, x)
        BY <3>2, <3>3, <4>1, ConcatAppend
      <4>3. QED  BY <4>2 DEF o
    <3>5. TextsThenFinished(Append(w.out \o t, x))
      BY <2>3, <3>2, Pipes
    <3>6. worker'.out = w.out \o Append(t, x) /\ worker'.in = Tail(w.in) /\ worker'.stream = "none"
      BY <1>5, <3>1 DEF x
    <3>7. TextsThenFinished(worker'.out)
      BY <3>4, <3>5, <3>6
    <3>8. worker'.in = <<>> /\ srv[s].feeder \in {"stop", "done"}
      BY <2>2, <2>5, <3>6
    <3>9. QED  BY <1>2, <1>7, <3>6, <3>7, <3>8 DEF Chat
  <2>6. QED  BY <2>2, <2>4, <2>5
<1>8. CASE srv[s].pc \in {"both", "last"} /\ srv[s].reader # "run"
  <2>1. srv[s].reader # "done"
    BY <1>0, <1>2, <1>8 DEF Chat, Quiet
  <2>2. QED  BY <1>2, <1>8, <2>1 DEF Chat
<1>9. CASE srv[s].pc \in {"cleanup", "reap"}
  <2>1. ~(srv[s].pc = "cleanup" /\ srv[s].outcome = "passed")
    BY <1>0, <1>2 DEF Chat, Quiet
  <2>2. QED  BY <1>9, <2>1 DEF Chat
<1>10. QED  BY <1>1, <1>6, <1>7, <1>8, <1>9 DEF InSession

LEMMA OtherStepWorker ==
    ASSUME TypeOK, ServerInv, ServerInv', WorkerInv,
           \/ StartServer \/ StartFails \/ Lifespan \/ StopServer
           \/ WorkerFails \/ WorkerHangs \/ FinalTakes \/ FinalReleases
    PROVE  WorkerInv'
<1>1. CASE StartServer
  <2>1. \A t \in Sessions : srv'[t].pc \notin InSession
    BY <1>1 DEF StartServer, ServerInv, InSession
  <2>2. Quiet(worker')
    BY <1>1 DEF StartServer, NoWorker, Quiet
  <2>3. QED  BY <2>1, <2>2, NoSession
<1>2. CASE StartFails \/ StopServer \/ WorkerFails
  <2>1. ~worker'.alive
    BY <1>2 DEF StartFails, StopServer, WorkerFails, NoWorker
  <2>2. QED  BY <2>1 DEF WorkerInv
<1>3. CASE Lifespan \/ FinalTakes \/ FinalReleases
  BY <1>3, Aside DEF Lifespan, ServerReady, Aborted, FinalTakes, FinalReleases
<1>4. CASE WorkerHangs
  <2>1. /\ srv' = srv /\ worker.alive /\ worker'.stream = worker.stream
        /\ worker'.in = worker.in /\ worker'.out = worker.out
    BY <1>4 DEF WorkerHangs, serverVars, TypeOK, Worker
  <2>2. Quiet(worker) => Quiet(worker')
    BY <2>1 DEF Quiet
  <2>3. \A t \in Sessions : Chat(t, srv[t], worker) => Chat(t, srv[t], worker')
    BY <2>1, <2>2 DEF Chat
  <2>4. active' = active
    BY <2>1 DEF active
  <2>5. QED  BY <2>1, <2>2, <2>3, <2>4 DEF WorkerInv
<1>5. QED  BY <1>1, <1>2, <1>3, <1>4

LEMMA ClientStepWorker ==
    ASSUME TypeOK, ServerInv, WorkerInv, NEW s \in Sessions, Client(s) PROVE WorkerInv'
<1>1. worker' = worker
  BY DEF Client, Feed, Connect, ReadConfig, ClientEnds, CloseSocket, Take, Push, Receive, Finish,
         FinishReturns, FinishTimeout, FinishCancelled
<1>2. \A t \in Sessions : \/ srv'[t] = srv[t]
                          \/ srv'[t].pc \notin InSession /\ srv[t].pc \notin InSession
  <2>1. CASE Connect(s)
    <3>1. srv' = srv \/ srv' = [srv EXCEPT ![s].pc = "accept"]
      BY <2>1, Zenon DEF Connect
    <3>2. srv \in [Sessions -> Connection] /\ srv[s].pc = "none"
      BY <2>1 DEF Connect, ServerInv, TypeOK
    <3>3. QED  BY <3>1, <3>2 DEF Connection, InSession
  <2>2. CASE ~Connect(s)
    BY <2>2 DEF Client, Feed, ReadConfig, ClientEnds, CloseSocket, Take, Push, Receive, Finish,
                FinishReturns, FinishTimeout, FinishCancelled, serverVars
  <2>3. QED  BY <2>1, <2>2
<1>3. QED  BY <1>1, <1>2, Aside

LEMMA WorkerStep ==
    TypeOK /\ ServerInv /\ ServerInv' /\ WorkerInv /\ [Next]_vars => WorkerInv'
<1> SUFFICES ASSUME TypeOK, ServerInv, ServerInv', WorkerInv, [Next]_vars PROVE WorkerInv'
  OBVIOUS
<1>1. ASSUME NEW s \in Sessions, Handler(s) \/ HandlerRaises(s) PROVE WorkerInv'
  <2>1. CASE Cleanup(s)
    BY <2>1, EndingWorker, ReleaseWorker
  <2>2. CASE ~Cleanup(s)
    BY <1>1, <2>2, AdmitWorker, BeginWorker, ResultsWorker, FeedingWorker, DrainWorker,
       EndingWorker, ReleaseWorker DEF Handler
  <2>3. QED  BY <2>1, <2>2
<1>2. CASE Next
  BY <1>1, <1>2, ClientStepWorker, WorkWorker, OtherStepWorker DEF Next
<1>3. CASE UNCHANGED vars
  BY <1>3, Aside DEF vars
<1>4. QED  BY <1>2, <1>3

LEMMA Invariance == Spec => [](TypeOK /\ ServerInv /\ WorkerInv)
<1>1. Init => TypeOK /\ ServerInv /\ WorkerInv
  BY InitType, InitServer, InitWorker
<1>2. TypeOK /\ ServerInv /\ WorkerInv /\ [Next]_vars => (TypeOK /\ ServerInv /\ WorkerInv)'
  BY TypeStep, ServerStep, WorkerStep
<1>3. QED  BY <1>1, <1>2, PTL DEF Spec

(* Inference happens under the lock, however sessions and starts end. *)
THEOREM LockCoversInference == Spec => []InferenceUnderLock
<1>1. TypeOK /\ ServerInv /\ WorkerInv => InferenceUnderLock
  BY DEF ServerInv, WorkerInv, Quiet, active, InferenceUnderLock
<1>2. QED  BY <1>1, Invariance, PTL

(* A session that is admitted gets a worker without remains of another. *)
THEOREM FreshWorker == Spec => []WorkerIsFresh
<1>1. TypeOK /\ ServerInv /\ WorkerInv => WorkerIsFresh
  <2> SUFFICES ASSUME TypeOK, WorkerInv, Free, worker.alive
               PROVE  [worker EXCEPT !.hung = FALSE] = [NoWorker EXCEPT !.alive = TRUE]
    BY DEF WorkerIsFresh
  <2>1. worker \in Worker /\ Quiet(worker) /\ worker.alive = TRUE
    BY DEF TypeOK, Worker, WorkerInv, Free
  <2> DEFINE u == [worker EXCEPT !.hung = FALSE]
             v == [NoWorker EXCEPT !.alive = TRUE]
  <2>2. u \in Worker /\ v \in Worker
    BY <2>1, Constants DEF Worker
  <2>3. u.stream = v.stream /\ u.in = v.in /\ u.out = v.out
    BY <2>1 DEF Worker, Quiet, NoWorker
  <2>4. u.alive = v.alive /\ u.hung = v.hung
    BY <2>1 DEF Worker, NoWorker
  <2> HIDE DEF u, v
  <2>5. u = v
    BY <2>2, <2>3, <2>4 DEF Worker
  <2>6. QED  BY <2>5 DEF u, v
<1>2. QED  BY <1>1, Invariance, PTL

=============================================================================
