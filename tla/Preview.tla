------------------------------ MODULE Preview ------------------------------
(***************************************************************************)
(* The live preview: the backend's client of a recording, the local ASR    *)
(* server and its resident worker process, which shares one inference lock *)
(* with the final transcription.  Client and server are coroutines that    *)
(* interleave at every await; they talk over a socket (two FIFO channels), *)
(* server and worker over two pipes.                                       *)
(*                                                                         *)
(* Source: backend/utils/local_live_preview.py, backend/routers/listen/    *)
(* runtime.py, scripts/local_live_preview/{serve_parakeet.py,              *)
(* ParakeetWorker.swift}.                                                  *)
(*                                                                         *)
(* Audio is counted in frames of one size.  A text is the session it was   *)
(* recognised from.  What reaches the phone's screen has no effect on the  *)
(* session and is left out.                                                *)
(***************************************************************************)
EXTENDS Integers, Sequences, FiniteSets

CONSTANTS
    Sessions,    \* recordings with a preview, each with its own connection
    Frames,      \* bound on the frames that each preview accepts
    MaxPending,  \* MAX_PENDING_BYTES, in frames
    Buffer,      \* frames the socket takes before send waits
    Pipe,        \* commands the worker's stdin takes before drain waits
    MaxFaults    \* bound on failures, hangs and answers that come too late

ASSUME PreviewAssumption ==
    /\ {"nobody", "preview", "final", "none"} \cap Sessions = {}
    /\ Frames \in [Sessions -> Nat] /\ {MaxPending, MaxFaults} \subseteq Nat
    /\ {Buffer, Pipe} \subseteq Nat \ {0}

VARIABLES
    cli,     \* LocalLivePreview of each session
    srv,     \* the /asr handler of each session's connection
    up,      \* the socket towards the server
    down,    \* the socket towards the client
    worker,  \* the worker process and its pipes
    server,  \* the server process: down, starting, aborting or up
    ready,   \* the server's ready flag
    lock,    \* the inference lock
    heard,   \* history: frames of each session that the worker has taken in
    faults   \* faults so far

vars == <<cli, srv, up, down, worker, server, ready, lock, heard, faults>>

-----------------------------------------------------------------------------
(* State *)

(* The constructor starts the task of _run. *)
NewClient == [pc |-> "connect", accepting |-> TRUE, queue |-> <<>>, pending |-> 0,
              fed |-> 0, tx |-> "get", rx |-> "run", failed |-> FALSE,
              ack |-> FALSE, fin |-> "no"]

NoHandler == [pc |-> "none", feeder |-> "recv", reader |-> "run",
              outcome |-> "passed", disconnected |-> FALSE]

NoWorker == [alive |-> FALSE, hung |-> FALSE, stream |-> "none", in |-> <<>>, out |-> <<>>]

(* What travels: the commands 1, 2, 3 of the worker and its JSON lines, and *)
(* the messages of the socket; of is the session of a command or a text.    *)
Message(kind, s) == [kind |-> kind, of |-> s]

(* Between lock and unlock: the flag active of the server. *)
InSession == {"begin", "both", "last", "cleanup", "reap"}
active == \E s \in Sessions : srv[s].pc \in InSession

Command == [kind: {"start", "pcm", "stop"}, of: Sessions]
Text == [kind: {"started", "snapshot", "finished"}, of: Sessions] \cup {Message("error", "none")}
Reply == [kind: {"config", "snapshot", "ready_to_stop", "error", "close"}, of: Sessions]

Session == [pc: {"connect", "config", "run", "closing", "done"},
            accepting: BOOLEAN, queue: Seq({"pcm", "eof"}), pending: Int,
            fed: Nat, tx: {"get", "pcm", "eof", "done", "failed"},
            rx: {"run", "done", "failed"}, failed: BOOLEAN, ack: BOOLEAN,
            fin: {"no", "wait", "cancelled", "returned", "raised"}]
Connection == [pc: {"none", "accept", "gone"} \cup InSession,
               feeder: {"recv", "drain", "stop", "done", "failed"},
               reader: {"run", "done", "failed"},
               outcome: {"passed", "failed", "indeterminate"}, disconnected: BOOLEAN]
Worker == [alive: BOOLEAN, hung: BOOLEAN, stream: Sessions \cup {"none"},
           in: Seq(Command), out: Seq(Text)]

TypeOK ==
    /\ cli \in [Sessions -> Session]
    /\ srv \in [Sessions -> Connection]
    /\ up \in [Sessions -> Seq({"pcm", "eof", "close"})]
    /\ down \in [Sessions -> Seq(Reply)]
    /\ worker \in Worker
    /\ server \in {"down", "starting", "aborting", "up"} /\ ready \in BOOLEAN
    /\ lock \in {"nobody", "preview", "final"}
    /\ heard \in [Sessions -> Nat]
    /\ faults \in 0 .. MaxFaults

Init ==
    /\ cli = [s \in Sessions |-> NewClient]
    /\ srv = [s \in Sessions |-> NoHandler]
    /\ up = [s \in Sessions |-> <<>>] /\ down = [s \in Sessions |-> <<>>]
    /\ worker = NoWorker
    /\ server = "down" /\ ready = FALSE
    /\ lock = "nobody"
    /\ heard = [s \in Sessions |-> 0]
    /\ faults = 0

clientVars == <<cli, up, down>>
serverVars == <<srv, server, ready, lock>>

Fault == faults < MaxFaults /\ faults' = faults + 1
NoFault == UNCHANGED faults

(* A time limit passes: by itself if the worker hangs, else as a fault. *)
TimesOut == IF worker.hung THEN NoFault ELSE Fault

-----------------------------------------------------------------------------
(* The client *)

(* A client that is told to stop, or fails, leaves its socket and ends. *)
Leaves(s, failed) == [cli[s] EXCEPT !.pc = "closing", !.failed = @ \/ failed]

(* Audio of the recording.  A frame that does not fit ends the preview. *)
Feed(s) ==
    LET c == cli[s] IN
    /\ c.pc # "done" /\ c.accepting
    /\ \/ /\ c.pending + 1 > MaxPending
          /\ cli' = [cli EXCEPT ![s] = [Leaves(s, TRUE) EXCEPT !.accepting = FALSE]]
       \/ /\ c.pending + 1 <= MaxPending /\ c.fed < Frames[s]
          /\ cli' = [cli EXCEPT ![s] = [c EXCEPT !.fed = @ + 1, !.pending = @ + 1,
                                                !.queue = Append(@, "pcm")]]
    /\ UNCHANGED <<up, down, serverVars, worker, heard, faults>>

(* websockets.connect: refused if there is no server; it can always fail.  *)
Connect(s) ==
    /\ cli[s].pc = "connect"
    /\ \/ /\ server = "up" /\ NoFault
          /\ cli' = [cli EXCEPT ![s].pc = "config"]
          /\ srv' = [srv EXCEPT ![s].pc = "accept"]
       \/ /\ cli' = [cli EXCEPT ![s] = Leaves(s, TRUE)]
          /\ IF server = "up" THEN Fault ELSE NoFault
          /\ UNCHANGED srv
    /\ UNCHANGED <<up, down, server, ready, lock, worker, heard>>

(* The first message must be the config, within three seconds. *)
ReadConfig(s) ==
    /\ cli[s].pc = "config"
    /\ \/ /\ down[s] # <<>> /\ NoFault
          /\ cli' = [cli EXCEPT ![s] = IF Head(down[s]).kind = "config"
                                       THEN [@ EXCEPT !.pc = "run"] ELSE Leaves(s, TRUE)]
          /\ down' = [down EXCEPT ![s] = Tail(@)]
       \/ /\ down[s] = <<>> /\ TimesOut
          /\ cli' = [cli EXCEPT ![s] = Leaves(s, TRUE)]
          /\ UNCHANGED down
    /\ UNCHANGED <<up, serverVars, worker, heard>>

(* Mutant: a frame stays counted until the client is closed. *)
TakenUncounted(c) == [c EXCEPT !.queue = Tail(@), !.tx = Head(c.queue)]

Taken(c) ==
    [c EXCEPT !.queue = Tail(@), !.tx = Head(c.queue),
              !.pending = IF Head(c.queue) = "pcm" THEN @ - 1 ELSE @]

(* _send takes a frame off the queue, then waits for the socket. *)
Take(s) ==
    /\ cli[s].pc = "run" /\ cli[s].tx = "get" /\ cli[s].queue # <<>>
    /\ cli' = [cli EXCEPT ![s] = Taken(@)]
    /\ UNCHANGED <<up, down, serverVars, worker, heard, faults>>

Push(s) ==
    /\ cli[s].pc = "run" /\ cli[s].tx \in {"pcm", "eof"}
    /\ IF srv[s].pc = "gone"
       THEN cli' = [cli EXCEPT ![s].tx = "failed"] /\ UNCHANGED up
       ELSE /\ Len(up[s]) < Buffer
            /\ up' = [up EXCEPT ![s] = Append(@, cli[s].tx)]
            /\ cli' = [cli EXCEPT ![s].tx = IF @ = "eof" THEN "done" ELSE "get"]
    /\ UNCHANGED <<down, serverVars, worker, heard, faults>>

(* _receive: texts until the server acknowledges the end of the input. *)
Receive(s) ==
    /\ cli[s].pc = "run" /\ cli[s].rx = "run" /\ down[s] # <<>>
    /\ down' = [down EXCEPT ![s] = Tail(@)]
    /\ LET kind == Head(down[s]).kind IN
       cli' = [cli EXCEPT ![s] =
          CASE kind = "ready_to_stop" -> [@ EXCEPT !.ack = TRUE, !.rx = "done"]
            [] kind \in {"error", "close"} -> [@ EXCEPT !.rx = "failed"]
            [] OTHER -> @]
    /\ UNCHANGED <<up, serverVars, worker, heard, faults>>

(* _run waits for the first of the two, and then for the receiver.  An     *)
(* acknowledgement before everything was sent is a failure.                *)
ClientEnds(s) ==
    LET c == cli[s] IN
    /\ c.pc = "run" /\ (c.tx = "failed" \/ c.rx # "run")
    /\ cli' = [cli EXCEPT ![s] = Leaves(s, c.tx # "done" \/ c.rx # "done")]
    /\ UNCHANGED <<up, down, serverVars, worker, heard, faults>>

(* The two tasks and the socket are closed, what is in flight towards the  *)
(* client is lost, and the finally block forgets what was still waiting.   *)
CloseSocket(s) ==
    /\ cli[s].pc = "closing"
    /\ cli' = [cli EXCEPT ![s] = [@ EXCEPT !.pc = "done", !.accepting = FALSE, !.queue = <<>>,
                                           !.pending = 0, !.tx = "get", !.rx = "run"]]
    /\ up' = IF srv[s].pc \in {"none", "gone"} THEN up
             ELSE [up EXCEPT ![s] = Append(@, "close")]
    /\ down' = [down EXCEPT ![s] = <<>>]
    /\ UNCHANGED <<serverVars, worker, heard, faults>>

(* Mutant: the end of the input overtakes the audio that waits. *)
EndedFirst(c) == IF c.accepting THEN [c EXCEPT !.accepting = FALSE, !.queue = <<"eof">> \o @] ELSE c

(* end_input *)
Ended(c) == IF c.accepting THEN [c EXCEPT !.accepting = FALSE, !.queue = Append(@, "eof")] ELSE c

(* The recording is over: the runtime ends the input, and its teardown     *)
(* waits for the preview before the capture is finalized.                  *)
Finish(s) ==
    /\ cli[s].fin = "no"
    /\ cli' = [cli EXCEPT ![s] = [Ended(@) EXCEPT !.fin = "wait"]]
    /\ UNCHANGED <<up, down, serverVars, worker, heard, faults>>

(* finish ends once the preview is over, and raises if it was cancelled. *)
FinishReturns(s) ==
    /\ cli[s].pc = "done" /\ cli[s].fin \in {"wait", "cancelled"}
    /\ cli' = [cli EXCEPT ![s].fin = IF @ = "wait" THEN "returned" ELSE "raised"]
    /\ UNCHANGED <<up, down, serverVars, worker, heard, faults>>

(* Mutant: the teardown waits as long as it takes. *)
FinishWaits(s) == FALSE /\ UNCHANGED vars

(* FINISH_TIMEOUT: the task is cancelled. *)
FinishTimeout(s) ==
    /\ cli[s].fin = "wait" /\ cli[s].pc \notin {"closing", "done"} /\ TimesOut
    /\ cli' = [cli EXCEPT ![s] = Leaves(s, TRUE)]
    /\ UNCHANGED <<up, down, serverVars, worker, heard>>

(* The teardown itself is cancelled while it waits.  It takes the preview  *)
(* with it: no failure is noted, and no acknowledgement waited for.  (A    *)
(* failure that this overtakes on its way to _fail stays unnoted too; the  *)
(* model keeps it, and no property asks for it after a cancellation.)      *)
FinishCancelled(s) ==
    /\ cli[s].fin = "wait" /\ cli[s].pc # "done" /\ Fault
    /\ cli' = [cli EXCEPT ![s] = [Leaves(s, FALSE) EXCEPT !.fin = "cancelled"]]
    /\ UNCHANGED <<up, down, serverVars, worker, heard>>

(* The server *)

(* lifespan: the model is loaded under the lock. *)
StartServer ==
    /\ server = "down" /\ lock = "nobody"
    /\ server' = "starting" /\ lock' = "preview"
    /\ worker' = [NoWorker EXCEPT !.alive = TRUE]
    /\ UNCHANGED <<clientVars, srv, ready, heard, faults>>

ServerReady ==
    /\ server = "starting"
    /\ server' = "up" /\ ready' = TRUE /\ lock' = "nobody"
    /\ UNCHANGED <<clientVars, srv, worker, heard, faults>>

(* A start that fails reaps the worker and lets go of the lock after that. *)
StartFails ==
    /\ server = "starting" /\ Fault
    /\ server' = "aborting" /\ worker' = NoWorker
    /\ UNCHANGED <<clientVars, srv, ready, lock, heard>>

Aborted ==
    /\ server = "aborting"
    /\ server' = "down" /\ lock' = "nobody"
    /\ UNCHANGED <<clientVars, srv, worker, ready, heard, faults>>

(* The owner stops the server; its handlers have ended before. *)
StopServer ==
    /\ server = "up" /\ \A s \in Sessions : srv[s].pc \in {"none", "gone"}
    /\ IF ready THEN Fault ELSE NoFault
    /\ server' = "down" /\ ready' = FALSE /\ worker' = NoWorker
    /\ UNCHANGED <<clientVars, srv, lock, heard>>

(* A message gets as far as there is a client. *)
Sent(s, messages) == IF cli[s].pc = "done" THEN down ELSE [down EXCEPT ![s] = @ \o messages]

(* Mutant: the lock alone decides, which the server may take twice. *)
FreeByLock == ready /\ lock # "final"

Free == ready /\ ~active /\ lock # "final"

(* One session at a time, and none while a final transcription runs. *)
Admit(s) ==
    /\ srv[s].pc = "accept"
    /\ IF Free
       THEN /\ lock' = "preview"
            /\ srv' = [srv EXCEPT ![s].pc = "begin"]
            /\ worker' = [worker EXCEPT !.in = IF worker.alive
                                               THEN Append(@, Message("start", s)) ELSE @]
            /\ UNCHANGED down
       ELSE /\ srv' = [srv EXCEPT ![s].pc = "gone"]
            /\ down' = Sent(s, <<Message("close", s)>>)
            /\ UNCHANGED <<lock, worker>>
    /\ UNCHANGED <<cli, up, server, ready, heard, faults>>

(* The handler leaves its try block. *)
Ends(s, outcome) ==
    srv' = [srv EXCEPT ![s] = [@ EXCEPT !.pc = "cleanup", !.outcome = outcome]]

(* Worker.read: the next line of the worker, or its end. *)
CanRead == worker.out # <<>> \/ ~worker.alive
Line == IF worker.out = <<>> THEN Message("error", "none") ELSE Head(worker.out)
ReadLine == worker' = [worker EXCEPT !.out = IF @ = <<>> THEN @ ELSE Tail(@)]

(* The worker has three seconds to say "started".  Sending the config to a *)
(* client that has gone fails, unless nobody has noticed that yet.         *)
BeginSession(s) ==
    /\ srv[s].pc = "begin"
    /\ \/ /\ CanRead /\ ReadLine /\ NoFault
          /\ \/ /\ Line.kind = "started"
                /\ srv' = [srv EXCEPT ![s].pc = "both"]
                /\ down' = Sent(s, <<Message("config", s)>>)
             \/ /\ Line.kind # "started" \/ cli[s].pc = "done"
                /\ Ends(s, "failed") /\ UNCHANGED down
       \/ TimesOut /\ Ends(s, "indeterminate") /\ UNCHANGED <<worker, down>>
    /\ UNCHANGED <<cli, up, server, ready, lock, heard>>

(* results: texts go to the client as long as it is there. *)
Results(s) ==
    /\ srv[s].pc \in {"both", "last"} /\ srv[s].reader = "run"
    /\ CanRead /\ ReadLine
    /\ CASE Line.kind = "snapshot" ->
              /\ down' = Sent(s, <<Line>>)
              /\ srv' = [srv EXCEPT ![s].disconnected = @ \/ cli[s].pc = "done"]
         [] Line.kind = "finished" -> srv' = [srv EXCEPT ![s].reader = "done"] /\ UNCHANGED down
         [] OTHER -> srv' = [srv EXCEPT ![s].reader = "failed"] /\ UNCHANGED down
    /\ UNCHANGED <<cli, up, server, ready, lock, heard, faults>>

(* feed: audio goes to the worker; the end of the input and the end of the *)
(* connection stop the stream.  A dead worker's pipe is broken.            *)
FeedWorker(s) ==
    /\ srv[s].pc = "both" /\ srv[s].feeder = "recv" /\ up[s] # <<>>
    /\ up' = [up EXCEPT ![s] = Tail(@)]
    /\ LET audio == Head(up[s]) = "pcm" IN
       /\ srv' = [srv EXCEPT ![s].feeder = IF audio THEN "drain" ELSE "stop",
                             ![s].disconnected = @ \/ Head(up[s]) = "close"]
       /\ worker' = [worker EXCEPT !.in = IF ~worker.alive THEN @
                    ELSE Append(@, Message(IF audio THEN "pcm" ELSE "stop", s))]
    /\ UNCHANGED <<cli, down, server, ready, lock, heard, faults>>

(* drain has no time limit. *)
Drain(s) ==
    /\ srv[s].pc = "both" /\ srv[s].feeder \in {"drain", "stop"}
    /\ \/ ~worker.alive /\ srv' = [srv EXCEPT ![s].feeder = "failed"]
       \/ /\ worker.alive /\ Len(worker.in) <= Pipe
          /\ srv' = [srv EXCEPT ![s].feeder = IF @ = "stop" THEN "done" ELSE "recv"]
    /\ UNCHANGED <<clientVars, server, ready, lock, worker, heard, faults>>

(* Mutant: the handler waits for the last texts as long as they take. *)
AwaitReader(s) ==
    LET h == srv[s] IN
    /\ NoFault
    /\ \/ /\ h.pc = "both" /\ h.feeder = "done" /\ h.reader # "failed"
          /\ srv' = [srv EXCEPT ![s].pc = "last"]
       \/ /\ h.pc = "last" /\ h.reader # "run"
          /\ Ends(s, IF h.reader = "done" THEN "passed" ELSE "failed")
    /\ UNCHANGED <<clientVars, server, ready, lock, worker, heard>>

(* The first of the two has ended; then the reader has sixty seconds. *)
Await(s) ==
    LET h == srv[s] IN
    /\ \/ /\ h.pc = "both" /\ h.feeder = "done" /\ h.reader # "failed" /\ NoFault
          /\ srv' = [srv EXCEPT ![s].pc = "last"]
       \/ /\ h.pc = "both" /\ NoFault
          /\ h.feeder = "failed" \/ h.reader = "failed" \/ (h.reader = "done" /\ h.feeder # "done")
          /\ Ends(s, "failed")
       \/ /\ h.pc = "last" /\ h.reader # "run" /\ NoFault
          /\ Ends(s, IF h.reader = "done" THEN "passed" ELSE "failed")
       \/ h.pc = "last" /\ h.reader = "run" /\ TimesOut /\ Ends(s, "indeterminate")
    /\ UNCHANGED <<clientVars, server, ready, lock, worker, heard>>

(* The handler is cancelled, or its socket fails. *)
HandlerRaises(s) ==
    /\ srv[s].pc \in {"begin", "both", "last"} /\ Fault
    /\ Ends(s, "failed")
    /\ UNCHANGED <<clientVars, server, ready, lock, worker, heard>>

(* Unlock, and the last message to a client that is still there. *)
Release(s) ==
    /\ lock' = "nobody"
    /\ srv' = [srv EXCEPT ![s] = [NoHandler EXCEPT !.pc = "gone"]]
    /\ up' = [up EXCEPT ![s] = <<>>]
    /\ down' = Sent(s, <<Message(IF srv[s].outcome = "passed" THEN "ready_to_stop" ELSE "error", s),
                         Message("close", s)>>)

(* Mutant: the lock is released before the worker is reaped. *)
CleanupUnlocks(s) ==
    /\ srv[s].pc = "cleanup"
    /\ IF srv[s].outcome = "passed"
       THEN Release(s) /\ UNCHANGED ready
       ELSE /\ ready' = FALSE /\ lock' = "nobody"
            /\ srv' = [srv EXCEPT ![s].pc = "reap"] /\ UNCHANGED <<up, down>>
    /\ UNCHANGED <<cli, server, worker, heard, faults>>

(* Mutant: a session that failed leaves the worker to the next one. *)
CleanupKeepsWorker(s) ==
    /\ srv[s].pc = "cleanup" /\ Release(s)
    /\ UNCHANGED <<cli, server, ready, worker, heard, faults>>

(* Both tasks are cancelled; only a session that passed keeps the worker. *)
Cleanup(s) ==
    /\ srv[s].pc = "cleanup"
    /\ IF srv[s].outcome = "passed"
       THEN Release(s) /\ UNCHANGED ready
       ELSE /\ ready' = FALSE
            /\ srv' = [srv EXCEPT ![s].pc = "reap"] /\ UNCHANGED <<up, down, lock>>
    /\ UNCHANGED <<cli, server, worker, heard, faults>>

(* The reaping itself can only be cut short by the end of the server,      *)
(* which closes the lock's file and so unlocks it as well.                 *)
Reap(s) ==
    /\ srv[s].pc = "reap" /\ Release(s)
    /\ worker' = NoWorker
    /\ UNCHANGED <<cli, server, ready, heard, faults>>

(* The final transcription, or a deletion, takes the lock and returns it. *)
FinalTakes ==
    /\ lock = "nobody" /\ lock' = "final"
    /\ UNCHANGED <<clientVars, srv, server, ready, worker, heard, faults>>

FinalReleases ==
    /\ lock = "final" /\ lock' = "nobody"
    /\ UNCHANGED <<clientVars, srv, server, ready, worker, heard, faults>>

-----------------------------------------------------------------------------
(* The worker *)

(* How the worker can be after its next command: a text can follow any     *)
(* frame, the last ones come before "finished", and a command out of place *)
(* ends the worker with an error.                                          *)
After(cmd) ==
    LET w == worker
        Emits(stream, lines) == [w EXCEPT !.in = Tail(@), !.stream = stream, !.out = @ \o lines]
        texts == {<<>>, <<Message("snapshot", w.stream)>>}
    IN  CASE cmd.kind = "start" /\ w.stream = "none" ->
               {Emits(cmd.of, <<Message("started", cmd.of)>>)}
          [] cmd.kind = "pcm" /\ w.stream # "none" -> {Emits(w.stream, t) : t \in texts}
          [] cmd.kind = "stop" /\ w.stream # "none" ->
               {Emits("none", Append(t, Message("finished", w.stream))) : t \in texts}
          [] OTHER -> {[NoWorker EXCEPT !.out = Append(w.out, Message("error", "none"))]}

(* It works its input off in order. *)
Work ==
    LET cmd == Head(worker.in) IN
    /\ worker.alive /\ ~worker.hung /\ worker.in # <<>>
    /\ worker' \in After(cmd)
    /\ heard' = [s \in Sessions |->
                   heard[s] + (IF cmd.kind = "pcm" /\ worker.stream = s THEN 1 ELSE 0)]
    /\ UNCHANGED <<clientVars, serverVars, faults>>

WorkerFails ==
    /\ worker.alive /\ server = "up" /\ Fault
    /\ worker' = [NoWorker EXCEPT !.out = Append(worker.out, Message("error", "none"))]
    /\ UNCHANGED <<clientVars, serverVars, heard>>

WorkerHangs ==
    /\ worker.alive /\ ~worker.hung /\ server = "up" /\ Fault
    /\ worker' = [worker EXCEPT !.hung = TRUE]
    /\ UNCHANGED <<clientVars, serverVars, heard>>

-----------------------------------------------------------------------------
Client(s) ==
    \/ Feed(s) \/ Connect(s) \/ ReadConfig(s) \/ ClientEnds(s) \/ CloseSocket(s)
    \/ Take(s) \/ Push(s) \/ Receive(s) \/ Finish(s) \/ FinishReturns(s) \/ FinishTimeout(s)
    \/ FinishCancelled(s)
Handler(s) ==
    \/ Admit(s) \/ BeginSession(s) \/ Results(s) \/ FeedWorker(s) \/ Drain(s)
    \/ Await(s) \/ Cleanup(s) \/ Reap(s)
Lifespan == ServerReady \/ Aborted

Next ==
    \/ \E s \in Sessions : Client(s) \/ Handler(s) \/ HandlerRaises(s)
    \/ StartServer \/ StartFails \/ Lifespan \/ StopServer
    \/ Work \/ WorkerFails \/ WorkerHangs
    \/ FinalTakes \/ FinalReleases

Spec == Init /\ [][Next]_vars

(* The event loops of the backend and of the server run whatever is ready, *)
(* recordings end, and the worker works.  Nobody has to start the server,  *)
(* and a hung worker stays hung: then only the time limits go on.          *)
Fairness ==
    /\ \A s \in Sessions : WF_vars(Client(s)) /\ WF_vars(Handler(s))
    /\ WF_vars(Lifespan) /\ WF_vars(Work)

FairSpec == Spec /\ Fairness

-----------------------------------------------------------------------------
(* Properties *)

(* No inference survives the release of the lock: whenever the worker has  *)
(* a stream or input left, or loads its model, the preview holds the lock, *)
(* however the session before it or the start of the server failed.        *)
InferenceUnderLock ==
    worker.alive /\ (worker.stream # "none" \/ worker.in # <<>> \/ server = "starting")
       => lock = "preview"

(* One recording is transcribed at a time, although the lock alone would   *)
(* admit a second session of the same process.                             *)
OneSession == Cardinality({s \in Sessions : srv[s].pc \in InSession}) <= 1

(* A session that is admitted finds the worker as it was started: however  *)
(* the sessions before it ended, no stream, no input that was not worked   *)
(* off and no line that nobody read is left over for the next one.         *)
WorkerIsFresh ==
    Free /\ worker.alive => [worker EXCEPT !.hung = FALSE] = [NoWorker EXCEPT !.alive = TRUE]

(* How many frames of audio wait in a queue. *)
FramesIn(q) == Cardinality({i \in 1 .. Len(q) : q[i] = "pcm"})

(* The bound on waiting audio counts exactly the frames in the queue, and  *)
(* a preview that has ended keeps none, also if it was fed while it ended. *)
PendingIsExact ==
    \A s \in Sessions :
       /\ cli[s].pending = FramesIn(cli[s].queue)
       /\ cli[s].pc = "done" => cli[s].queue = <<>>

(* finish was cancelled while it waited. *)
Cancelled(c) == c.fin \in {"cancelled", "raised"}

(* The acknowledgement of the server means that all of the audio was       *)
(* recognised, the frames that were still waiting at the end of the input  *)
(* included; and a preview that ends without a failure has got it, unless  *)
(* the teardown was cancelled, which ends a preview without either.        *)
AckIsComplete ==
    \A s \in Sessions :
       /\ cli[s].ack => heard[s] = cli[s].fed
       /\ cli[s].pc = "done" /\ ~cli[s].failed /\ ~Cancelled(cli[s]) => cli[s].ack

(* The preview never keeps a recording from being finalized: every         *)
(* teardown that waits for it gets past it (each waits once), whatever the *)
(* server and its worker do, and also if it is cancelled itself.           *)
TeardownGoesOn ==
    (\E s \in Sessions : cli[s].fin \in {"wait", "cancelled"})
       ~> (\A s \in Sessions : cli[s].fin \notin {"wait", "cancelled"})

(* The handler waits for a worker that no longer reads its full input. *)
Jammed ==
    worker.hung /\ \E s \in Sessions :
       srv[s].pc = "both" /\ srv[s].feeder \in {"drain", "stop"} /\ Len(worker.in) > Pipe

(* The preview gives the lock back to the final transcription, unless its  *)
(* handler jams: neither its client's leaving nor a time limit reaches it. *)
LockComesBack == lock = "preview" ~> lock # "preview" \/ Jammed

=============================================================================
