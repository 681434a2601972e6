---------------------------- MODULE QwenProvider ----------------------------
(***************************************************************************)
(* The speech provider of one session: its worker processes and their      *)
(* protocol, the reader tasks, push, flush and outputs of an answer, and   *)
(* cancel() and _stop(), which interrupt(), push() and generate() may run  *)
(* at the same time.                                                       *)
(*                                                                         *)
(* All tasks share one event loop: an action is what one of them does      *)
(* between two suspensions.  A chunk is one packet of the worker; the      *)
(* limits in seconds may pass whenever their wait has not ended.  The      *)
(* session starts after its warm-up: one worker runs, nothing is open.     *)
(***************************************************************************)
EXTENDS Integers, Sequences, FiniteSets
LOCAL INSTANCE FiniteSetsExt

CONSTANTS
  Intr,         \* interrupt() and close() of the session actor
  Spk,          \* speak(): push and flush
  Gen,          \* generate() itself
  MaxAnswers,   \* bound: answers
  MaxRequests,  \* bound: segments of all answers
  MaxChunks,    \* bound: packets of an answer, but for the first of a segment
  MaxFaults,    \* bound: failures of the worker or the text, limits that pass
  QueueItems,   \* max_items of the media queue
  PipeItems     \* bound: packets in the pipe of a worker

Task == {Intr, Spk, Gen}
Answer == 1..MaxAnswers
Serial == 1..MaxRequests
Worker == 1..(MaxFaults + 1)

ASSUME ProviderAssumption ==
  /\ Cardinality(Task) = 3
  /\ {MaxAnswers, MaxRequests, MaxChunks, QueueItems, PipeItems} \subseteq Nat \ {0}
  /\ MaxFaults \in Nat

VARIABLES
  worker,    \* of each worker process: state, request, flags, pipes
  spawned,   \* worker processes started so far
  process,   \* _process, 0 for None
  reader,    \* of each worker: its _read() task
  ready,     \* the readiness future: "waiting", "yes", "no"
  failure,   \* _failure is set
  key,       \* _key, the answer that is open, 0 for None
  request,   \* _request, 0 for None
  reqs,      \* of each request: what _Request and its worker know
  queue, qkey, \* items and key of the media queue
  answer,    \* the latest answer
  gen, spk, cons, \* where generate(), speak() and publish() of it stand
  cx,        \* of each task: where its cancel() or _stop() stands
  intr,      \* where interrupt() or close() stands
  heard,     \* history: what publish() took for this answer
  faults

workerVars == <<worker, spawned>>
readVars == <<reader, ready>>
provVars == <<process, failure, key, request, reqs>>
queueVars == <<queue, qkey>>
answerVars == <<answer, gen, spk, cons, heard>>

vars == <<workerVars, readVars, provVars, queueVars, answerVars, intr, cx, faults>>

NoWorker == [st |-> "none", term |-> FALSE, job |-> 0, cancelled |-> FALSE, cmds |-> <<>>, out |-> <<>>]
NoReader == [pc |-> "none", serial |-> 0, at |-> 0]
NoRequest == [key |-> 0, done |-> FALSE, cancelled |-> FALSE, stopped |-> FALSE,
              failed |-> FALSE, made |-> 0]
Idle == [pc |-> "none", proc |-> 0]
EOF == [serial |-> 0, at |-> 0]

Init ==
  /\ worker = [w \in Worker |-> IF w = 1 THEN [NoWorker EXCEPT !.st = "idle"] ELSE NoWorker]
  /\ spawned = 1 /\ process = 1
  /\ reader = [w \in Worker |-> IF w = 1 THEN [NoReader EXCEPT !.pc = "read"] ELSE NoReader]
  /\ ready = "yes" /\ failure = FALSE
  /\ key = 0 /\ request = 0
  /\ reqs = [s \in Serial |-> NoRequest]
  /\ queue = <<>> /\ qkey = 0
  /\ answer = 0 /\ gen = "none" /\ spk = "none" /\ cons = "none"
  /\ intr = "none" /\ cx = [t \in Task |-> Idle]
  /\ heard = <<>> /\ faults = 0

Fault == faults < MaxFaults /\ faults' = faults + 1
Running(w) == worker[w].st \notin {"none", "exited"}

-----------------------------------------------------------------------------
(* The worker process.  Its control thread takes the commands, its main    *)
(* thread answers every request exactly once: C, E or D.                   *)

Packet(kind, s, at) == [kind |-> kind, serial |-> s, at |-> at]
Out(w, kind, s) == Append(worker[w].out, Packet(kind, s, 0))
Becomes(w, rec) == worker' = [worker EXCEPT ![w] = rec]
notWorker == <<spawned, readVars, provVars, queueVars, answerVars, intr, cx>>
HasRoom(w) == Len(worker[w].out) < PipeItems

Loaded(w) ==
  /\ worker[w].st = "loading" /\ HasRoom(w)
  /\ \/ Becomes(w, [worker[w] EXCEPT !.st = "idle", !.out = Out(w, "R", 0)]) /\ UNCHANGED faults
     \/ Fault /\ Becomes(w, [worker[w] EXCEPT !.st = "exited", !.out = Out(w, "E", 0)])
  /\ UNCHANGED notWorker

TakeCommand(w) ==
  /\ worker[w].st \in {"idle", "busy"} /\ worker[w].cmds # <<>>
  /\ LET c == Head(worker[w].cmds)
         taken == [worker[w] EXCEPT !.cmds = Tail(@)]
     IN \/ c.kind = "C" /\ Becomes(w, [taken EXCEPT !.cancelled = worker[w].st = "busy"])
        \/ c.kind = "G" /\ worker[w].st = "idle"
             /\ Becomes(w, [taken EXCEPT !.st = "busy", !.job = c.serial, !.cancelled = FALSE])
        \/ c.kind = "G" /\ worker[w].st = "busy" /\ HasRoom(w)
             /\ Becomes(w, [taken EXCEPT !.out = Out(w, "E", worker[w].job)])
        \/ c.kind = "X" /\ Becomes(w, [taken EXCEPT !.term = TRUE, !.cancelled = TRUE])
  /\ UNCHANGED <<notWorker, faults>>

Made(k) == FoldSet(LAMBDA r, n : n + (IF reqs[r].key = k THEN reqs[r].made ELSE 0), 0, Serial)
MakeChunk(w) ==
  /\ worker[w].st = "busy" /\ ~worker[w].cancelled /\ HasRoom(w)
  /\ LET s == worker[w].job
         at == reqs[s].made + 1
     IN /\ at = 1 \/ Made(reqs[s].key) < MaxChunks
        /\ reqs' = [reqs EXCEPT ![s].made = at]
        /\ Becomes(w, [worker[w] EXCEPT !.out = Append(@, Packet("A", s, at))])
  /\ UNCHANGED <<spawned, readVars, process, failure, key, request, queueVars,
                 answerVars, intr, cx, faults>>

Finish(w) ==
  /\ worker[w].st = "busy" /\ HasRoom(w)
  /\ \E kind \in {"C", "E", "D"} :
       /\ kind = "C" <=> worker[w].cancelled
       /\ kind = "D" => reqs[worker[w].job].made > 0
       /\ IF kind = "E" THEN Fault ELSE UNCHANGED faults
       /\ Becomes(w, [worker[w] EXCEPT !.st = "idle", !.job = 0, !.cancelled = FALSE,
                                      !.out = Out(w, kind, worker[w].job)])
  /\ UNCHANGED notWorker

\* Told to stop, or by a failure of its own.
Exit(w) ==
  /\ Running(w)
  /\ IF worker[w].term THEN UNCHANGED faults ELSE Fault
  /\ Becomes(w, [NoWorker EXCEPT !.st = "exited", !.out = IF reader[w].pc = "over" THEN <<>> ELSE worker[w].out])
  /\ UNCHANGED notWorker

-----------------------------------------------------------------------------
(* _stop() and cancel().  _stop() takes the process and its reader away     *)
(* before it waits for the exit; the task t is then at "stop" until the    *)
(* worker has gone, and at "done" when its cancel() or _stop() returns.    *)

At(pc, w) == [pc |-> pc, proc |-> w]
Terminated(w) == IF w # 0 /\ Running(w) THEN [worker EXCEPT ![w].term = TRUE] ELSE worker
Settled(rs) == IF request = 0 THEN rs
               ELSE [rs EXCEPT ![request].stopped = TRUE, ![request].done = TRUE]

StopBegin(t) ==
  /\ process' = 0
  /\ worker' = Terminated(process)
  /\ IF process # 0
       THEN cx' = [cx EXCEPT ![t] = At("stop", process)] /\ UNCHANGED <<reqs, failure>>
       ELSE cx' = [cx EXCEPT ![t] = At("done", 0)] /\ reqs' = Settled(reqs) /\ failure' = FALSE

\* Only the task that took the process cancels its reader.
StopEnd(t) ==
  /\ cx[t].pc = "stop" /\ ~Running(cx[t].proc)
  /\ reader' = [reader EXCEPT ![cx[t].proc] = [NoReader EXCEPT !.pc = "over"]]
  /\ worker' = [worker EXCEPT ![cx[t].proc].out = <<>>]
  /\ reqs' = Settled(reqs) /\ failure' = FALSE
  /\ cx' = [cx EXCEPT ![t] = At("done", 0)]
  /\ UNCHANGED <<spawned, ready, process, key, request, queueVars,
                 answerVars, intr, faults>>

\* The first steps of cancel(), up to its first suspension.
CancelBegin(t) ==
  /\ key' = 0 /\ queue' = <<>> /\ qkey' = 0
  /\ LET r == reqs[request]
     IN IF request # 0 /\ (r.failed \/ failure) THEN StopBegin(t)
        ELSE /\ UNCHANGED <<process, failure>>
             /\ IF request = 0 \/ r.stopped
                  THEN cx' = [cx EXCEPT ![t] = At("done", 0)] /\ UNCHANGED <<reqs, worker>>
                  ELSE /\ reqs' = [reqs EXCEPT ![request].cancelled = TRUE]
                       /\ IF process = 0 \/ ~Running(process)
                            THEN cx' = [cx EXCEPT ![t] = At("raised", 0)] /\ UNCHANGED worker
                            ELSE /\ cx' = [cx EXCEPT ![t] = At("wait", 0)]
                                 /\ worker' = [worker EXCEPT ![process].cmds =
                                                  Append(@, [kind |-> "C", serial |-> 0])]

notCancel == <<spawned, readVars, request>>

\* The worker has answered; any other answer than C or D stops it.
CancelAnswered(t) ==
  /\ cx[t].pc = "wait" /\ reqs[request].done
  /\ IF reqs[request].stopped
       THEN cx' = [cx EXCEPT ![t] = At("done", 0)] /\ UNCHANGED <<process, worker, reqs, failure>>
       ELSE StopBegin(t)
  /\ UNCHANGED <<notCancel, key, queueVars, answerVars, intr, faults>>

\* Two seconds have passed without an answer.
CancelExpires(t) ==
  /\ cx[t].pc = "wait" /\ ~reqs[request].done /\ Fault
  /\ StopBegin(t)
  /\ UNCHANGED <<notCancel, key, queueVars, answerVars, intr>>

Canceller(t) == StopEnd(t) \/ CancelAnswered(t) \/ CancelExpires(t)

-----------------------------------------------------------------------------
(* _read(): the task of worker w.  It asks for the stream of the process    *)
(* that is recorded when it reads on: with none, or with another reader    *)
(* on it, that raises.                                                     *)

Reads(w) == IF process = w THEN "read" ELSE "lost"
notRead == <<spawned, process, key, request, answerVars, intr, cx, faults>>

\* MUTANT: the request that is under way is not told.
CrashQuiet(w) ==
  /\ \/ reader[w].pc = "lost"
     \/ reader[w].pc = "read" /\ worker[w].st = "exited" /\ worker[w].out = <<>>
     \/ /\ reader[w].pc = "read" /\ worker[w].out # <<>>
        /\ \/ Head(worker[w].out).kind = "R" /\ ready # "waiting"
           \/ Head(worker[w].out).kind = "E" /\ ready = "waiting"
  /\ failure' = TRUE
  /\ ready' = IF ready = "waiting" THEN "no" ELSE ready
  /\ reqs' = IF request = 0 THEN reqs
             ELSE [reqs EXCEPT ![request].failed = TRUE]
  /\ queue' = <<>> /\ qkey' = 0
  /\ worker' = Terminated(process)
  /\ reader' = [reader EXCEPT ![w].pc = "over"]
  /\ UNCHANGED notRead

Crash(w) ==
  /\ \/ reader[w].pc = "lost"
     \/ reader[w].pc = "read" /\ worker[w].st = "exited" /\ worker[w].out = <<>>
     \/ /\ reader[w].pc = "read" /\ worker[w].out # <<>>
        /\ \/ Head(worker[w].out).kind = "R" /\ ready # "waiting"
           \/ Head(worker[w].out).kind = "E" /\ ready = "waiting"
  /\ failure' = TRUE
  /\ ready' = IF ready = "waiting" THEN "no" ELSE ready
  /\ reqs' = IF request = 0 THEN reqs
             ELSE [reqs EXCEPT ![request].failed = TRUE, ![request].done = TRUE]
  /\ queue' = <<>> /\ qkey' = 0
  /\ worker' = Terminated(process)
  /\ reader' = [reader EXCEPT ![w].pc = "over"]
  /\ UNCHANGED notRead

Chunk(s, at) == [serial |-> s, at |-> at]
Holds(w, pc, c) == reader' = [reader EXCEPT ![w] = [pc |-> pc, serial |-> c.serial, at |-> c.at]]

\* MUTANT: a reader that was waiting for room does not look at the key again.
PutUnfenced(w, c) ==
  IF Len(queue) < QueueItems /\ qkey # 0 THEN queue' = Append(queue, c) /\ Holds(w, Reads(w), EOF)
  ELSE Holds(w, "put", c) /\ UNCHANGED queue

\* MediaQueue.put of a chunk c, now or when it is woken.
Put(w, c) ==
  IF qkey # reqs[c.serial].key THEN Holds(w, Reads(w), EOF) /\ UNCHANGED queue
  ELSE IF Len(queue) < QueueItems THEN queue' = Append(queue, c) /\ Holds(w, Reads(w), EOF)
  ELSE Holds(w, "put", c) /\ UNCHANGED queue

ReadPacket(w) ==
  /\ reader[w].pc = "read" /\ worker[w].out # <<>>
  /\ worker' = [worker EXCEPT ![w].out = Tail(@)]
  /\ LET p == Head(worker[w].out)
         stale == ~(request # 0 /\ request = p.serial /\ ~reqs[p.serial].done)
         fenced == reqs[p.serial].cancelled \/ key # reqs[p.serial].key
         on == Holds(w, Reads(w), EOF)
     IN \/ p.kind = "R" /\ ready = "waiting" /\ ready' = "yes" /\ on /\ UNCHANGED <<reqs, queue>>
        \/ /\ p.kind # "R" /\ ~(p.kind = "E" /\ ready = "waiting")
           /\ UNCHANGED ready
           /\ \/ stale /\ on /\ UNCHANGED <<reqs, queue>>
              \/ ~stale /\ p.kind = "A" /\ UNCHANGED reqs
                   /\ IF fenced THEN on /\ UNCHANGED queue ELSE Put(w, Chunk(p.serial, p.at))
              \/ ~stale /\ p.kind # "A" /\ on /\ UNCHANGED queue
                   /\ reqs' = [reqs EXCEPT ![p.serial] =
                        [@ EXCEPT !.done = TRUE, !.failed = @ \/ p.kind = "E",
                                  !.cancelled = @ \/ p.kind = "C", !.stopped = @ \/ p.kind # "E"]]
  /\ UNCHANGED <<failure, qkey, notRead>>

PutResumes(w) ==
  /\ reader[w].pc = "put"
  /\ qkey # reqs[reader[w].serial].key \/ Len(queue) < QueueItems
  /\ Put(w, Chunk(reader[w].serial, reader[w].at))
  /\ UNCHANGED <<worker, ready, reqs, failure, qkey, notRead>>

Read(w) == Crash(w) \/ ReadPacket(w) \/ PutResumes(w)

-----------------------------------------------------------------------------
(* push(), flush() and outputs(), as speak() and publish() call them.       *)

notSpeak == <<spawned, readVars, process, failure, key, queueVars, answer, gen, cons, heard,
              intr, cx, faults>>

\* The epoch of the answer is over.
Superseded == intr # "none"

Push ==
  /\ spk = "idle" /\ request + 1 \in Serial
  /\ IF key # answer \/ Superseded
       THEN spk' = "over" /\ UNCHANGED <<worker, reqs, request, notSpeak>>
       ELSE /\ request' = request + 1
            /\ LET new == [NoRequest EXCEPT !.key = key]
               IN IF process # 0 /\ Running(process)
                    THEN /\ reqs' = [reqs EXCEPT ![request + 1] = new]
                         /\ worker' = [worker EXCEPT ![process].cmds =
                                         Append(@, [kind |-> "G", serial |-> request + 1])]
                         /\ spk' = "push"
                    ELSE /\ reqs' = [reqs EXCEPT ![request + 1] = [new EXCEPT !.failed = TRUE]]
                         /\ spk' = "raise" /\ UNCHANGED worker
            /\ UNCHANGED notSpeak

\* A push that fails cancels before it raises.
PushCancels ==
  /\ spk = "raise" /\ cx[Spk].pc = "none"
  /\ CancelBegin(Spk) /\ spk' = "failing"
  /\ UNCHANGED <<notCancel, answer, gen, cons, heard, intr, faults>>

PushReturns ==
  /\ spk = "push" /\ reqs[request].done
  /\ IF reqs[request].cancelled \/ key # reqs[request].key THEN spk' = "over"
     ELSE spk' = IF reqs[request].failed THEN "raise" ELSE "idle"
  /\ UNCHANGED <<worker, reqs, request, notSpeak>>

\* generation_timeout.
PushExpires ==
  /\ spk = "push" /\ ~reqs[request].done /\ Fault
  /\ IF key = reqs[request].key
       THEN spk' = "raise" /\ reqs' = [reqs EXCEPT ![request].failed = TRUE]
       ELSE spk' = "failed" /\ UNCHANGED reqs
  /\ UNCHANGED <<workerVars, readVars, process, failure, key, request, queueVars,
                 answer, gen, cons, heard, intr, cx>>

Flush ==
  /\ spk = "idle"
  /\ spk' = IF key = 0 THEN "over" ELSE "flush"
  /\ UNCHANGED <<workerVars, readVars, process, failure, key, request, reqs, queueVars,
                 answer, gen, cons, heard, intr, cx, faults>>

PutEOF ==
  /\ spk = "flush"
  /\ \/ qkey # answer /\ UNCHANGED queue
     \/ qkey = answer /\ Len(queue) < QueueItems /\ queue' = Append(queue, EOF)
  /\ spk' = "over"
  /\ UNCHANGED <<workerVars, readVars, provVars, qkey, answer, gen, cons, heard, intr, cx, faults>>

Consume ==
  /\ cons = "get"
  /\ \/ qkey # answer /\ cons' = (IF failure THEN "failed" ELSE "over") /\ UNCHANGED <<queue, heard>>
     \/ /\ qkey = answer /\ queue # <<>>
        /\ queue' = Tail(queue) /\ heard' = Append(heard, Head(queue))
        /\ cons' = IF Head(queue) = EOF THEN "over" ELSE cons
  /\ UNCHANGED <<workerVars, readVars, provVars, qkey, answer, gen, spk, intr, cx, faults>>

-----------------------------------------------------------------------------
(* generate(): open_session(), then the two tasks; an exception is answered *)
(* by cancel(), unless the answer has been superseded, and by the end of    *)
(* the tasks.                                                               *)

notGen == <<request, reqs, answer, intr, faults>>

OpenSession ==
  /\ key' = answer /\ qkey' = answer /\ queue' = <<>>
  /\ gen' = "run" /\ spk' = "idle" /\ cons' = "get" /\ heard' = <<>>

StaysShut(to) == gen' = to /\ UNCHANGED <<key, queueVars, spk, cons, heard>>

\* A session that was left open is refused, unless it was flushed and heard to its end.
Open ==
  /\ gen = "open"
  /\ \/ key # 0 /\ StaysShut("except") /\ UNCHANGED <<worker, spawned, ready>>
     \/ /\ process = 0 /\ spawned + 1 \in Worker
        /\ spawned' = spawned + 1 /\ ready' = "waiting"
        /\ worker' = [worker EXCEPT ![spawned + 1].st = "loading"]
        /\ StaysShut("create")
     \/ /\ process # 0 /\ UNCHANGED <<worker, spawned, ready>>
        /\ IF failure THEN StaysShut("except") ELSE OpenSession
  /\ UNCHANGED <<reader, process, failure, cx, notGen>>

\* MUTANT: a process whose creation was cancelled is forgotten.
CreatedAlone ==
  /\ gen \in {"create", "create cancelled"}
  /\ process' = (IF gen = "create" THEN spawned ELSE 0)
  /\ gen' = (IF gen = "create" THEN "ready" ELSE "over")
  /\ reader' = [reader EXCEPT ![spawned].pc = "read"]
  /\ UNCHANGED <<worker, cx, spawned, ready, failure, key, queueVars, spk, cons, heard, notGen>>

\* The process is recorded also when the task was cancelled meanwhile.
Created ==
  /\ gen \in {"create", "create cancelled"}
  /\ IF gen = "create"
       THEN /\ process' = spawned /\ gen' = "ready"
            /\ reader' = [reader EXCEPT ![spawned].pc = "read"]
            /\ UNCHANGED <<worker, cx>>
       ELSE /\ process' = 0 /\ gen' = "stop"
            /\ worker' = Terminated(spawned)
            /\ cx' = [cx EXCEPT ![Gen] = At("stop", spawned)]
            /\ UNCHANGED reader
  /\ UNCHANGED <<spawned, ready, failure, key, queueVars, spk, cons, heard, notGen>>

Opened ==
  /\ gen = "ready" /\ ready = "yes"
  /\ IF failure THEN StaysShut("except") ELSE OpenSession
  /\ UNCHANGED <<workerVars, readVars, process, failure, cx, notGen>>

\* Also what cancellation does here: stop the worker that was starting.
OpenStops(next) ==
  /\ StopBegin(Gen) /\ gen' = next
  /\ UNCHANGED <<spawned, readVars, key, request, queueVars, answer, spk, cons, heard>>

OpenFails ==
  /\ gen = "ready"
  /\ \/ ready = "no" /\ UNCHANGED faults
     \/ ready = "waiting" /\ Fault
  /\ OpenStops("stop and raise")
  /\ UNCHANGED intr

GenFrame == UNCHANGED <<workerVars, readVars, provVars, queueVars, answer, heard, intr>>

OpenFailed ==
  /\ gen \in {"stop", "stop and raise"} /\ cx[Gen].pc = "done"
  /\ gen' = IF gen = "stop" THEN "over" ELSE "except"
  /\ cx' = [cx EXCEPT ![Gen] = Idle]
  /\ UNCHANGED <<spk, cons, faults>> /\ GenFrame

\* One of the tasks has raised; or the text or the media has.
TaskRaises ==
  /\ gen = "run" /\ "failed" \in {spk, cons}
  /\ gen' = "except" /\ UNCHANGED <<spk, cons, cx, faults>> /\ GenFrame

TextFails ==
  /\ gen = "run" /\ Fault
  /\ gen' = "except" /\ UNCHANGED <<spk, cons, cx>> /\ GenFrame

Except ==
  /\ gen = "except"
  /\ IF Superseded
       THEN gen' = "finally" /\ UNCHANGED <<key, queueVars, process, failure, worker, reqs, cx>>
       ELSE gen' = "cancel" /\ CancelBegin(Gen)
  /\ UNCHANGED <<notCancel, answer, spk, cons, heard, intr, faults>>

ExceptEnds ==
  /\ gen = "cancel" /\ cx[Gen].pc \in {"done", "raised"}
  /\ gen' = "finally" /\ cx' = [cx EXCEPT ![Gen] = Idle]
  /\ UNCHANGED <<spk, cons, faults>> /\ GenFrame

\* The tasks are cancelled; one that is in push or flush cancels the
\* provider, one that is cancelling is stopped in the middle of it.
Ended == {"none", "over", "failed"}
Finally ==
  /\ gen = "finally" /\ spk \notin Ended \cup {"ending"}
  /\ cons' = "over"
  /\ IF spk \in {"push", "flush"}
       THEN CancelBegin(Spk) /\ spk' = "ending"
       ELSE /\ spk' = "failed" /\ cx' = [cx EXCEPT ![Spk] = Idle]
            /\ UNCHANGED <<key, queueVars, process, failure, worker, reqs>>
  /\ UNCHANGED <<notCancel, answer, gen, heard, intr, faults>>

SpeakFails ==
  /\ spk \in {"failing", "ending"} /\ cx[Spk].pc \in {"done", "raised"}
  /\ spk' = "failed" /\ cx' = [cx EXCEPT ![Spk] = Idle]
  /\ UNCHANGED <<gen, cons, faults>> /\ GenFrame

AnswerEnds ==
  /\ \/ gen = "run" /\ spk = "over" /\ cons = "over"
     \/ gen = "finally" /\ spk \in Ended
  /\ gen' = "over" /\ spk' = "none" /\ cons' = "none" /\ heard' = <<>>
  /\ UNCHANGED <<workerVars, readVars, provVars, queueVars, answer, intr, cx, faults>>

Generate == Open \/ Created \/ Opened \/ OpenFails \/ TaskRaises \/ Except \/ Finally \/ AnswerEnds
Speak == Push \/ PushCancels \/ PushReturns \/ PushExpires \/ Flush \/ PutEOF

-----------------------------------------------------------------------------
(* interrupt() and close() of the actor; generation_lock admits one.        *)

Interrupt ==
  /\ intr = "none"
  /\ CancelBegin(Intr) /\ intr' = "cancel"
  /\ UNCHANGED <<notCancel, answerVars, faults>>

\* task.cancel(): what becomes of generate() where it stands.
CancelAnswer ==
  CASE gen = "create" -> gen' = "create cancelled" /\ UNCHANGED <<spk, process, worker, cx, reqs, failure>>
    [] gen = "ready" -> StopBegin(Gen) /\ gen' = "stop" /\ UNCHANGED spk
    [] gen \in {"run", "except", "cancel"} ->
         /\ gen' = "finally" /\ cx' = [cx EXCEPT ![Gen] = Idle]
         /\ UNCHANGED <<spk, process, worker, reqs, failure>>
    [] gen \in {"open", "stop", "stop and raise"} ->
         /\ gen' = "over" /\ cx' = [cx EXCEPT ![Gen] = Idle]
         /\ UNCHANGED <<spk, process, worker, reqs, failure>>
    [] gen = "finally" /\ spk = "ending" ->
         /\ spk' = "failed" /\ cx' = [cx EXCEPT ![Spk] = Idle]
         /\ UNCHANGED <<gen, process, worker, reqs, failure>>
    [] OTHER -> UNCHANGED <<gen, spk, process, worker, cx, reqs, failure>>

InterruptReaps ==
  /\ intr = "cancel" /\ cx[Intr].pc = "done" /\ intr' = "reap"
  /\ CancelAnswer
  /\ UNCHANGED <<notCancel, key, queueVars, answer, cons, heard, faults>>

\* What the model forgets of the requests before the last one.
Forgotten == [NoRequest EXCEPT !.done = TRUE, !.stopped = TRUE]
\* The next answer starts, or none; in close() the provider is next.
Reaped ==
  /\ intr = "reap" /\ gen \in {"none", "over"}
  /\ cx' = [cx EXCEPT ![Intr] = Idle]
  /\ intr' \in {"close", "none"}
  /\ \/ intr' = "none" /\ answer < MaxAnswers /\ answer' = answer + 1 /\ gen' = "open"
          /\ reqs' = [r \in Serial |-> IF r < request THEN [Forgotten EXCEPT !.key = reqs[r].key] ELSE reqs[r]]
     \/ UNCHANGED <<answer, gen, reqs>>
  /\ UNCHANGED <<workerVars, readVars, process, failure, key, request, queueVars,
                 spk, cons, heard, faults>>

\* interrupt() raises what cancel() raised, before it has reaped.  What
\* follows is not modelled (Next) but for close(), which goes on.
InterruptRaises ==
  /\ intr = "cancel" /\ cx[Intr].pc = "raised"
  /\ intr' \in {"close", "failed"} /\ cx' = [cx EXCEPT ![Intr] = Idle]
  /\ UNCHANGED <<gen, spk, cons, faults>>
  /\ UNCHANGED <<workerVars, readVars, provVars, queueVars, answer, heard>>

Close ==
  /\ intr = "close" /\ intr' = "close cancel"
  /\ CancelBegin(Intr)
  /\ UNCHANGED <<notCancel, answerVars, faults>>

\* X is sent to a worker that runs; then it is waited for, or stopped.
CloseWaits ==
  /\ intr = "close cancel" /\ cx[Intr].pc \in {"done", "raised"}
  /\ intr' = "close wait" /\ cx' = [cx EXCEPT ![Intr] = Idle]
  /\ worker' = IF cx[Intr].pc = "done" /\ process # 0 /\ Running(process)
                 THEN [worker EXCEPT ![process].cmds = Append(@, [kind |-> "X", serial |-> 0])]
                 ELSE worker
  /\ UNCHANGED <<spawned, readVars, provVars, queueVars, answerVars, faults>>

CloseStops ==
  /\ intr = "close wait" /\ intr' = "close stop"
  /\ StopBegin(Intr)
  /\ UNCHANGED <<notCancel, key, queueVars, answerVars, faults>>

Closed ==
  /\ intr = "close stop" /\ cx[Intr].pc = "done"
  /\ intr' = "closed" /\ cx' = [cx EXCEPT ![Intr] = Idle]
  /\ UNCHANGED <<gen, spk, cons, faults>>
  /\ UNCHANGED <<workerVars, readVars, provVars, queueVars, answer, heard>>

WorkerStep(w) == Loaded(w) \/ TakeCommand(w) \/ MakeChunk(w) \/ Finish(w)

\* A task whose cancel() or _stop() has returned goes on before the event
\* loop runs another one.
Returning == \E t \in Task : cx[t].pc \in {"done", "raised"} /\ ~(t = Intr /\ intr = "reap")
Return == \/ InterruptReaps \/ InterruptRaises \/ CloseWaits \/ Closed
          \/ OpenFailed \/ ExceptEnds \/ SpeakFails

Loop ==
  \/ \E w \in Worker : Read(w)
  \/ \E t \in Task : Canceller(t)
  \/ Generate \/ Speak \/ Consume
  \/ Reaped \/ Close \/ CloseStops

Next == intr # "failed" /\
  \/ \E w \in Worker : WorkerStep(w) \/ Exit(w)
  \/ Return
  \/ ~Returning /\ (Loop \/ TextFails \/ Interrupt)

Spec == Init /\ [][Next]_vars

\* The event loop and the threads of a worker run on; a worker that was
\* told to stop exits, or is killed after two seconds.
FairSpec == Spec /\ WF_vars(Return) /\ WF_vars(~Returning /\ Loop)
                 /\ WF_vars(\E w \in Worker : WorkerStep(w))
                 /\ WF_vars(\E w \in Worker : worker[w].term /\ Exit(w))

-----------------------------------------------------------------------------
(* Properties. *)

(* Types; the task that waits for the worker's exit took the process away, *)
(* a session is opened for an answer that has had none, and no request is  *)
(* answered twice over: one that is stopped is done.                       *)
TypeOK ==
  /\ \A w \in Worker :
       /\ worker[w].st \in {"none", "loading", "idle", "busy", "exited"}
       /\ Len(worker[w].out) <= PipeItems /\ worker[w].job \in Serial \cup {0}
       /\ worker[w].st = "busy" <=> worker[w].job # 0
  /\ process \in Worker \cup {0} /\ spawned \in Worker
  /\ key \in Answer \cup {0} /\ qkey \in {0, key} /\ Len(queue) <= QueueItems
  /\ request \in Serial \cup {0}
  /\ \A r \in Serial : reqs[r].stopped => reqs[r].done
  /\ \A t \in Task : cx[t].pc = "stop" => cx[t].proc # process
  /\ gen = "open" => key # answer

(* publish() takes the chunks of one answer, every one, in order, without  *)
(* a gap within or between its segments, and the end only after all of the *)
(* last segment, when every segment was completed by the worker.           *)
InOrder(a, b) ==
  \/ b.serial = a.serial /\ b.at = a.at + 1
  \/ b.serial = a.serial + 1 /\ b.at = 1 /\ a.at = reqs[a.serial].made
HeardInOrder ==
  \A i \in DOMAIN heard :
    IF heard[i] = EOF
      THEN /\ i = Len(heard)
           /\ i > 1 => heard[i - 1].at = reqs[heard[i - 1].serial].made
           /\ \A r \in Serial : i > 1 /\ reqs[r].key = reqs[heard[1].serial].key
                => reqs[r].stopped /\ ~reqs[r].cancelled /\ r <= heard[i - 1].serial
      ELSE IF i > 1 THEN InOrder(heard[i - 1], heard[i])
      ELSE heard[1].at = 1 /\ (heard[1].serial > 1 => reqs[heard[1].serial - 1].key # reqs[heard[1].serial].key)

(* No worker is stranded: one that runs is the recorded one, or is being   *)
(* recorded, or was told to stop.  And a worker is never asked to speak    *)
(* before it has answered the request before.                              *)
NoStrandedWorker ==
  TypeOK /\ \A w \in Worker :
    /\ Running(w) => w = process \/ worker[w].term \/ (w = spawned /\ gen \in {"create", "create cancelled"})
    /\ Cardinality({i \in DOMAIN worker[w].cmds : worker[w].cmds[i].kind = "G"})
         + (IF worker[w].st = "busy" THEN 1 ELSE 0) <= 1

(* Requests keep apart, in what is heard and in the workers that speak.    *)
RequestsAreSeparate == HeardInOrder /\ NoStrandedWorker

(* What interrupt() tells the browser: when cancel() returns, nothing is   *)
(* computed any more.                                                      *)
CancelMeansStopped ==
  intr = "cancel" /\ cx[Intr].pc = "done" => \A w \in Worker : worker[w].st # "busy"

(* Every interruption ends: cancel() and the end of the tasks that it waits *)
(* for are not held up by a full pipe or queue, a silent reader, another   *)
(* task in _stop(), or a worker that has gone.                             *)
InterruptEnds == intr = "cancel" ~> intr \in {"none", "closed", "failed"}

(* Every answer ends by itself or is interrupted: push() gets its answer,  *)
(* flush() finds room and publish() the end of the stream.                 *)
AnswerCompletes == gen = "open" ~> gen = "over" \/ intr = "failed"

(* So everyone who waits for the provider gets an end.                     *)
EverythingEnds == InterruptEnds /\ AnswerCompletes
=============================================================================
