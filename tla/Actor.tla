------------------------------- MODULE Actor --------------------------------
(***************************************************************************)
(* One session actor: its turns (epoch, current response), the tasks that  *)
(* interrupt it, answer for it or close it, the control endpoint, and its  *)
(* writes to the session row.                                              *)
(*                                                                         *)
(* All tasks share one event loop; an action is what a task does between   *)
(* two suspensions.  A task may be cancelled where it waits.  Writes to    *)
(* the row run on threads: they commit in any order, also after the task   *)
(* that asked for them is gone.  The speech provider and the media are     *)
(* modelled by what the actor can tell of them.                            *)
(***************************************************************************)
EXTENDS Integers, Sequences, FiniteSets

CONSTANTS
  Ctl,          \* the control request that holds control_lock
  Mic,          \* input_task: receive
  Fin,          \* final_task: commit_audio
  Beat,         \* heartbeat: lease
  Prep,         \* preparation
  Out,          \* whoever calls close from outside
  None,
  MaxEpoch,     \* bound: epochs
  MaxSequence,  \* bound: sequence numbers of controls
  MaxFaults,    \* bound: failures
  Failing,      \* bound: what they are of
  WithLease,    \* bound: whether lease() runs
  Revocable     \* bound: whether the asset is revoked

Task == {Ctl, Mic, Fin, Beat, Prep, Out}
Epoch == 0..MaxEpoch

ASSUME ActorAssumption ==
  /\ Ctl \notin {Mic, Fin, Beat, Prep, Out} /\ Mic \notin {Fin, Beat, Prep, Out}
  /\ Fin \notin {Beat, Prep, Out} /\ Beat \notin {Prep, Out} /\ Prep # Out
  /\ Task \cap Nat = {} /\ None \notin Task \cup Nat
  /\ None \notin {"PREPARING", "READY", "ACTIVE", "DRAINING", "CLOSED"}
  /\ MaxEpoch \in Nat \ {0} /\ MaxSequence \in Nat /\ MaxFaults \in Nat
  /\ {WithLease, Revocable} \subseteq BOOLEAN
  /\ Failing \subseteq {"store", "worker", "media", "asr"}

VARIABLES
  epoch, response, responding,
  fresh,      \* the transcript being made is of the current utterance
  ready, closing, closed, closeDone, persisted,
  leaseLost,  \* the close that runs reports lease_lost
  inMap,      \* the actor is in the dictionary of the application
  reply,      \* last answer to a close request
  pc, mode,   \* of each task: where it stands, and what it interrupts for
  popped,     \* of each task: the response that its interrupt took over
  lockQ,      \* generation_lock: its holder, then those who wait, in order
  resp,       \* of each epoch: where its generate() stands
  doomed,     \* responses whose task was told to stop
  tts, media,
  row,        \* the session row, and how far the revocation of its asset got with it
  writes, result,             \* updates of the row under way, and their outcomes
  body, controls,             \* the control being served; the numbers in the table of controls
  acked, overtaken, applied, again,   \* history
  faults

turnVars == <<epoch, response, responding, fresh>>
endVars == <<ready, closing, closed, closeDone, persisted, leaseLost>>
appVars == <<inMap, reply, body, controls>>
taskVars == <<pc, mode, popped, lockQ>>
respVars == <<resp, doomed>>
rowVars == <<row, writes, result>>
history == <<acked, overtaken, applied, again>>
vars == <<turnVars, endVars, appVars, taskVars, respVars, tts, media, rowVars, history, faults>>

Interrupting == {"tts", "reap", "media", "persist"}   \* past the lock
Asking == {"enter", "lock"}
TaskState == {"idle", "over", "enter", "lock", "gather", "store", "await",
              "asr", "open", "connect", "write", "record"} \cup Interrupting
RespState == {"none", "open", "load", "clear", "publish", "active", "speak", "finish",
              "failing", "done"}
\* CLOSED is FAILED too: they differ in the error that is shown.
Gone == {"DRAINING", "CLOSED"}
Status == {"PREPARING", "READY", "ACTIVE"} \cup Gone
Body == [sequence : 1..MaxSequence, expected : Epoch]
Write == [by : Task \cup Epoch \cup {None}, epoch : Epoch \cup {None}, status : Status \cup {None}]

\* The types; and generation_lock is held or wanted by exactly those tasks that
\* are inside interrupt(), however they were cancelled or closed down.
TypeOK ==
  /\ epoch \in Epoch /\ response \in Epoch \cup {None}
  /\ {responding, fresh, ready, closing, closed, closeDone, persisted, leaseLost,
      inMap} \subseteq BOOLEAN
  /\ reply \in {"none", "CLOSED", "pending"}
  /\ pc \in [Task -> TaskState] /\ mode \in [Task -> {"interrupt", "answer", "close"}]
  /\ popped \in [Task -> Epoch \cup {None}] /\ lockQ \in Seq(Task)
  /\ \A t \in Task : (\E i \in DOMAIN lockQ : lockQ[i] = t) <=> pc[t] \in Asking \cup Interrupting
  /\ resp \in [Epoch -> RespState] /\ doomed \subseteq Epoch
  /\ tts \in [key : Epoch \cup {None}, worker : {"none", "loading", "up", "dead"},
              req : {"none", "running", "stopped", "failed"}]
  /\ media \in [cancelled : BOOLEAN, blocked : BOOLEAN,
                tracks : SUBSET Epoch, up : BOOLEAN]
  /\ row \in [status : Status, epoch : Epoch, fence : {1, 2},
              revoked : {"no", "selected", "done"}]
  /\ writes \subseteq Write /\ result \in [Task \cup Epoch -> {"none", "ok", "bad"}]
  /\ body \in Body \cup {None} /\ controls \subseteq 1..MaxSequence
  /\ acked \in Epoch /\ overtaken \in BOOLEAN /\ applied \subseteq Body /\ again \in BOOLEAN
  /\ faults \in 0..MaxFaults

Init ==
  /\ epoch = 0 /\ response = None /\ responding = FALSE /\ fresh = FALSE
  /\ ready = FALSE /\ closing = FALSE /\ closed = FALSE /\ closeDone = FALSE
  /\ persisted = FALSE /\ leaseLost = FALSE /\ inMap = TRUE /\ reply = "none"
  /\ pc = [t \in Task |-> IF t = Prep THEN "open" ELSE IF t \in {Ctl, Mic, Beat} THEN "over" ELSE "idle"]
  /\ mode = [t \in Task |-> "interrupt"] /\ popped = [t \in Task |-> None] /\ lockQ = <<>>
  /\ resp = [e \in Epoch |-> "none"] /\ doomed = {}
  /\ tts = [key |-> None, worker |-> "none", req |-> "none"]
  /\ media = [cancelled |-> TRUE, blocked |-> FALSE, tracks |-> {}, up |-> FALSE]
  /\ row = [status |-> "PREPARING", epoch |-> 0, fence |-> 1, revoked |-> "no"]
  /\ writes = {} /\ result = [x \in Task \cup Epoch |-> "none"]
  /\ body = None /\ controls = {}
  /\ acked = 0 /\ overtaken = FALSE /\ applied = {} /\ again = FALSE
  /\ faults = 0

Fault(part) == part \in Failing /\ faults < MaxFaults /\ faults' = faults + 1

\* Bound: a turn is begun only while one epoch remains for the close.
Room == epoch + Cardinality({t \in Task : pc[t] \in Asking}) + 1 < MaxEpoch

\* A task that finds generation_lock free takes it without suspending, and keeps
\* the loop; one that must wait is woken later.
LoopFree == \A t \in Task : pc[t] # "enter"
AtLock(q) == IF q = <<>> THEN "enter" ELSE "lock"

\* The queue without a task that no longer waits.
Without(q, x) ==
  LET at == {i \in DOMAIN q : q[i] = x}
  IN  IF at = {} THEN q
      ELSE [j \in 1..(Len(q) - 1) |-> IF \E i \in at : i <= j THEN q[j + 1] ELSE q[j]]

-----------------------------------------------------------------------------
(* The session row                                                         *)

Orphaned(X) == {IF w.by \in X THEN [w EXCEPT !.by = None] ELSE w : w \in writes}
Forgotten(X) == [x \in Task \cup Epoch |-> IF x \in X THEN "none" ELSE result[x]]
Sent(x, e, s) == writes' = writes \cup {[by |-> x, epoch |-> e, status |-> s]}

\* MUTANT: a stopped session may be revived.
Accepted_Revived(w) == row.fence = 1 /\ (w.epoch = None \/ w.epoch >= row.epoch)

Accepted(w) ==
  /\ row.fence = 1
  /\ row.status \in Gone => w.status \in {None, "CLOSED"}
  /\ w.epoch = None \/ w.epoch >= row.epoch

Answered(w, r) == result' = IF w.by = None THEN result ELSE [result EXCEPT ![w.by] = r]

\* Store.update, on a thread.
Commit(w) ==
  /\ w \in writes /\ writes' = writes \ {w}
  /\ IF Accepted(w)
     THEN /\ row' = [row EXCEPT !.status = IF w.status = None THEN @ ELSE w.status,
                                !.epoch = IF w.epoch = None THEN @ ELSE w.epoch]
          /\ Answered(w, "ok")
     ELSE UNCHANGED row /\ Answered(w, "bad")
  /\ UNCHANGED <<turnVars, endVars, appVars, taskVars, respVars, tts, media, history, faults>>

CommitFails(w) ==
  /\ Fault("store")
  /\ w \in writes /\ writes' = writes \ {w} /\ Answered(w, "bad")
  /\ UNCHANGED <<turnVars, endVars, appVars, taskVars, respVars, tts, media, row, history>>

\* Revocation of the asset, on a thread: the sessions that run are selected, without
\* a lock.  For a row that is gone there is nothing to write.
RevokeSelects ==
  /\ Revocable /\ row.revoked = "no"
  /\ row' = [row EXCEPT !.revoked = IF row.status \in Gone THEN "done" ELSE "selected"]
  /\ UNCHANGED faults

\* Its commit drains the row that it selected, whatever the row has become since.
RevokeCommits ==
  /\ row.revoked = "selected"
  /\ row' = [row EXCEPT !.status = "DRAINING", !.revoked = "done"]
  /\ UNCHANGED faults

RevokeFails ==
  /\ row.revoked = "selected" /\ Fault("store")
  /\ row' = [row EXCEPT !.revoked = "no"]

\* The cleanup found no actor, or its close was persisted: the row is given back, and
\* no update of the actor is accepted any more.
StopOrphan ==
  /\ row.revoked = "done" /\ row.status = "DRAINING"
  /\ ~inMap \/ (media.blocked /\ persisted)
  /\ row' = [row EXCEPT !.status = "CLOSED", !.fence = 2]
  /\ UNCHANGED faults

Revocation ==
  /\ RevokeSelects \/ RevokeCommits \/ RevokeFails \/ StopOrphan
  /\ UNCHANGED <<turnVars, endVars, appVars, taskVars, respVars, tts, media, writes, result, history>>

-----------------------------------------------------------------------------
(* The speech provider, as the actor sees it                               *)

\* cancel() up to its first suspension: the key is gone, and the worker too if
\* the last request failed.
Fenced(x) == [x EXCEPT !.key = None, !.worker = IF x.req = "failed" THEN "none" ELSE @]
CancelSuspends == tts.req = "running" \/ (tts.req = "failed" /\ tts.worker # "none")
Halted(x) == [x EXCEPT !.key = None, !.req = IF @ = "running" THEN "stopped" ELSE @]

\* The worker ends a request, is told to stop, or reports an error.
WorkerAnswers ==
  /\ tts.worker = "up" /\ tts.req = "running"
  /\ \/ tts' = [tts EXCEPT !.req = "stopped"] /\ UNCHANGED faults
     \/ tts' = [tts EXCEPT !.req = "failed"] /\ Fault("worker")
  /\ UNCHANGED <<turnVars, endVars, appVars, taskVars, respVars, media, rowVars, history>>

WorkerDies ==
  /\ Fault("worker") /\ tts.worker \in {"loading", "up"}
  /\ tts' = [tts EXCEPT !.worker = "dead", !.req = IF @ = "none" THEN @ ELSE "failed"]
  /\ UNCHANGED <<turnVars, endVars, appVars, taskVars, respVars, media, rowVars, history>>

-----------------------------------------------------------------------------
(* close()                                                                 *)

Listeners == {Mic, Fin, Beat}

\* The caller becomes the one that closes, unless another one does.  A running
\* preparation is cancelled and waited for.  q is generation_lock afterwards.
BeginClose(t, lost, q) ==
  IF closing
  THEN /\ pc' = [pc EXCEPT ![t] = "await"] /\ lockQ' = q
       /\ result' = Forgotten({t})
       /\ UNCHANGED <<closing, leaseLost, mode, writes>>
  ELSE /\ closing' = TRUE /\ leaseLost' = lost
       /\ mode' = [mode EXCEPT ![t] = "close"]
       /\ pc' = [x \in Task |-> IF x = t THEN AtLock(q) ELSE IF x = Prep THEN "over" ELSE pc[x]]
       /\ lockQ' = Append(q, t)
       /\ writes' = Orphaned({Prep}) /\ result' = Forgotten({t, Prep})

\* After its interrupt: the other tasks are cancelled.
StopTasks(t, q) ==
  LET others == Listeners \ {t}
  IN  /\ closed' = TRUE /\ ready' = FALSE
      /\ pc' = [x \in Task |-> IF x = t THEN "gather" ELSE IF x \in others THEN "over" ELSE pc[x]]
      /\ lockQ' = Without(Without(Without(q, Mic), Fin), Beat)
      /\ popped' = [x \in Task |-> IF x \in others \cup {t} THEN None ELSE popped[x]]
      /\ mode' = [x \in Task |-> IF x \in others THEN "interrupt" ELSE mode[x]]
      /\ writes' = Orphaned(others) /\ result' = Forgotten(Listeners \cup {t})

\* Provider, media and controller are closed; then the row is.
Gathered(t) ==
  /\ pc[t] = "gather"
  /\ tts' = [Halted(tts) EXCEPT !.worker = "none"]
  /\ media' = [media EXCEPT !.cancelled = TRUE, !.tracks = {}, !.up = FALSE]
  /\ Sent(t, epoch, "CLOSED")
  /\ pc' = [pc EXCEPT ![t] = "store"]
  /\ UNCHANGED <<turnVars, endVars, appVars, mode, popped, lockQ, respVars, row, result, history, faults>>

Told(t, ok) ==
  /\ pc' = [pc EXCEPT ![t] = IF t = Out THEN "idle" ELSE "over"]
  /\ reply' = IF t # Out THEN reply ELSE IF ok THEN "CLOSED" ELSE "pending"

Stored(t) ==
  /\ pc[t] = "store" /\ result[t] # "none"
  /\ persisted' = (result[t] = "ok")
  /\ closeDone' = TRUE
  /\ Told(t, persisted')
  /\ result' = Forgotten({t})
  /\ UNCHANGED <<turnVars, ready, closing, closed, leaseLost, inMap, body, controls, mode, popped,
                 lockQ, respVars, tts, media, row, writes, history, faults>>

Awaited(t) ==
  /\ pc[t] = "await" /\ closeDone
  /\ Told(t, persisted)
  /\ UNCHANGED <<turnVars, endVars, inMap, body, controls, mode, popped, lockQ, respVars,
                 tts, media, rowVars, history, faults>>

Fails(t, lost) ==
  /\ BeginClose(t, lost, lockQ)
  /\ UNCHANGED <<turnVars, ready, closed, closeDone, persisted, appVars, popped, respVars,
                 tts, media, row, history>>

\* A close request, the user leaving, the end of the service.
CloseCall ==
  /\ pc[Out] = "idle" /\ UNCHANGED faults
  /\ \/ inMap /\ Fails(Out, FALSE)
     \/ /\ ~inMap /\ reply' = "CLOSED"
        /\ UNCHANGED <<turnVars, endVars, inMap, body, controls, taskVars, respVars, tts,
                       media, rowVars, history>>

Reap ==
  /\ inMap /\ closed /\ closeDone
  /\ inMap' = FALSE
  /\ UNCHANGED <<turnVars, endVars, reply, body, controls, taskVars, respVars, tts, media,
                 rowVars, history, faults>>

\* The asset was revoked: the endpoint, or the cleanup that closes the session,
\* fences the media of its actor for good.
FenceMedia ==
  /\ row.revoked = "done" /\ inMap /\ ~media.blocked
  /\ media' = [media EXCEPT !.blocked = TRUE, !.cancelled = TRUE]
  /\ UNCHANGED <<turnVars, endVars, appVars, taskVars, respVars, tts, rowVars, history, faults>>

-----------------------------------------------------------------------------
(* interrupt()                                                             *)

Ask(t, m) ==
  /\ lockQ' = Append(lockQ, t)
  /\ pc' = [pc EXCEPT ![t] = AtLock(lockQ)] /\ mode' = [mode EXCEPT ![t] = m]

\* interrupt() returned; what its caller does before it suspends again.
Returned(t) ==
  /\ \/ /\ mode[t] = "close" /\ StopTasks(t, Tail(lockQ))
        /\ UNCHANGED <<response, responding, respVars>>
     \/ /\ mode[t] # "close"
        /\ lockQ' = Tail(lockQ) /\ popped' = [popped EXCEPT ![t] = None]
        /\ pc' = [pc EXCEPT ![t] = IF t = Ctl THEN "record" ELSE "idle"]
        /\ result' = Forgotten({t}) /\ mode' = [mode EXCEPT ![t] = "interrupt"]
        /\ IF mode[t] = "answer"
           THEN /\ response' = epoch /\ responding' = TRUE
                /\ resp' = [resp EXCEPT ![epoch] = "open"]
           ELSE UNCHANGED <<response, responding, resp>>
        /\ UNCHANGED <<closed, ready, writes, doomed>>

\* interrupt() raised: close() goes on, a request reports it, the listener fails.
Raised(t) ==
  \/ /\ mode[t] = "close" /\ StopTasks(t, Tail(lockQ))
     /\ UNCHANGED <<closing, leaseLost>>
  \/ /\ mode[t] # "close" /\ t = Ctl
     /\ lockQ' = Tail(lockQ) /\ pc' = [pc EXCEPT ![t] = "idle"] /\ result' = Forgotten({t})
     /\ popped' = [popped EXCEPT ![t] = None]
     /\ mode' = [mode EXCEPT ![t] = "interrupt"]
     /\ UNCHANGED <<closing, closed, ready, leaseLost, writes>>
  \/ /\ mode[t] # "close" /\ t # Ctl
     /\ BeginClose(t, FALSE, Tail(lockQ))
     /\ popped' = [popped EXCEPT ![t] = None]
     /\ UNCHANGED <<closed, ready>>

Granted(t) == pc[t] = "enter" \/ (pc[t] = "lock" /\ t = Head(lockQ) /\ LoopFree)

\* MUTANT: the old response is left to notice by itself.
CancelResponse_Skipped(t, r) == pc' = [pc EXCEPT ![t] = "media"] /\ UNCHANGED doomed

\* The old response is cancelled and waited for.
CancelResponse(t, r) ==
  IF r = None THEN pc' = [pc EXCEPT ![t] = "media"] /\ UNCHANGED doomed
              ELSE /\ pc' = [pc EXCEPT ![t] = "reap"]
                   /\ doomed' = IF resp[r] = "done" THEN doomed ELSE doomed \cup {r}

\* MUTANT: transcripts under way are not fenced.
FenceTranscripts_Not == UNCHANGED fresh
FenceTranscripts == fresh' = FALSE

\* The lock is ours: everything up to the first suspension.
Enter(t) ==
  /\ Granted(t)
  /\ ~closed
  /\ epoch' = epoch + 1
  /\ FenceTranscripts
  /\ popped' = [popped EXCEPT ![t] = response]
  /\ response' = None /\ responding' = FALSE
  /\ media' = [media EXCEPT !.cancelled = TRUE]
  /\ tts' = Fenced(tts)
  /\ IF CancelSuspends THEN pc' = [pc EXCEPT ![t] = "tts"] /\ UNCHANGED doomed
                       ELSE CancelResponse(t, response)
  /\ overtaken' = (overtaken \/ (t # Fin /\ pc[Fin] \in Asking \cup {"asr"}))
  /\ applied' = IF t = Ctl THEN applied \cup {body} ELSE applied
  /\ again' = (again \/ (t = Ctl /\ body \in applied))
  /\ UNCHANGED <<endVars, appVars, mode, lockQ, resp, rowVars, acked, faults>>

EnterClosed(t) ==
  /\ Granted(t)
  /\ closed
  /\ Returned(t)
  /\ UNCHANGED <<epoch, fresh, closing, closeDone, persisted, leaseLost, appVars, tts, media, row,
                 history, faults>>

\* The provider acknowledged, or was stopped after two seconds; then the old
\* response is cancelled.
TtsCancelled(t) ==
  /\ pc[t] = "tts"
  /\ tts' = IF tts.req = "stopped" THEN tts ELSE [Halted(tts) EXCEPT !.worker = "none"]
  /\ CancelResponse(t, popped[t])
  /\ UNCHANGED <<turnVars, endVars, appVars, mode, popped, lockQ, resp, media, rowVars,
                 history, faults>>

\* The worker is gone and nobody noticed: the message cannot be sent.
TtsCancelRaises(t) ==
  /\ Fault("worker") /\ pc[t] = "tts" /\ tts.req = "running"
  /\ tts' = [tts EXCEPT !.worker = "dead", !.req = "failed"]
  /\ Raised(t)
  /\ UNCHANGED <<turnVars, closeDone, persisted, appVars, respVars, media, row, history>>

Reaped(t) ==
  /\ pc[t] = "reap" /\ resp[popped[t]] = "done"
  /\ pc' = [pc EXCEPT ![t] = "media"]
  /\ UNCHANGED <<turnVars, endVars, appVars, mode, popped, lockQ, respVars, tts, media,
                 rowVars, history, faults>>

MediaCancelled(t) ==
  /\ pc[t] = "media"
  /\ media' = [media EXCEPT !.cancelled = TRUE, !.tracks = {}]
  /\ Sent(t, epoch, "READY")
  /\ pc' = [pc EXCEPT ![t] = "persist"]
  /\ UNCHANGED <<turnVars, endVars, appVars, mode, popped, lockQ, respVars, tts, row, result,
                 history, faults>>

MediaCancelRaises(t) ==
  /\ Fault("media") /\ pc[t] = "media"
  /\ Raised(t)
  /\ UNCHANGED <<turnVars, closeDone, persisted, appVars, respVars, tts, media, row, history>>

Persisted(t) ==
  /\ pc[t] = "persist" /\ result[t] # "none"
  /\ \/ /\ result[t] = "ok" \/ mode[t] = "close"
        /\ acked' = epoch
        /\ Returned(t)
        /\ UNCHANGED <<closing, leaseLost>>
     \/ /\ result[t] = "bad" /\ mode[t] # "close"
        /\ Raised(t)
        /\ UNCHANGED <<acked, response, responding, respVars>>
  /\ UNCHANGED <<epoch, fresh, closeDone, persisted, appVars, tts, media, row,
                 overtaken, applied, again, faults>>

-----------------------------------------------------------------------------
(* generate()                                                              *)

Moves(e, s) == e \notin doomed /\ resp' = [resp EXCEPT ![e] = s]

\* An exception: the current response reports it and stops its sources.
Fallen(e, x) ==
  /\ e \notin doomed
  /\ IF ~closed /\ e = epoch
     THEN /\ resp' = [resp EXCEPT ![e] = "failing"]
          /\ responding' = FALSE /\ tts' = Fenced(x)
     ELSE /\ resp' = [resp EXCEPT ![e] = "done"]
          /\ tts' = x /\ UNCHANGED responding
  /\ result' = Forgotten({e})

RespQuiet == <<epoch, response, fresh, endVars, appVars, taskVars, row, acked,
               overtaken, applied, again>>

RespOpen(e) ==
  /\ resp[e] = "open"
  /\ \/ /\ tts.key = None /\ tts.worker = "none"
        /\ tts' = [tts EXCEPT !.worker = "loading"] /\ Moves(e, "load")
        /\ UNCHANGED <<responding, result>>
     \/ /\ tts.key = None /\ tts.worker = "up"
        /\ tts' = [tts EXCEPT !.key = e] /\ Moves(e, "clear")
        /\ UNCHANGED <<responding, result>>
     \/ (tts.key # None \/ tts.worker \in {"loading", "dead"}) /\ Fallen(e, tts)
  /\ UNCHANGED <<RespQuiet, doomed, media, writes, faults>>

RespLoad(e) ==
  /\ resp[e] = "load"
  /\ \/ /\ tts.worker = "loading"
        /\ tts' = [tts EXCEPT !.worker = "up", !.key = e] /\ Moves(e, "clear")
        /\ UNCHANGED <<responding, result>>
     \/ tts.worker # "loading" /\ Fallen(e, [tts EXCEPT !.worker = "none"])
  /\ UNCHANGED <<RespQuiet, doomed, media, writes, faults>>

\* MUTANT: the start does not look at the fence.
RespClear_Unfenced(e) ==
  /\ resp[e] = "clear"
  /\ media' = [media EXCEPT !.tracks = {}, !.cancelled = FALSE]
  /\ Moves(e, "publish")
  /\ UNCHANGED <<RespQuiet, doomed, responding, tts, writes, result, faults>>

\* Media.start: the old tracks are gone; a fenced publisher starts no more.
RespClear(e) ==
  /\ resp[e] = "clear"
  /\ \/ /\ ~media.blocked
        /\ media' = [media EXCEPT !.tracks = {}, !.cancelled = FALSE]
        /\ Moves(e, "publish") /\ UNCHANGED <<responding, tts, result>>
     \/ /\ media.blocked
        /\ media' = [media EXCEPT !.tracks = {}, !.cancelled = TRUE]
        /\ Fallen(e, tts)
  /\ UNCHANGED <<RespQuiet, doomed, writes, faults>>

\* The tracks are published and the browser is told; the row is written.
RespPublish(e) ==
  /\ resp[e] = "publish"
  /\ \/ /\ ~media.blocked /\ media.up
        /\ media' = [media EXCEPT !.tracks = {e}]
        /\ Sent(e, epoch, "ACTIVE")
        /\ Moves(e, "active") /\ UNCHANGED <<responding, tts, result>>
     \/ /\ media.blocked \/ ~media.up
        /\ media' = [media EXCEPT !.tracks = {}, !.cancelled = TRUE]
        /\ Fallen(e, tts)
        /\ UNCHANGED writes
  /\ UNCHANGED <<RespQuiet, doomed, faults>>

RespActive(e) ==
  /\ resp[e] = "active" /\ result[e] # "none"
  /\ \/ /\ result[e] = "ok" /\ tts.key # None
        /\ result' = Forgotten({e}) /\ Moves(e, "speak") /\ UNCHANGED <<responding, tts>>
     \/ (result[e] = "bad" \/ tts.key = None) /\ Fallen(e, tts)
  /\ UNCHANGED <<RespQuiet, doomed, media, writes, faults>>

\* One segment is given to the provider.
RespPush(e) ==
  /\ resp[e] = "speak" /\ e \notin doomed /\ e = epoch /\ tts.key = e /\ tts.req # "running"
  /\ IF tts.worker = "up"
     THEN tts' = [tts EXCEPT !.req = "running"] /\ UNCHANGED <<responding, resp, result>>
     ELSE Fallen(e, tts)
  /\ UNCHANGED <<RespQuiet, doomed, media, writes, faults>>

\* Text, speech and publication have ended.  How long the text takes, and whether
\* a task of an overtaken response comes to an end by itself, is left open.
RespEnd(e) ==
  /\ resp[e] = "speak"
  /\ \/ /\ tts.req = "failed" /\ tts.key = e /\ Fallen(e, tts) /\ UNCHANGED writes
     \/ /\ e = epoch /\ ~closed /\ tts.req \notin {"running", "failed"}
        /\ responding' = FALSE
        /\ Sent(e, None, "READY")
        /\ Moves(e, "finish") /\ UNCHANGED <<tts, result>>
     \/ e # epoch /\ Moves(e, "done") /\ UNCHANGED <<responding, tts, writes, result>>
  /\ UNCHANGED <<RespQuiet, doomed, media, faults>>

RespFinish(e) ==
  /\ resp[e] = "finish" /\ result[e] # "none"
  /\ \/ /\ result[e] = "ok" /\ Moves(e, "done") /\ result' = Forgotten({e})
        /\ UNCHANGED <<responding, tts>>
     \/ result[e] = "bad" /\ Fallen(e, tts)
  /\ UNCHANGED <<RespQuiet, doomed, media, writes, faults>>

RespFail(e) ==
  /\ resp[e] = "failing" /\ Moves(e, "done")
  /\ tts' = Halted(tts)
  /\ media' = [media EXCEPT !.cancelled = TRUE, !.tracks = {}]
  /\ UNCHANGED <<RespQuiet, doomed, responding, writes, result, faults>>

\* The task was cancelled: a worker being loaded, or a request, is stopped.
RespCancelled(e) ==
  /\ e \in doomed /\ doomed' = doomed \ {e}
  /\ resp' = [resp EXCEPT ![e] = "done"]
  /\ tts' = IF resp[e] = "load" THEN [tts EXCEPT !.worker = "none"]
            ELSE IF resp[e] = "speak" THEN Halted(tts) ELSE tts
  /\ writes' = Orphaned({e}) /\ result' = Forgotten({e})
  /\ UNCHANGED <<RespQuiet, responding, media, faults>>

-----------------------------------------------------------------------------
(* Preparation, lease, microphone, transcripts, controls                   *)

PrepSteps ==
  /\ \/ /\ pc[Prep] = "open"
        /\ tts' = [tts EXCEPT !.worker = "up"]
        /\ pc' = [pc EXCEPT ![Prep] = "connect"]
        /\ UNCHANGED <<ready, media, writes, result>>
     \/ /\ pc[Prep] = "connect"
        /\ media' = [media EXCEPT !.up = TRUE]
        /\ Sent(Prep, None, "READY")
        /\ pc' = [pc EXCEPT ![Prep] = "write"]
        /\ UNCHANGED <<ready, tts, result>>
     \/ /\ pc[Prep] = "write" /\ result[Prep] = "ok"
        /\ ready' = TRUE /\ result' = Forgotten({Prep})
        /\ pc' = [pc EXCEPT ![Prep] = "over", ![Beat] = IF WithLease THEN "idle" ELSE @]
        /\ UNCHANGED <<tts, media, writes>>
  /\ UNCHANGED <<turnVars, closing, closed, closeDone, persisted, leaseLost, appVars, mode, popped,
                 lockQ, respVars, row, history, faults>>

PrepFails ==
  \/ pc[Prep] \in {"open", "connect"} /\ Fault("media") /\ Fails(Prep, FALSE)
  \/ /\ pc[Prep] = "write" /\ result[Prep] = "bad"
     /\ Fails(Prep, FALSE) /\ UNCHANGED faults

\* lease(): nobody joined, or the browser is silent; or the epoch is written.
BeatSteps ==
  \/ pc[Beat] = "idle" /\ ~closed /\ Fails(Beat, FALSE) /\ UNCHANGED faults
  \/ pc[Beat] = "write" /\ result[Beat] = "bad" /\ Fails(Beat, TRUE) /\ UNCHANGED faults
  \/ /\ \/ /\ pc[Beat] = "idle"
           /\ IF closed THEN pc' = [pc EXCEPT ![Beat] = "over"] /\ UNCHANGED writes
              ELSE pc' = [pc EXCEPT ![Beat] = "write"] /\ Sent(Beat, epoch, None)
           /\ UNCHANGED result
        \/ /\ pc[Beat] = "write" /\ result[Beat] = "ok"
           /\ pc' = [pc EXCEPT ![Beat] = "idle"] /\ result' = Forgotten({Beat})
           /\ UNCHANGED writes
     /\ UNCHANGED <<turnVars, endVars, appVars, mode, popped, lockQ, respVars, tts, media, row,
                    history, faults>>

\* MUTANT: a cancelled close does not tell those who wait for it.
Cut_Never(x) == FALSE
Cut(x) == mode[x] = "close" /\ pc[x] \in Interrupting \cup Asking \cup {"gather", "store"}

\* The task of x is cancelled.  If it was closing, the close ends where it stood.
Dropped(x, then) ==
  /\ pc' = [pc EXCEPT ![x] = then]
  /\ lockQ' = Without(lockQ, x)
  /\ popped' = [popped EXCEPT ![x] = None]
  /\ mode' = [mode EXCEPT ![x] = "interrupt"]
  /\ writes' = Orphaned({x}) /\ result' = Forgotten({x})
  /\ closed' = (closed \/ Cut(x)) /\ closeDone' = (closeDone \/ Cut(x)) /\ ready' = (ready /\ ~Cut(x))
  /\ UNCHANGED <<epoch, response, responding, closing, persisted, leaseLost, appVars, respVars, tts,
                 media, row, acked, applied, again, faults>>

\* A new microphone track: its receiver replaces the one before.
Subscribe ==
  /\ media.up /\ row.status \in {"READY", "ACTIVE"}
  /\ Dropped(Mic, IF closed THEN "over" ELSE "idle")
  /\ UNCHANGED <<fresh, overtaken>>

\* An utterance ended: it is transcribed, the transcription before is cancelled.
\* Bound: without room for its turn, only if there is one to cancel.
Endpoint ==
  /\ pc[Mic] = "idle" /\ ~closed
  /\ Room \/ pc[Fin] \notin {"idle", "over"}
  /\ Dropped(Fin, "asr")
  /\ fresh' = TRUE /\ overtaken' = FALSE

UserSpeaks ==
  /\ pc[Mic] = "idle" /\ ~closed /\ fresh
  /\ fresh' = FALSE
  /\ UNCHANGED <<epoch, response, responding, endVars, appVars, taskVars, respVars, tts, media,
                 rowVars, history, faults>>

BargeIn ==
  /\ pc[Mic] = "idle" /\ ~closed /\ responding /\ Room
  /\ Ask(Mic, "interrupt")
  /\ UNCHANGED <<turnVars, endVars, appVars, popped, respVars, tts, media, rowVars, history, faults>>

MicFails ==
  /\ pc[Mic] = "idle" /\ ~closed
  /\ Fails(Mic, FALSE) /\ UNCHANGED faults

CanAnswer == ~closed /\ ~closing /\ ready

\* Transcription takes a thread: a task that a released lock woke has run by then.
LockSettled == \A t \in Task : pc[t] = "lock" => t # Head(lockQ)

\* commit_audio: the transcript is there, and dropped if its utterance is over.
Transcribed ==
  /\ pc[Fin] = "asr" /\ LockSettled
  /\ \/ /\ fresh /\ CanAnswer /\ Room
        /\ Ask(Fin, "answer") /\ UNCHANGED overtaken
     \/ /\ pc' = [pc EXCEPT ![Fin] = "idle"]    \* stale, or no words
        /\ overtaken' = FALSE /\ UNCHANGED <<mode, lockQ>>
  /\ UNCHANGED <<turnVars, endVars, appVars, popped, respVars, tts, media, rowVars, acked,
                 applied, again, faults>>

TranscribeFails == pc[Fin] = "asr" /\ Fault("asr") /\ Fails(Fin, FALSE)

\* MUTANT: without the check of expected_epoch.
Admissible_AnyEpoch(b) == \A n \in controls : b.sequence > n
Admissible(b) ==
  /\ \A n \in controls : b.sequence > n
  /\ b.expected = epoch

\* A request looks at the session and its actor, then waits for control_lock; the
\* looks of those that wait may be as old as that of the first.
ControlCall ==
  /\ pc[Ctl] = "over" /\ Body # {} /\ inMap /\ ~closed /\ row.status \in {"READY", "ACTIVE"}
  /\ pc' = [pc EXCEPT ![Ctl] = "idle"]
  /\ UNCHANGED <<turnVars, endVars, appVars, mode, popped, lockQ, respVars, tts, media,
                 rowVars, history, faults>>

\* One control, under control_lock, up to the interrupt it makes.
Control(b) ==
  /\ pc[Ctl] = "idle"
  /\ Admissible(b) /\ Room
  /\ body' = b
  /\ \/ Ask(Ctl, "interrupt")
     \/ CanAnswer /\ Ask(Ctl, "answer")
     \/ /\ ~CanAnswer    \* a text that nobody answers
        /\ pc' = [pc EXCEPT ![Ctl] = "record"] /\ UNCHANGED <<mode, lockQ>>
  /\ UNCHANGED <<turnVars, endVars, inMap, reply, controls, popped, respVars, tts, media,
                 rowVars, history, faults>>

Record ==
  /\ pc[Ctl] = "record"
  /\ \/ controls' = controls \cup {body.sequence} /\ UNCHANGED faults
     \/ Fault("store") /\ UNCHANGED controls
  /\ pc' = [pc EXCEPT ![Ctl] = "idle"] /\ body' = None
  /\ UNCHANGED <<turnVars, endVars, inMap, reply, mode, popped, lockQ, respVars, tts,
                 media, rowVars, history>>

-----------------------------------------------------------------------------

Close(t) == Gathered(t) \/ Stored(t) \/ Awaited(t)

Interrupt(t) ==
  \/ TtsCancelled(t) \/ TtsCancelRaises(t)
  \/ Reaped(t) \/ MediaCancelled(t) \/ MediaCancelRaises(t) \/ Persisted(t)

Generate(e) ==
  \/ RespOpen(e) \/ RespLoad(e) \/ RespClear(e) \/ RespPublish(e) \/ RespActive(e)
  \/ RespPush(e) \/ RespEnd(e) \/ RespFinish(e) \/ RespFail(e) \/ RespCancelled(e)

\* Ready tasks run in the order in which they became ready: a response that was just
\* created begins before an interrupt that suspended since goes on, or is cancelled.
Begun ==
  (\E t \in Task : pc[t] \in Interrupting) => \A e \in Epoch : resp[e] = "open" => e \in doomed

Tasks ==
  \/ \E t \in Task : Close(t) \/ Interrupt(t)
  \/ CloseCall \/ Reap \/ FenceMedia
  \/ PrepSteps \/ PrepFails \/ BeatSteps
  \/ Subscribe \/ Endpoint \/ UserSpeaks \/ BargeIn \/ MicFails
  \/ Transcribed \/ TranscribeFails
  \/ ControlCall \/ (\E b \in Body : Control(b)) \/ Record

Next ==
  \/ \E t \in Task : Enter(t) \/ EnterClosed(t)
  \/ LoopFree /\ \E e \in Epoch : Generate(e)
  \/ LoopFree /\ Begun /\ Tasks
  \/ \E w \in writes : Commit(w) \/ CommitFails(w)
  \/ Revocation
  \/ WorkerAnswers \/ WorkerDies

Spec == Init /\ [][Next]_vars

-----------------------------------------------------------------------------
(* Fairness: the event loop serves every task that is ready, threads finish *)
(* what they were given, and the provider's cancel waits two seconds at     *)
(* most.  Nobody has to speak, to send controls or to close.                *)

\* What a task waits for in interrupt() and close().
Runs(t) ==
  \/ Enter(t) \/ EnterClosed(t)
  \/ LoopFree /\ Begun /\ (Close(t) \/ Interrupt(t))
  \/ \E w \in writes : w.by = t /\ Commit(w)

Fairness ==
  /\ \A t \in Task : WF_vars(Runs(t))
  /\ WF_vars(LoopFree /\ \E e \in Epoch : RespOpen(e) \/ RespCancelled(e))

FairSpec == Spec /\ Fairness

-----------------------------------------------------------------------------
(* Safety                                                                  *)

Quiet == response = None /\ tts.worker = "none" /\ tts.key = None /\ media.tracks = {}

\* While nothing fails, the provider speaks for the current turn or for nobody:
\* an old response never opens it again, however late it is cancelled
\* (interrupt, generate).
KeyIsCurrent == faults = 0 => tts.key \in {None, epoch}

\* The permanent fence of a revocation holds against a start that was already
\* under way and against every later one (Media.fence, Media.start).
FencedForGood == media.blocked => media.cancelled

\* The row is CLOSED, or it was when a revocation that had selected it before drained
\* it; a revocation that comes later finds nothing to drain.
Ended == row.status = "CLOSED" \/ (row.status = "DRAINING" /\ row.revoked = "done")

\* A close that the row knows of has stopped everything, and neither what the actor
\* started earlier, nor a write that was still under way, nor a late revocation
\* brings the session back: all that its row can still go through is a drain
\* (close; Store.update; revoke).
PersistedCloseIsQuiet == persisted => Quiet /\ Ended

\* What has ended stays so: the media of a revoked asset and a close that the row knows of.
EndIsFinal == FencedForGood /\ PersistedCloseIsQuiet

\* A spoken turn that takes the floor is still the last thing that was asked: no
\* interruption, control or close got in between the end of the utterance and the
\* answer to it, neither during the transcription nor in the queue for the lock
\* (interrupt, commit_audio, answer).
AnswersAreFresh == pc[Fin] \in Interrupting /\ mode[Fin] = "answer" => ~overtaken

\* Neither an old response nor an answer that something overtook speaks.
OnlyTheCurrentSpeaks == TypeOK /\ KeyIsCurrent /\ AnswersAreFresh

\* A control takes effect once, also when its record was lost and the browser
\* sends it again (controls: expected_epoch).
ControlOnce == ~again


-----------------------------------------------------------------------------
(* Liveness                                                                *)

\* Everyone who waits for close() is answered, whoever runs it, whatever raised
\* in it and even if its task is cancelled on the way (close: finally).
CloseEnds == closing ~> closeDone

-----------------------------------------------------------------------------
(* What the documentation says and the code does not do                    *)

\* docs/p04.md: the actor owns cancellation and resource cleanup.  So a close
\* that is over leaves neither a worker nor a track.
ClosedIsQuiet == closeDone => Quiet

\* docs/p04.md: a lost durable close reports pending persistence.  So CLOSED is
\* answered for a quiet session only once its row gave the slot back.
ClosedReplyIsDurable == reply = "CLOSED" /\ Quiet => row.status = "CLOSED"

\* web/src/client.ts: lease_lost says that the service lost its connection.  So
\* without a failure, or a revocation, no session ends with it.
LeaseLostIsALostLease == leaseLost => faults > 0 \/ media.blocked

\* docs/p04.md: an interruption cancels the work of the turn.  So when it is
\* acknowledged every earlier response is over or has been cancelled.
AckMeansStopped == \A e \in 0..(acked - 1) : resp[e] \in {"none", "done"} \/ e \in doomed
=============================================================================
