------------------------------ MODULE Publisher ------------------------------
(***************************************************************************)
(* The native publisher of one session: the worker process that each       *)
(* answer starts (NativeMedia and ClaireMedia), the task that reads its    *)
(* events, and start(), submit(), fence() and cancel(), as the response,   *)
(* an interrupt or the closing of the session, and a revocation use them.  *)
(*                                                                         *)
(* All tasks share one event loop: an action is what one of them does      *)
(* between two suspensions.  A started state (NativeMedia.start's `state`) *)
(* has a number; a packet is one header with its samples.  tts.cancel()    *)
(* suspends only while a segment is being spoken (QwenProvider), which is  *)
(* never before start() has returned.                                      *)
(***************************************************************************)
EXTENDS Integers, Sequences, FiniteSets

CONSTANTS
  Resp,          \* generate() of the current answer, with its publish()
  Ctl,           \* interrupt() and close() of the session actor
  MaxStarts,     \* bound: answers
  MaxInterrupts, \* bound: interrupts and closings
  MaxPackets,    \* bound: packets of an answer
  PipeRoom,      \* packets that fit below the write limit of the pipe
  MaxFaults      \* bound: failures of the worker, the geometry, the launch

Caller == {Resp, Ctl}
Start == 1..MaxStarts

Free == "free"

ASSUME PublisherAssumption ==
  /\ Resp # Ctl /\ Free \notin Caller
  /\ {MaxStarts, MaxInterrupts, MaxPackets, PipeRoom} \subseteq Nat \ {0}
  /\ MaxFaults \in Nat

VARIABLES
  config,    \* self.config: "none", "ok", or "refused" by one of its checks
  epoch,     \* of the session actor
  blocked, cancelled,
  cur,       \* self.state, 0 for None
  used,      \* states started so far
  st,        \* of each of them: the dictionary, its process and its reader
  lock,      \* who holds cleanup_lock
  pc,        \* of each caller: where it is suspended
  resp,      \* the response: its epoch, its state, what follows its cancel()
  closing,   \* the interrupt is that of close()
  cut,       \* history: some sender_complete event was of an answer not wholly played
  faults

callVars == <<lock, pc, resp, closing>>
flagVars == <<config, epoch, blocked, cancelled>>
vars == <<flagVars, cur, used, st, callVars, cut, faults>>

Fresh == [key |-> 0, dir |-> FALSE, opening |-> "none", recorded |-> FALSE,
          child |-> "none", term |-> FALSE, reader |-> "none",
          ready |-> "open", eof |-> "open",
          wrote |-> 0, sent |-> 0, heard |-> 0, final |-> FALSE, out |-> <<>>]
NoResp == [epoch |-> 0, mine |-> 0, after |-> "end", doomed |-> FALSE]

Alive == {"joining", "live", "ended"}
Speaking == {"submit", "drain", "eof"}   \* start() has returned

Init ==
  /\ config = "none" /\ epoch = 0 /\ blocked = FALSE /\ cancelled = TRUE
  /\ cur = 0 /\ used = 0 /\ st = [n \in Start |-> Fresh]
  /\ lock = Free /\ pc = [c \in Caller |-> "idle"] /\ resp = NoResp /\ closing = FALSE
  /\ cut = FALSE /\ faults = 0

Fault == faults < MaxFaults /\ faults' = faults + 1

\* terminate() reaches a process that was recorded and has not ended.
Signalled(s, n) ==
  IF n # 0 /\ s[n].recorded /\ s[n].child \in Alive THEN [s EXCEPT ![n].term = TRUE] ELSE s

-----------------------------------------------------------------------------
\* The runtime is admitted when its connect() finds every file as it was qualified.
Load == config' \in {"ok", "refused"}

Connect ==
  /\ config = "none" /\ Load
  /\ UNCHANGED <<epoch, blocked, cancelled, cur, used, st, callVars, cut, faults>>

\* fence(): nothing more is accepted, and the process is told to end.
Fence(s) == cancelled' = TRUE /\ st' = Signalled(s, cur)

\* Revocation of the asset fences the publisher for good, from outside its tasks.
Revoke ==
  /\ ~blocked /\ config = "ok"
  /\ blocked' = TRUE /\ Fence(st)
  /\ UNCHANGED <<config, epoch, cur, used, callVars, cut, faults>>

-----------------------------------------------------------------------------
(* cancel(): a fence, then _retire() under the lock.  Waits: "lock",       *)
(* "retire" (for the process to be created), "exit", "reader".             *)

To(c, where) == pc' = [pc EXCEPT ![c] = where]

CancelOf(c, s) == Fence(s) /\ To(c, "lock")

\* _retire() runs for one caller at a time.
Lock(c) ==
  /\ pc[c] = "lock" /\ lock = Free
  /\ lock' = c /\ To(c, "retire")
  /\ UNCHANGED <<flagVars, cur, used, st, resp, closing, cut, faults>>

\* start() goes on after its first cancel(): a fenced publisher is refused, any
\* other gets a new state; the directory of it may not be created.
Begin(s) ==
  \/ /\ blocked /\ To(Resp, "idle") /\ resp' = NoResp
     /\ UNCHANGED <<cancelled, used, faults>> /\ st' = s /\ cur' = 0
  \/ /\ ~blocked
     /\ cancelled' = FALSE
     /\ \/ /\ used' = used + 1 /\ cur' = used'
           /\ st' = [s EXCEPT ![used'] = [Fresh EXCEPT !.key = resp.epoch, !.dir = TRUE]]
           /\ resp' = [resp EXCEPT !.mine = used'] /\ To(Resp, "geometry")
           /\ UNCHANGED faults
        \/ /\ Fault /\ st' = s /\ cur' = 0 /\ To(Resp, "idle") /\ resp' = NoResp
           /\ UNCHANGED used

\* cancel() returns to its caller; s and 0 are what _retire() has left.
Return(c, s) ==
  /\ lock' = Free
  /\ \/ /\ c = Resp /\ resp.after = "begin" /\ Begin(s)
     \/ /\ c = Resp /\ resp.after = "end"
        /\ To(Resp, "idle") /\ resp' = NoResp /\ st' = s /\ cur' = 0
        /\ UNCHANGED <<cancelled, used, faults>>
     \/ /\ c = Ctl
        /\ To(Ctl, "left") /\ st' = s /\ cur' = 0
        /\ UNCHANGED <<cancelled, used, resp, faults>>

\* Both futures are cancelled and the directory is removed: of the state only what
\* the system still runs is left.
Cleared ==
  [st EXCEPT ![cur] = [Fresh EXCEPT !.opening = IF st[cur].opening = "pending" THEN "pending" ELSE @,
                                    !.child = IF st[cur].child \in Alive THEN st[cur].child ELSE @]]

\* MUTANT: the process is told to end and not waited for.
Retire_Hasty(c) ==
  /\ pc[c] = "retire"
  /\ \/ cur = 0 /\ Return(c, st)
     \/ cur # 0 /\ st[cur].opening # "pending" /\ Return(c, Cleared)
  /\ UNCHANGED <<config, epoch, blocked, closing, cut>>

\* A launch in progress is waited for; what it started is told to end.
Retire(c) ==
  /\ pc[c] = "retire"
  /\ \/ cur = 0 /\ Return(c, st)
     \/ cur # 0 /\ st[cur].opening \in {"none", "failed"} /\ Return(c, Cleared)
     \/ /\ cur # 0 /\ st[cur].opening = "done"
        /\ Fence([st EXCEPT ![cur].recorded = TRUE]) /\ To(c, "exit")
        /\ UNCHANGED <<cur, used, lock, resp, faults>>
  /\ UNCHANGED <<config, epoch, blocked, closing, cut>>

\* The process has ended; its reader, if it was started, is waited for.
Exited(c) ==
  /\ pc[c] = "exit" /\ st[cur].child = "dead"
  /\ \/ st[cur].reader = "none" /\ Return(c, Cleared)
     \/ /\ st[cur].reader # "none" /\ To(c, "reader")
        /\ UNCHANGED <<cancelled, cur, used, st, lock, resp, faults>>
  /\ UNCHANGED <<config, epoch, blocked, closing, cut>>

\* MUTANT: a process that ignores the signal is waited for without a limit.
Kill_Never(c) == FALSE /\ UNCHANGED vars

\* Five seconds have passed: the process is killed.
Kill(c) ==
  /\ pc[c] = "exit" /\ st[cur].child \in Alive
  /\ st' = [st EXCEPT ![cur].child = "dead"]
  /\ UNCHANGED <<flagVars, cur, used, callVars, cut, faults>>

Joined(c) ==
  /\ pc[c] = "reader" /\ st[cur].reader = "done" /\ Return(c, Cleared)
  /\ UNCHANGED <<config, epoch, blocked, closing, cut>>

\* The reader was cancelled by an earlier caller: its CancelledError is raised here
\* too, and the state stays.
Poisoned(c) ==
  /\ pc[c] = "reader" /\ st[cur].reader = "cancelled"
  /\ lock' = Free /\ To(c, "idle")
  /\ IF c = Resp THEN resp' = NoResp /\ UNCHANGED closing
                 ELSE UNCHANGED <<resp, closing>>
  /\ UNCHANGED <<flagVars, cur, used, st, cut, faults>>

CancelStep(c) == Lock(c) \/ Retire(c) \/ Exited(c) \/ Kill(c) \/ Joined(c) \/ Poisoned(c)

-----------------------------------------------------------------------------
(* The response.  Waits: "open" (for the provider), those of its cancel(),  *)
(* "geometry", "launch", "orphan" (a launch, after it was cancelled itself),*)
(* "ready", "submit", "drain", "eof", and "quit" (publication has ended,    *)
(* speech not yet).                                                         *)

mine == resp.mine
Stale == cancelled \/ cur # mine

Idles == To(Resp, "idle") /\ resp' = NoResp

\* An error of start() or submit() ends in cancel() while the epoch is current.
Falls ==
  \/ /\ resp.epoch = epoch
     /\ CancelOf(Resp, st) /\ resp' = [resp EXCEPT !.after = "end"]
  \/ resp.epoch # epoch /\ Idles /\ UNCHANGED <<cancelled, st>>

\* start() cleans up after itself whatever the reason.
Abandons == CancelOf(Resp, st) /\ resp' = [resp EXCEPT !.after = "end", !.doomed = FALSE]

Steady == UNCHANGED <<config, epoch, blocked, lock, closing>>

\* open_session() has returned: start() cancels whatever is there.
Open ==
  /\ pc[Resp] = "open" /\ ~resp.doomed
  /\ CancelOf(Resp, st) /\ resp' = [resp EXCEPT !.after = "begin"]
  /\ Steady /\ UNCHANGED <<cur, used, cut, faults>>

\* The geometry is staged, unless the publisher was fenced meanwhile.
Geometry ==
  /\ pc[Resp] = "geometry" /\ ~resp.doomed
  /\ \/ cancelled /\ Abandons /\ UNCHANGED faults
     \/ ~cancelled /\ Fault /\ Abandons
     \/ /\ ~cancelled
        /\ st' = [st EXCEPT ![mine].opening = "pending"]
        /\ To(Resp, "launch") /\ UNCHANGED <<cancelled, resp, faults>>
  /\ Steady /\ UNCHANGED <<cur, used, cut>>

\* The system has created the process, or could not.
Spawn(n) ==
  /\ st[n].opening = "pending"
  /\ \/ /\ st' = [st EXCEPT ![n].opening = "done", ![n].child = "joining"]
        /\ UNCHANGED faults
     \/ Fault /\ st' = [st EXCEPT ![n].opening = "failed"]
  /\ UNCHANGED <<flagVars, cur, used, callVars, cut>>

\* start() learns of it.  A fence since then is only seen here.
Launched ==
  /\ pc[Resp] = "launch" /\ ~resp.doomed
  /\ \/ st[mine].opening = "failed" /\ Abandons
     \/ /\ st[mine].opening = "done"
        /\ LET s == [st EXCEPT ![mine].recorded = TRUE]
           IN  \/ /\ Stale
                  /\ CancelOf(Resp, s) /\ resp' = [resp EXCEPT !.after = "end"]
               \/ /\ ~Stale
                  /\ st' = [s EXCEPT ![mine].reader = "reading"]
                  /\ To(Resp, "ready") /\ UNCHANGED <<cancelled, resp>>
  /\ Steady /\ UNCHANGED <<cur, used, cut, faults>>

\* Cancelled during the launch, start() waits for the process before it cleans up.
Orphaned ==
  /\ pc[Resp] = "orphan" /\ st[mine].opening # "pending"
  /\ CancelOf(Resp, [st EXCEPT ![mine].recorded = st[mine].opening = "done"])
  /\ UNCHANGED resp
  /\ Steady /\ UNCHANGED <<cur, used, cut, faults>>

\* The worker has published, has failed, or has taken longer than twenty seconds.
Ready ==
  /\ pc[Resp] = "ready" /\ ~resp.doomed
  /\ \/ /\ st[mine].ready = "set" /\ ~Stale
        /\ To(Resp, "submit") /\ UNCHANGED <<cancelled, st, resp>>
     \/ (st[mine].ready # "set" \/ Stale) /\ Abandons
  /\ Steady /\ UNCHANGED <<cur, used, cut, faults>>

\* submit() is given the next packet, or the last one with the end of the answer.
Submit ==
  /\ pc[Resp] = "submit" /\ ~resp.doomed
  /\ \/ /\ resp.epoch # epoch \/ Stale
        /\ To(Resp, "quit") /\ UNCHANGED st
     \/ /\ resp.epoch = epoch /\ ~Stale
        /\ \E last \in BOOLEAN :
             /\ ~last => st[mine].wrote + 1 < MaxPackets
             /\ st' = [st EXCEPT ![mine].wrote = @ + 1, ![mine].final = last]
        /\ To(Resp, "drain")
  /\ Steady /\ UNCHANGED <<cancelled, cur, used, resp, cut, faults>>

\* MUTANT: the fence is not looked at again after the wait for the pipe.
Drained_Unchecked ==
  /\ pc[Resp] = "drain" /\ ~resp.doomed
  /\ \/ st[mine].child = "dead" /\ Falls
     \/ /\ st[mine].wrote - st[mine].heard <= PipeRoom
        /\ st' = [st EXCEPT ![mine].sent = @ + 1]
        /\ To(Resp, IF st[mine].final THEN "eof" ELSE "submit")
        /\ UNCHANGED <<cancelled, resp>>
  /\ Steady /\ UNCHANGED <<cur, used, cut, faults>>

\* There is room in the pipe again, or the worker is gone; the fence is looked at
\* before the packet is counted.
Drained ==
  /\ pc[Resp] = "drain" /\ ~resp.doomed
  /\ \/ st[mine].child = "dead" /\ Falls
     \/ /\ st[mine].wrote - st[mine].heard <= PipeRoom
        /\ \/ Stale /\ To(Resp, "quit") /\ UNCHANGED st
           \/ /\ ~Stale
              /\ st' = [st EXCEPT ![mine].sent = @ + 1]
              /\ To(Resp, IF st[mine].final THEN "eof" ELSE "submit")
        /\ UNCHANGED <<cancelled, resp>>
  /\ Steady /\ UNCHANGED <<cur, used, cut, faults>>

\* sender_complete is sent while the epoch is current.
Announce(whole) == cut' = (cut \/ (resp.epoch = epoch /\ ~whole))
Whole == st[mine].final /\ st[mine].heard = st[mine].sent

\* The worker has reported the end with the number of samples it played, has
\* failed, or has taken longer than 125 seconds.
Ended ==
  /\ pc[Resp] = "eof" /\ ~resp.doomed
  /\ \/ /\ st[mine].eof = "set"
        /\ \/ Stale /\ To(Resp, "quit") /\ UNCHANGED <<cancelled, st, resp, cut>>
           \/ ~Stale /\ Whole /\ Idles /\ Announce(TRUE) /\ UNCHANGED <<cancelled, st>>
           \/ ~Stale /\ ~Whole /\ Falls /\ UNCHANGED cut
     \/ st[mine].eof # "set" /\ Falls /\ UNCHANGED cut
  /\ Steady /\ UNCHANGED <<cur, used, faults>>

\* Publication has stopped early; speech ends all the same, or runs into its limit.
Quits ==
  /\ pc[Resp] = "quit" /\ ~resp.doomed
  /\ \/ Idles /\ Announce(FALSE) /\ UNCHANGED <<cancelled, st>>
     \/ Falls /\ UNCHANGED cut
  /\ Steady /\ UNCHANGED <<cur, used, faults>>

\* The response is cancelled where it waits: start() cleans up; its own cancel()
\* is left, and takes the reader it was waiting for with it.
Doomed ==
  /\ resp.doomed
  /\ \/ pc[Resp] \in {"geometry", "ready"} /\ Abandons /\ UNCHANGED lock
     \/ /\ pc[Resp] = "launch" /\ To(Resp, "orphan")
        /\ resp' = [resp EXCEPT !.after = "end", !.doomed = FALSE]
        /\ UNCHANGED <<cancelled, st, lock>>
     \/ /\ pc[Resp] \in {"lock", "retire", "exit", "reader"}
        /\ lock' = IF lock = Resp THEN Free ELSE lock
        /\ st' = IF pc[Resp] = "reader" /\ st[cur].reader = "reading"
                 THEN [st EXCEPT ![cur].reader = "cancelled"] ELSE st
        /\ Idles /\ UNCHANGED cancelled
     \/ /\ pc[Resp] \in Speaking \cup {"open", "quit"}
        /\ Idles /\ UNCHANGED <<cancelled, st, lock>>
  /\ UNCHANGED <<config, epoch, blocked, closing, cur, used, cut, faults>>

RespStep ==
  \/ Open \/ Geometry \/ Launched \/ Orphaned \/ Ready \/ Drained \/ Ended \/ Quits \/ Doomed
  \/ ~resp.doomed /\ CancelStep(Resp)

-----------------------------------------------------------------------------
(* interrupt() and close().  Waits: "tts", "gather" (for the response),     *)
(* those of its cancel(); "left": it has done its part, no answer since.    *)

\* An answer begins: its response is a new task.
Answer ==
  /\ config = "ok" /\ ~closing /\ used < MaxStarts
  /\ pc[Resp] = "idle" /\ pc[Ctl] = "left"
  /\ pc' = [pc EXCEPT ![Resp] = "open", ![Ctl] = "idle"]
  /\ resp' = [NoResp EXCEPT !.epoch = epoch]
  /\ UNCHANGED <<flagVars, cur, used, st, lock, closing, cut, faults>>

\* The epoch moves and the source is fenced before anything is waited for.  A response
\* goes on while tts.cancel() waits, even into start(), which takes the fence away.
Interrupt(last) ==
  /\ config = "ok" /\ pc[Ctl] \in {"idle", "left"} /\ ~closing
  /\ last \/ epoch < MaxInterrupts
  /\ closing' = last
  /\ epoch' = epoch + 1 /\ Fence(st)
  /\ To(Ctl, IF pc[Resp] = "idle" THEN "lock" ELSE "tts")
  /\ UNCHANGED <<config, blocked, cur, used, lock, resp, cut, faults>>

\* tts.cancel() has returned: the response is cancelled.
Cancels ==
  /\ pc[Ctl] = "tts"
  /\ To(Ctl, "gather")
  /\ resp' = [resp EXCEPT !.doomed = pc[Resp] # "idle"]
  /\ UNCHANGED <<flagVars, cur, used, st, lock, closing, cut, faults>>

\* The response has ended: whatever it left is retired.
Gathered ==
  /\ pc[Ctl] = "gather" /\ pc[Resp] = "idle"
  /\ CancelOf(Ctl, st)
  /\ UNCHANGED <<config, epoch, blocked, cur, used, lock, resp, closing, cut, faults>>

CtlStep == Cancels \/ Gathered \/ CancelStep(Ctl)

-----------------------------------------------------------------------------
(* The worker process and the reader of its events.                        *)

\* Audio and video are published for this answer alone.
Publishes(n) ==
  /\ st[n].child = "joining"
  /\ st' = [st EXCEPT ![n].child = "live", ![n].out = Append(@, "ready")]
  /\ UNCHANGED <<flagVars, cur, used, callVars, cut, faults>>

\* It plays the next packet; the last one is followed by its report.
Plays(n) ==
  /\ st[n].child = "live" /\ st[n].heard < st[n].wrote
  /\ LET last == st[n].final /\ st[n].heard + 1 = st[n].wrote
     IN  st' = [st EXCEPT ![n].heard = @ + 1, ![n].child = IF last THEN "ended" ELSE @,
                          ![n].out = IF last THEN Append(@, "eof") ELSE @]
  /\ UNCHANGED <<flagVars, cur, used, callVars, cut, faults>>

\* It obeys the signal, crashes, or reports an error; a blocked one does nothing.
Dies(n) ==
  /\ st[n].child \in Alive
  /\ \/ st[n].term /\ UNCHANGED faults
     \/ ~st[n].term /\ Fault
  /\ st' = [st EXCEPT ![n].child = "dead"]
  /\ UNCHANGED <<flagVars, cur, used, callVars, cut>>

Reports(n) ==
  /\ st[n].child \in Alive /\ Fault
  /\ st' = [st EXCEPT ![n].out = Append(@, "error")]
  /\ UNCHANGED <<flagVars, cur, used, callVars, cut>>

ChildStep(n) == Publishes(n) \/ Plays(n) \/ Dies(n) \/ Reports(n)

Failed(f) == IF f = "open" THEN "failed" ELSE f

\* The reader fails: both waits learn of it and the process is told to end.
ReaderFails(n) ==
  LET s == [st EXCEPT ![n].reader = "done", ![n].ready = Failed(@), ![n].eof = Failed(@), ![n].out = <<>>]
  IN  st' = Signalled(s, n)

ReaderStep(n) ==
  /\ st[n].reader = "reading"
  /\ \/ /\ st[n].out # <<>>
        /\ LET kind == Head(st[n].out)
           IN  \/ /\ kind = "ready" /\ st[n].ready = "open"
                  /\ st' = [st EXCEPT ![n].ready = "set", ![n].out = Tail(@)]
               \/ /\ kind = "eof" /\ st[n].ready = "set" /\ st[n].eof = "open"
                  /\ st' = [st EXCEPT ![n].eof = "set", ![n].out = Tail(@)]
               \/ kind = "error" /\ ReaderFails(n)
     \/ /\ st[n].out = <<>> /\ st[n].child = "dead"
        /\ IF ~cancelled /\ cur = n THEN ReaderFails(n)
                                    ELSE st' = [st EXCEPT ![n].reader = "done"]
  /\ UNCHANGED <<flagVars, cur, used, callVars, cut, faults>>

-----------------------------------------------------------------------------
Next ==
  \/ Connect \/ Revoke \/ Answer \/ Interrupt(FALSE) \/ Interrupt(TRUE) \/ Submit
  \/ RespStep \/ CtlStep
  \/ \E n \in Start : Spawn(n) \/ ChildStep(n) \/ ReaderStep(n)

Spec == Init /\ [][Next]_vars

\* Tasks of the event loop run, a launch ends one way or the other, and the session
\* of a revoked asset is closed.  Nothing is assumed of the worker or of speech.
FairSpec ==
  /\ Spec
  /\ WF_vars(RespStep) /\ WF_vars(CtlStep)
  /\ \A n \in Start : WF_vars(Spawn(n)) /\ WF_vars(ReaderStep(n))
  /\ WF_vars(blocked /\ Interrupt(TRUE))

-----------------------------------------------------------------------------
\* Every variable keeps its shape, and the lock has a holder only while it is used.
TypeOK ==
  /\ config \in {"none", "ok", "refused"} /\ epoch \in 0..MaxInterrupts + 1
  /\ {blocked, cancelled, closing, cut} \subseteq BOOLEAN
  /\ cur \in 0..MaxStarts /\ used \in 0..MaxStarts /\ faults \in 0..MaxFaults
  /\ lock \in Caller \cup {Free}
  /\ \A c \in Caller : lock = c <=> pc[c] \in {"retire", "exit", "reader"}
  /\ \A n \in Start :
       /\ st[n].heard <= st[n].wrote /\ st[n].sent <= st[n].wrote /\ st[n].wrote <= MaxPackets
       /\ st[n].opening \in {"none", "pending", "done", "failed"}
       /\ st[n].reader \in {"none", "reading", "done", "cancelled"}

\* One owned process per answer: whatever is being launched, runs, or has its private
\* directory on disk is reached from self.state, so that a cancel() finds it; and when an
\* interrupt has done its part there is nothing left.
OwnedChild ==
  /\ \A n \in Start : st[n].child \in Alive \/ st[n].opening = "pending" \/ st[n].dir => cur = n
  /\ pc[Ctl] = "left" => cur = 0

\* An answer is announced as complete only when its worker has played all of it, but for
\* an asset that was revoked while it was spoken.
CompleteIsWhole == cut => blocked

\* One answer at a time, owned until it is whole or undone.
OneWholeAnswer == TypeOK /\ OwnedChild /\ CompleteIsWhole

\* Once an interrupt has moved the epoch, or a revocation has fenced the publisher, no
\* packet is given to a worker or counted, at whatever await the response stands.
NothingAfterFence ==
  [][\A n \in Start : st'[n].wrote + st'[n].sent > st[n].wrote + st[n].sent
                        => st[n].key = epoch /\ ~blocked]_vars

\* An interrupt ends, and after a revocation every worker is gone for good: whatever
\* the response waits for, a full pipe and a worker that ignores signals included.
Dark == \A n \in Start : st[n].child \notin Alive
InterruptEnds ==
  /\ (pc[Ctl] \notin {"idle", "left"}) ~> (pc[Ctl] \in {"idle", "left"})
  /\ blocked ~> [](Dark)
=============================================================================
