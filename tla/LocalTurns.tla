----------------------------- MODULE LocalTurns -----------------------------
(***************************************************************************)
(* The programs that drive one GenerationSession for two turns, the first  *)
(* one cut short and the second one whole: the replay on the synthetic     *)
(* sink (replay.py), the tone calibration (audio/qualify.py) and the local *)
(* speech (providers/tts/speech.py) on an output device with its monitor.  *)
(*                                                                         *)
(* An event is an audio chunk; the last event of a turn is its end.  The   *)
(* session, its queue and its fence are those of AudioPipeline, here event *)
(* by event: what is at stake is the order in which the programs stop,     *)
(* wait and start again.                                                   *)
(***************************************************************************)
EXTENDS Integers, Sequences

CONSTANTS
  TurnEvents,   \* events of a turn, its end included
  TurnQueue,    \* events the session's queue holds
  DeviceRoom,   \* events the device buffers
  DeviceFaults  \* bound: callbacks of the device that fail, waits that time out

ASSUME LocalAssumption ==
  /\ {TurnEvents, TurnQueue, DeviceRoom} \subseteq Nat \ {0} /\ DeviceFaults \in Nat

LocalTask == {"make", "feed", "take"}
Settled == {"off", "true", "false", "raised", "gone"}

VARIABLES
  program,   \* "replay", "tone", "speech"
  driver,    \* where the program stands
  turnKey,   \* the generation of the session, or 0
  begun,     \* the last turn that was begun
  made, fed, \* its events the provider has made; that were pushed
  task,      \* each task: "off", "running", "drain", or how it ended
  turnQueue, \* the session's queue
  held,      \* what a consumer took from it and has not submitted
  sink,      \* key, next event of the ledger, finished, open, failed, and the device's buffer
  records,   \* everything the sink accepted
  fencedAt,  \* history: how much of it when the first turn was cancelled, or -1
  monitor,   \* capture: "on", "armed", "heard"; whether it heard before the speech was made
  outcome, deviceFaults

localVars == <<program, driver, turnKey, begun, made, fed, task, turnQueue, held, sink, records, fencedAt,
               monitor, outcome, deviceFaults>>

Device == program # "replay"
Closed == [key |-> 0, next |-> 1, finished |-> FALSE, open |-> FALSE, failed |-> FALSE, buffer |-> <<>>]

LocalInit ==
  /\ program \in {"replay", "tone", "speech"} /\ driver = "begin"
  /\ turnKey = 0 /\ begun = 0 /\ made = 0 /\ fed = 0 /\ task = [t \in LocalTask |-> "off"]
  /\ turnQueue = <<>> /\ held = <<>> /\ sink = Closed /\ records = <<>> /\ fencedAt = -1
  /\ monitor = [state |-> "on", early |-> FALSE] /\ outcome = "none" /\ deviceFaults = 0

\* Driving(where) leaves alone what only the tasks and the device change.
Driving(where) == driver' = where /\ UNCHANGED <<program, records, deviceFaults>>
Tasking == UNCHANGED <<program, driver, begun, fencedAt, outcome>>
Ends(t, how) == task' = [task EXCEPT ![t] = how]

-----------------------------------------------------------------------------
(* The sink.  A submission is refused when its key is not the sink's.      *)

\* MUTANT: the sink trusts that what was dequeued is current.
Accepts_Trusting(item) == item.turn = sink.key \/ sink.key = 0

Accepts(item) == item.turn = sink.key

Submitted(item) ==
  /\ sink.next = item.n
  /\ records' = Append(records, item)
  /\ sink' = [sink EXCEPT !.next = @ + 1,
                          !.finished = ~Device /\ item.n = TurnEvents,
                          !.buffer = IF Device /\ item.n < TurnEvents THEN Append(@, item) ELSE @]

DevicePlays ==
  /\ sink.buffer # <<>> /\ sink.open
  /\ sink' = [sink EXCEPT !.buffer = Tail(@)]
  /\ monitor' = [monitor EXCEPT !.state = IF @ = "armed" THEN "heard" ELSE @]
  /\ Tasking /\ UNCHANGED <<turnKey, made, fed, task, turnQueue, held, records, deviceFaults>>

\* An exception in the callback silences the device and takes its key away.
DeviceFails ==
  /\ sink.open /\ sink.key # 0 /\ deviceFaults < DeviceFaults /\ deviceFaults' = deviceFaults + 1
  /\ sink' = [sink EXCEPT !.key = 0, !.buffer = <<>>, !.failed = TRUE]
  /\ Tasking /\ UNCHANGED <<turnKey, made, fed, task, turnQueue, held, records, monitor>>

-----------------------------------------------------------------------------
(* The tasks of a turn: the provider makes speech, feed() or bridge()      *)
(* pushes it into the session, consume() or consume_device() takes it out. *)

Make ==
  /\ task["make"] = "running" /\ made < TurnEvents
  /\ made' = made + 1
  /\ task' = [task EXCEPT !["make"] = IF made' = TurnEvents THEN "true" ELSE @]
  /\ monitor' = [monitor EXCEPT !.early = IF made' = TurnEvents THEN monitor.state = "heard" ELSE @]
  /\ Tasking /\ UNCHANGED <<turnKey, fed, turnQueue, held, sink, records, deviceFaults>>

Feed ==
  /\ task["feed"] = "running"
  /\ \/ /\ turnKey # begun /\ (fed < made \/ task["make"] # "running")
        /\ Ends("feed", "false") /\ UNCHANGED <<turnQueue, fed>>
     \/ /\ turnKey = begun /\ fed < made /\ Len(turnQueue) < TurnQueue
        /\ turnQueue' = Append(turnQueue, [turn |-> begun, n |-> fed + 1])
        /\ fed' = fed + 1
        /\ task' = [task EXCEPT !["feed"] = IF fed' = TurnEvents THEN "true" ELSE @]
  /\ Tasking /\ UNCHANGED <<turnKey, made, held, sink, records, monitor, deviceFaults>>

Take ==
  /\ task["take"] = "running" /\ held = <<>>
  /\ \/ turnKey # begun /\ Ends("take", "false") /\ UNCHANGED <<turnQueue, held>>
     \/ /\ turnKey = begun /\ turnQueue # <<>>
        /\ held' = <<Head(turnQueue)>> /\ turnQueue' = Tail(turnQueue) /\ UNCHANGED task
  /\ Tasking /\ UNCHANGED <<turnKey, made, fed, sink, records, monitor, deviceFaults>>

SubmitHeld ==
  /\ task["take"] = "running" /\ held # <<>> /\ held' = <<>>
  /\ \/ Device /\ sink.failed /\ Ends("take", "raised") /\ UNCHANGED <<sink, records>>
     \/ ~Accepts(held[1]) /\ Ends("take", "false") /\ UNCHANGED <<sink, records>>
     \/ /\ Accepts(held[1]) /\ Len(sink.buffer) < DeviceRoom /\ Submitted(held[1])
        /\ task' = [task EXCEPT !["take"] = IF held[1].n < TurnEvents THEN @
                                            ELSE IF Device THEN "drain" ELSE "true"]
  /\ Tasking /\ UNCHANGED <<turnKey, made, fed, turnQueue, monitor, deviceFaults>>

Drain ==
  /\ task["take"] = "drain"
  /\ \/ sink.failed /\ Ends("take", "raised") /\ UNCHANGED sink
     \/ ~sink.failed /\ sink.key # begun /\ Ends("take", "false") /\ UNCHANGED sink
     \/ /\ ~sink.failed /\ sink.key = begun /\ sink.buffer = <<>>
        /\ sink' = [sink EXCEPT !.finished = TRUE] /\ Ends("take", "true")
  /\ Tasking /\ UNCHANGED <<turnKey, made, fed, turnQueue, held, records, monitor, deviceFaults>>

-----------------------------------------------------------------------------
(* The programs.  The replay consumes its first turn itself: one event is  *)
(* submitted, and one is held across the cancellation.                     *)

Begins(t) ==
  /\ turnKey' = t /\ begun' = t /\ fed' = 0 /\ turnQueue' = <<>>
  /\ made' = IF program = "speech" THEN 0 ELSE TurnEvents
  /\ sink' = [Closed EXCEPT !.key = t, !.open = Device]
  /\ monitor' = [state |-> IF program = "speech" THEN "armed" ELSE monitor.state, early |-> FALSE]

First ==
  /\ driver = "begin" /\ Driving("first") /\ Begins(1)
  /\ task' = [make |-> IF program = "speech" THEN "running" ELSE "off", feed |-> "running",
              take |-> IF Device THEN "running" ELSE "off"]
  /\ UNCHANGED <<held, fencedAt, outcome>>

\* A device's program waits for the first sample it plays, the replay for a full queue.
Cuts ==
  /\ driver = "first" /\ driver' = "stopping"
  /\ \/ /\ Device /\ Len(sink.buffer) < Len(records)
        /\ fencedAt' = Len(records) /\ UNCHANGED <<held, records>>
     \/ /\ ~Device /\ Len(turnQueue) = TurnQueue /\ fed < TurnEvents /\ Len(turnQueue) >= 2
        /\ records' = Append(records, turnQueue[1]) /\ held' = <<turnQueue[2]>>
        /\ fencedAt' = 1
  /\ turnKey' = 0 /\ turnQueue' = <<>> /\ sink' = [sink EXCEPT !.key = 0, !.buffer = <<>>]
  /\ UNCHANGED <<program, begun, made, fed, task, monitor, outcome, deviceFaults>>

\* abort_and_close(), with it the provider's cancel(): no more speech comes.
Stopped ==
  /\ driver = "stopping" /\ Driving("gather")
  /\ sink' = [sink EXCEPT !.open = FALSE, !.key = 0, !.buffer = <<>>]
  /\ task' = [task EXCEPT !["make"] = IF @ = "running" THEN "false" ELSE @]
  /\ UNCHANGED <<turnKey, begun, made, fed, turnQueue, held, fencedAt, monitor, outcome>>

\* The second turn begins when the tasks of the first one have ended.  The replay tries
\* its held event before and after: it must be refused.
Second ==
  /\ driver = "gather" /\ \A t \in LocalTask : task[t] \in Settled
  /\ \/ /\ task["feed"] # "raised" /\ (task["take"] = "raised" => program = "speech")
        /\ (~Device => task["feed"] = "false" /\ ~Accepts(held[1]))
        /\ driver' = "second" /\ Begins(2) /\ held' = <<>> /\ UNCHANGED outcome
        /\ task' = [make |-> IF program = "speech" THEN "running" ELSE "off",
                    feed |-> "running", take |-> "running"]
     \/ /\ \/ Device /\ task["take"] = "raised" /\ program = "tone"
           \/ ~Device /\ (task["feed"] # "false" \/ Accepts(held[1]))
        /\ driver' = "cleanup" /\ outcome' = "failed"
        /\ UNCHANGED <<turnKey, begun, made, fed, task, turnQueue, held, sink, monitor>>
  /\ UNCHANGED <<program, records, fencedAt, deviceFaults>>

\* What every program requires of its second turn: it was accepted whole, with its end.
TurnPassed == \A t \in LocalTask : task[t] \in {"off", "true"}

Judges ==
  /\ driver = "second" /\ \A t \in LocalTask : task[t] \in Settled
  /\ Driving("cleanup")
  /\ outcome' = IF TurnPassed /\ (program = "speech" => monitor.early) THEN "passed" ELSE "failed"
  /\ UNCHANGED <<turnKey, begun, made, fed, task, turnQueue, held, sink, fencedAt, monitor>>

\* Every wait of the programs has a limit; the replay's first one may also be cancelled there.
TimesOut ==
  /\ driver \in {"first", "gather", "second"} /\ deviceFaults < DeviceFaults
  /\ driver' = "cleanup" /\ outcome' = "failed" /\ deviceFaults' = deviceFaults + 1
  /\ UNCHANGED <<program, turnKey, begun, made, fed, task, turnQueue, held, sink, records, fencedAt, monitor>>

\* finally: what still runs is cancelled and waited for, the device is closed.  A task
\* cancelled in push() cancels the generation.
CleansUp ==
  /\ driver = "cleanup" /\ Driving("over")
  /\ task' = [t \in LocalTask |-> IF task[t] \in Settled THEN task[t] ELSE "gone"]
  /\ LET pushing == task["feed"] = "running" /\ turnKey = begun /\ fed < made
     IN /\ turnKey' = IF pushing THEN 0 ELSE turnKey
        /\ turnQueue' = IF pushing THEN <<>> ELSE turnQueue
  /\ sink' = IF Device THEN [sink EXCEPT !.open = FALSE, !.key = 0, !.buffer = <<>>] ELSE sink
  /\ UNCHANGED <<begun, made, fed, held, fencedAt, monitor, outcome>>

LocalNext ==
  \/ DevicePlays \/ DeviceFails \/ Make \/ Feed \/ Take \/ SubmitHeld \/ Drain
  \/ First \/ Cuts \/ Stopped \/ Second \/ Judges \/ TimesOut \/ CleansUp

LocalSpec == LocalInit /\ [][LocalNext]_localVars

-----------------------------------------------------------------------------
\* The two turns never mix: what the sink accepts is a beginning of the first turn and then
\* one of the second, each in order, and nothing of the first after it was cancelled, not
\* even what a consumer held at that moment.  A program that passes has put out the second
\* turn whole, with one end, and nothing is queued; and one that is over has no task left,
\* and no device open.
TurnsAreSeparate ==
  /\ \A i \in DOMAIN records :
       /\ records[i].n = IF i > 1 /\ records[i-1].turn = records[i].turn THEN records[i-1].n + 1 ELSE 1
       /\ i > 1 => records[i-1].turn <= records[i].turn
       /\ fencedAt >= 0 /\ i > fencedAt => records[i].turn = 2
  /\ outcome = "passed" =>
       /\ Len(records) = fencedAt + TurnEvents /\ turnQueue = <<>> /\ held = <<>>
       /\ program = "speech" => monitor.state = "heard"
  /\ driver = "over" => ~sink.open /\ \A t \in LocalTask : task[t] \in Settled
=============================================================================
