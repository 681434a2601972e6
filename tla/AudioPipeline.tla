---------------------------- MODULE AudioPipeline ----------------------------
(***************************************************************************)
(* The audio core: GenerationSession (ledger, resampler positions, segment *)
(* labels, epochs), the bounded MediaQueue between its producers and its   *)
(* consumer, and PortAudioSink, whose callback runs on a thread of its own.*)
(*                                                                         *)
(* Producers, consumers and the owner of the session share one event loop: *)
(* a task that is "on the loop" keeps it until it suspends.  Only the      *)
(* device callback interleaves with it, between the sections that hold the *)
(* sink's lock.  An asyncio.Event that is replaced or set is modelled by   *)
(* what it does to the tasks that wait for it.                             *)
(*                                                                         *)
(* Samples are identified by their generation and position; their values,  *)
(* sequence numbers of output chunks (positions decide alone, a chunk is   *)
(* never empty), peaks, traces and clocks are left out.                    *)
(***************************************************************************)
EXTENDS Integers, Sequences

CONSTANTS
  InRate,      \* native samples per second (start's native_rate)
  OutRate,     \* output samples per second (sink.sample_rate)
  Radius,      \* resampler filter radius, in native samples
  ChunkMax,    \* output_chunk_samples
  MaxSamples,  \* MediaQueue.max_samples
  MaxItems,    \* MediaQueue.max_items
  MaxBuffer,   \* PortAudioSink.max_buffer_samples
  Block,       \* frames of one device callback
  Producer,    \* tasks that call push and finish
  Label,       \* segment ids
  None,        \* no generation
  MaxEpoch,    \* bound: epochs
  MaxNative,   \* bound: native samples of a generation
  MaxEvents,   \* bound: events of a generation
  MaxPush,     \* samples of one native event (one second of them at most)
  MaxFaults    \* bound: failures of the device callback

ASSUME PipelineAssumption ==
  /\ {InRate, OutRate, ChunkMax, MaxSamples, MaxItems, MaxBuffer, Block} \subseteq Nat \ {0}
  /\ {Radius, MaxEpoch, MaxNative, MaxEvents, MaxPush, MaxFaults} \subseteq Nat
  /\ ChunkMax <= MaxSamples   \* checked by GenerationSession.__init__
  /\ ChunkMax <= MaxBuffer    \* wait_writable refuses any larger chunk
  /\ None \notin Nat

VARIABLES
  \* GenerationSession and its _Generation
  epoch,     \* the newest epoch
  live,      \* epoch of _state, or None
  ledger,    \* native SampleLedger: next_sample, last_sequence, closed
  spans,     \* segments: native end and label of each span still to be put out
  src,       \* history: the label of each native sample accepted
  released,  \* resampler.output_count
  out,       \* output_sample
  \* MediaQueue
  qkey, items, qsamples,
  \* producer tasks
  prod, call, item,
  \* consumer tasks, one per generation
  cons, held,
  \* PortAudioSink
  skey, sink, buffers, queued, delivered, finished, failed,
  signal,    \* a call_soon_threadsafe(_changed.set) is pending
  heard,     \* history: what the last callback gave to the device
  faults

genVars == <<live, ledger, spans, src, released, out>>
queueVars == <<qkey, items, qsamples>>
prodVars == <<prod, call, item>>
consVars == <<cons, held>>
sinkVars == <<skey, sink, buffers, queued, delivered, finished, failed, signal>>
vars == <<epoch, genVars, queueVars, prodVars, consVars, sinkVars, heard, faults>>

Epoch == 0..MaxEpoch

\* Worth(n): output samples that lie before native sample n; SourceOf(j): the
\* native sample whose interval holds output sample j.
Worth(n) == (n * OutRate + InRate - 1) \div InRate
SourceOf(j) == (j * InRate) \div OutRate

\* Output count of the resampler after n native samples: an output needs Radius
\* samples of right context, unless the rates agree or the input has ended.
Emitted(n, final) ==
  IF InRate = OutRate \/ final THEN Worth(n)
  ELSE IF n > Radius THEN Worth(n - Radius) ELSE 0

NoCall == [kind |-> "none", epoch |-> None, seq |-> 0, at |-> 0, count |-> 0, label |-> None]
NoItem == [kind |-> "none", epoch |-> None, at |-> 0, count |-> 0, label |-> None]
Chunk(e, at, count, l) == [kind |-> "chunk", epoch |-> e, at |-> at, count |-> count, label |-> l]
Eof(e, at) == [kind |-> "eof", epoch |-> e, at |-> at, count |-> 0, label |-> None]
Samples(i) == [k \in 1..i.count |-> [epoch |-> i.epoch, at |-> i.at + k - 1, label |-> i.label]]

NewLedger == [next |-> 0, seq |-> -1, closed |-> FALSE]
NewSink == [next |-> 0, closed |-> FALSE, eof |-> FALSE]

\* Where a task stands.  Those in OnLoop keep the event loop until they suspend.
ProdState == {"idle", "lock", "run", "put", "blocked", "woken"}
ConsState == {"off", "ready", "run", "hand", "submit", "parked", "room", "recheck",
              "drain", "done"}
OnLoop == {"run", "put", "hand", "submit"}
LoopFree ==
  /\ \A p \in Producer : prod[p] \notin OnLoop
  /\ \A c \in Epoch : cons[c] \notin OnLoop
LockFree == \A p \in Producer : prod[p] \in {"idle", "lock"}

CallType == [kind : {"push", "finish"}, epoch : Epoch, seq : 0..MaxEvents,
             at : 0..MaxNative, count : 0..MaxPush, label : Label \cup {None}]
ItemType == [kind : {"chunk", "eof"}, epoch : Epoch, at : Nat, count : 0..ChunkMax,
             label : Label \cup {None}]
SampleType == [epoch : Epoch, at : Nat, label : Label]

TypeOK ==
  /\ epoch \in -1..MaxEpoch /\ live \in Epoch \cup {None}
  /\ ledger \in [next : 0..MaxNative, seq : -1..MaxEvents, closed : BOOLEAN]
  /\ spans \in Seq([end : 1..MaxNative, label : Label])
  /\ src \in Seq(Label)
  /\ released \in Nat /\ out \in Nat
  /\ qkey \in Epoch \cup {None} /\ items \in Seq(ItemType) /\ qsamples \in Int
  /\ prod \in [Producer -> ProdState]
  /\ call \in [Producer -> CallType \cup {NoCall}]
  /\ item \in [Producer -> ItemType \cup {NoItem}]
  /\ cons \in [Epoch -> ConsState]
  /\ held \in [Epoch -> ItemType \cup {NoItem}]
  /\ skey \in Epoch \cup {None}
  /\ sink \in [next : Nat, closed : BOOLEAN, eof : BOOLEAN]
  /\ buffers \in Seq(SampleType) /\ queued \in Int /\ delivered \in Nat
  /\ finished \in BOOLEAN /\ failed \in BOOLEAN /\ signal \in BOOLEAN
  /\ heard \in Seq(SampleType)
  /\ faults \in 0..MaxFaults

Init ==
  /\ epoch = -1 /\ live = None
  /\ ledger = NewLedger /\ spans = <<>> /\ src = <<>> /\ released = 0 /\ out = 0
  /\ qkey = None /\ items = <<>> /\ qsamples = 0
  /\ prod = [p \in Producer |-> "idle"]
  /\ call = [p \in Producer |-> NoCall] /\ item = [p \in Producer |-> NoItem]
  /\ cons = [c \in Epoch |-> "off"] /\ held = [c \in Epoch |-> NoItem]
  /\ skey = None /\ sink = NewSink /\ buffers = <<>> /\ queued = 0
  /\ delivered = 0 /\ finished = FALSE /\ failed = FALSE /\ signal = FALSE
  /\ heard = <<>> /\ faults = 0

-----------------------------------------------------------------------------
(* Notifications                                                           *)

\* MediaQueue._notify: every task waiting on the event runs again.
WokenProd(f) == [p \in Producer |-> IF f[p] = "blocked" THEN "woken" ELSE f[p]]
\* MUTANT: put() does not notify.
WokenCons_Lost(f) == f
WokenCons(f) == [c \in Epoch |-> IF f[c] = "parked" THEN "ready" ELSE f[c]]

\* The loop runs the pending set() of the sink's event.
DeviceSignal ==
  /\ LoopFree /\ signal
  /\ signal' = FALSE
  /\ cons' = [c \in Epoch |-> IF cons[c] = "room" THEN "recheck" ELSE cons[c]]
  /\ UNCHANGED <<epoch, genVars, queueVars, prodVars, held, skey, sink, buffers,
                 queued, delivered, finished, failed, heard, faults>>

-----------------------------------------------------------------------------
(* The owner of the session                                                *)

\* MUTANT: cancel() of the sink drops its samples but keeps its key.
SinkCancelled_Unfenced ==
  /\ buffers' = <<>> /\ queued' = 0 /\ signal' = TRUE
  /\ UNCHANGED <<skey, sink, delivered, finished, failed>>

SinkCancelled ==
  /\ skey' = None /\ buffers' = <<>> /\ queued' = 0 /\ signal' = TRUE
  /\ UNCHANGED <<sink, delivered, finished, failed>>

QueueReset(key) == qkey' = key /\ items' = <<>> /\ qsamples' = 0

NewGeneration(key) ==
  /\ live' = key
  /\ ledger' = NewLedger /\ spans' = <<>> /\ src' = <<>> /\ released' = 0 /\ out' = 0

\* start(): a new turn, its queue, its sink and the task that consumes it.
Start ==
  /\ LoopFree
  /\ live = None \/ finished
  /\ skey = None \/ finished
  /\ epoch < MaxEpoch
  /\ epoch' = epoch + 1
  /\ NewGeneration(epoch')
  /\ QueueReset(epoch')
  /\ prod' = WokenProd(prod)
  /\ cons' = [WokenCons(cons) EXCEPT ![epoch'] = "ready"]
  /\ skey' = epoch' /\ sink' = NewSink /\ buffers' = <<>> /\ queued' = 0
  /\ delivered' = 0 /\ finished' = FALSE /\ failed' = FALSE /\ heard' = <<>>
  /\ UNCHANGED <<call, item, held, signal, faults>>

\* cancel(): never waits.  prod0 is the state of the producers before the wake-up.
Cancelled(prod0) ==
  /\ live # None /\ epoch < MaxEpoch
  /\ epoch' = epoch + 1
  /\ NewGeneration(None)
  /\ QueueReset(None)
  /\ prod' = WokenProd(prod0)
  /\ cons' = WokenCons(cons)
  /\ SinkCancelled
  /\ heard' = <<>>
  /\ UNCHANGED <<held, faults>>

Cancel == LoopFree /\ Cancelled(prod) /\ UNCHANGED <<call, item>>

\* discontinuity(): the ledger must accept it; it does not take the lock.
Discontinuity == LoopFree /\ ~ledger.closed /\ Cancelled(prod) /\ UNCHANGED <<call, item>>

\* abort_and_close(): the device alone is stopped; it is reopened before a start.
AbortDevice ==
  /\ LoopFree /\ skey # None
  /\ SinkCancelled
  /\ UNCHANGED <<epoch, genVars, queueVars, prodVars, consVars, heard, faults>>

-----------------------------------------------------------------------------
(* Producers                                                               *)

Return(p) ==
  /\ prod' = [prod EXCEPT ![p] = "idle"]
  /\ call' = [call EXCEPT ![p] = NoCall]
  /\ item' = [item EXCEPT ![p] = NoItem]

\* An event as a provider makes it: next in line for its generation when it is
\* made, whatever becomes of the generation or of its place before the lock.
Event ==
  IF live = None THEN {}
  ELSE [kind : {"push"}, epoch : {live}, seq : {ledger.seq + 1}, at : {ledger.next},
        count : 0..MaxPush, label : Label]
       \cup [kind : {"finish"}, epoch : {live}, seq : {ledger.seq + 1},
             at : {ledger.next}, count : {0}, label : {None}]

Call(p) ==
  /\ LoopFree /\ prod[p] = "idle"
  /\ ledger.seq < MaxEvents - 1
  /\ \E e \in Event :
       /\ e.at + e.count <= MaxNative
       /\ call' = [call EXCEPT ![p] = e]
  /\ prod' = [prod EXCEPT ![p] = "lock"]
  /\ UNCHANGED <<epoch, genVars, queueVars, item, consVars, sinkVars, heard, faults>>

LedgerTakes(e) ==
  /\ e.epoch = live
  /\ ~ledger.closed /\ e.seq > ledger.seq /\ e.at = ledger.next

\* push() and finish() under _producer_lock, up to _enqueue.
Refused(p) ==
  /\ LoopFree /\ prod[p] = "lock" /\ LockFree
  /\ ~LedgerTakes(call[p])
  /\ Return(p)
  /\ UNCHANGED <<epoch, genVars, queueVars, consVars, sinkVars, heard, faults>>

\* The span of one more event: it extends the last span of the same segment.
Extended(sp, end, l) ==
  IF sp # <<>> /\ sp[Len(sp)].label = l
  THEN [sp EXCEPT ![Len(sp)] = [end |-> end, label |-> l]]
  ELSE Append(sp, [end |-> end, label |-> l])

Accept(p) ==
  LET e == call[p]
      end == e.at + e.count
  IN  /\ LoopFree /\ prod[p] = "lock" /\ LockFree
      /\ LedgerTakes(e)
      /\ ledger' = [next |-> end, seq |-> e.seq, closed |-> e.kind = "finish"]
      /\ spans' = IF e.count = 0 THEN spans ELSE Extended(spans, end, e.label)
      /\ src' = src \o [i \in 1..e.count |-> e.label]
      /\ released' = Emitted(end, e.kind = "finish")
      /\ prod' = [prod EXCEPT ![p] = "run"]
      /\ UNCHANGED <<epoch, live, out, queueVars, call, item, consVars, sinkVars, heard, faults>>

\* MUTANT: a span is dropped one output sample early.
DropSpan_Early(p) ==
  /\ prod[p] = "run" /\ out < released
  /\ spans # <<>> /\ out >= Worth(spans[1].end) - 1
  /\ spans' = Tail(spans)
  /\ UNCHANGED <<epoch, live, ledger, src, released, out, queueVars, prodVars, consVars,
                 sinkVars, heard, faults>>

\* _enqueue: a span that is put out entirely is dropped.
DropSpan(p) ==
  /\ prod[p] = "run" /\ out < released
  /\ spans # <<>> /\ out >= Worth(spans[1].end)
  /\ spans' = Tail(spans)
  /\ UNCHANGED <<epoch, live, ledger, src, released, out, queueVars, prodVars, consVars,
                 sinkVars, heard, faults>>

Least(S) == CHOOSE x \in S : \A y \in S : x <= y

\* The next chunk: within its segment, at most ChunkMax samples.
Cut(p) ==
  /\ prod[p] = "run" /\ out < released
  /\ spans # <<>> /\ out < Worth(spans[1].end)
  /\ item' = [item EXCEPT ![p] =
       Chunk(live, out, Least({released - out, ChunkMax, Worth(spans[1].end) - out}),
             spans[1].label)]
  /\ prod' = [prod EXCEPT ![p] = "put"]
  /\ UNCHANGED <<epoch, genVars, queueVars, call, consVars, sinkVars, heard, faults>>

\* All samples are queued: push returns, finish queues the end of the output.
EndOfCall(p) ==
  /\ prod[p] = "run" /\ out = released
  /\ \/ call[p].kind = "push" /\ Return(p)
     \/ /\ call[p].kind = "finish"
        /\ item' = [item EXCEPT ![p] = Eof(live, out)]
        /\ prod' = [prod EXCEPT ![p] = "put"]
        /\ UNCHANGED call
  /\ UNCHANGED <<epoch, genVars, queueVars, consVars, sinkVars, heard, faults>>

Putting(p) == prod[p] = "put" \/ (prod[p] = "woken" /\ LoopFree)
Room(i) == Len(items) < MaxItems /\ qsamples + i.count <= MaxSamples

\* put() of a generation that was reset meanwhile: the call returns False.
PutStale(p) ==
  /\ Putting(p) /\ item[p].epoch # qkey
  /\ Return(p)
  /\ UNCHANGED <<epoch, genVars, queueVars, consVars, sinkVars, heard, faults>>

PutBlocks(p) ==
  /\ Putting(p) /\ item[p].epoch = qkey /\ ~Room(item[p])
  /\ prod' = [prod EXCEPT ![p] = "blocked"]
  /\ UNCHANGED <<epoch, genVars, queueVars, call, item, consVars, sinkVars, heard, faults>>

Put(p) ==
  /\ Putting(p) /\ item[p].epoch = qkey /\ Room(item[p])
  /\ items' = Append(items, item[p])
  /\ qsamples' = qsamples + item[p].count
  /\ out' = item[p].at + item[p].count
  /\ prod' = [WokenProd(prod) EXCEPT ![p] = IF item[p].kind = "eof" THEN "idle" ELSE "run"]
  /\ cons' = WokenCons(cons)
  /\ call' = IF item[p].kind = "eof" THEN [call EXCEPT ![p] = NoCall] ELSE call
  /\ item' = [item EXCEPT ![p] = NoItem]
  /\ UNCHANGED <<epoch, live, ledger, spans, src, released, qkey, held, sinkVars, heard, faults>>

\* The task is cancelled while it waits, for the lock or for room.  Samples of
\* an accepted event would be lost, so the generation is cancelled with it.
CancelTask(p) ==
  /\ LoopFree
  /\ call' = [call EXCEPT ![p] = NoCall] /\ item' = [item EXCEPT ![p] = NoItem]
  /\ \/ /\ prod[p] \in {"blocked", "woken"} /\ live = call[p].epoch
        /\ Cancelled([prod EXCEPT ![p] = "idle"])
     \/ /\ prod[p] = "lock" \/ (prod[p] \in {"blocked", "woken"} /\ live # call[p].epoch)
        /\ prod' = [prod EXCEPT ![p] = "idle"]
        /\ UNCHANGED <<epoch, genVars, queueVars, consVars, sinkVars, heard, faults>>

-----------------------------------------------------------------------------
(* The consumer of generation c                                            *)

Getting(c) == cons[c] = "run" \/ (cons[c] = "ready" /\ LoopFree)

Leave(c) == cons' = [cons EXCEPT ![c] = "done"] /\ held' = [held EXCEPT ![c] = NoItem]

GetCancelled(c) ==
  /\ Getting(c) /\ c # qkey
  /\ Leave(c)
  /\ UNCHANGED <<epoch, genVars, queueVars, prodVars, sinkVars, heard, faults>>

GetWaits(c) ==
  /\ Getting(c) /\ c = qkey /\ items = <<>>
  /\ cons' = [cons EXCEPT ![c] = "parked"]
  /\ UNCHANGED <<epoch, genVars, queueVars, prodVars, held, sinkVars, heard, faults>>

Get(c) ==
  /\ Getting(c) /\ c = qkey /\ items # <<>>
  /\ items' = Tail(items)
  /\ qsamples' = qsamples - Head(items).count
  /\ held' = [held EXCEPT ![c] = Head(items)]
  /\ prod' = WokenProd(prod)
  /\ cons' = [WokenCons(cons) EXCEPT ![c] = IF Head(items).kind = "eof" THEN "submit" ELSE "hand"]
  /\ UNCHANGED <<epoch, genVars, qkey, call, item, sinkVars, heard, faults>>

\* wait_writable, one pass under the sink's lock.
Hand(c) ==
  /\ cons[c] = "hand" \/ (cons[c] = "recheck" /\ LoopFree)
  /\ \/ (failed \/ c # skey) /\ Leave(c)
     \/ /\ ~failed /\ c = skey
        /\ cons' = [cons EXCEPT ![c] =
             IF queued + held[c].count <= MaxBuffer THEN "submit" ELSE "room"]
        /\ UNCHANGED held
  /\ UNCHANGED <<epoch, genVars, queueVars, prodVars, sinkVars, heard, faults>>

\* submit() takes the event: same generation, room, and next in the sink's ledger.
SinkTakes(i) ==
  /\ i.kind = "chunk" => queued + i.count <= MaxBuffer
  /\ ~sink.closed /\ i.at = sink.next

Submit(c) ==
  /\ cons[c] = "submit" /\ c = skey /\ SinkTakes(held[c])
  /\ IF held[c].kind = "eof"
     THEN /\ sink' = [next |-> sink.next, closed |-> TRUE, eof |-> TRUE]
          /\ UNCHANGED <<buffers, queued>>
     ELSE /\ sink' = [sink EXCEPT !.next = held[c].at + held[c].count]
          /\ buffers' = buffers \o Samples(held[c])
          /\ queued' = queued + held[c].count
  /\ cons' = [cons EXCEPT ![c] = IF held[c].kind = "eof" THEN "drain" ELSE "run"]
  /\ held' = [held EXCEPT ![c] = NoItem]
  /\ UNCHANGED <<epoch, genVars, queueVars, prodVars, skey, delivered, finished, failed,
                 signal, heard, faults>>

\* submit() returns False, or raises.
SubmitRefused(c) ==
  /\ cons[c] = "submit" /\ (c # skey \/ ~SinkTakes(held[c]))
  /\ Leave(c)
  /\ UNCHANGED <<epoch, genVars, queueVars, prodVars, sinkVars, heard, faults>>

\* drain() polls: it ends when the device has played the last sample.
Drain(c) ==
  /\ LoopFree /\ cons[c] = "drain"
  /\ \/ (failed \/ c # skey) /\ UNCHANGED finished
     \/ ~failed /\ c = skey /\ sink.eof /\ queued = 0 /\ finished' = TRUE
  /\ Leave(c)
  /\ UNCHANGED <<epoch, genVars, queueVars, prodVars, skey, sink, buffers, queued,
                 delivered, failed, signal, heard, faults>>

-----------------------------------------------------------------------------
(* The device thread: one callback, entirely under the sink's lock.  One    *)
(* that finds no sample changes nothing a task waits for.                   *)

Play ==
  LET copied == Least({Block, Len(buffers)})
  IN  /\ skey # None /\ copied > 0
      /\ heard' = SubSeq(buffers, 1, copied)
      /\ buffers' = SubSeq(buffers, copied + 1, Len(buffers))
      /\ queued' = queued - copied
      /\ delivered' = delivered + copied
      /\ signal' = TRUE
      /\ UNCHANGED <<epoch, genVars, queueVars, prodVars, consVars, skey, sink, finished,
                     failed, faults>>

PlayFails ==
  /\ faults < MaxFaults /\ faults' = faults + 1
  /\ failed' = TRUE
  /\ skey' = None /\ buffers' = <<>> /\ queued' = 0 /\ signal' = TRUE
  /\ UNCHANGED <<epoch, genVars, queueVars, prodVars, consVars, sink, delivered, finished,
                 heard>>

-----------------------------------------------------------------------------

Produce(p) ==
  \/ Refused(p) \/ Accept(p)
  \/ DropSpan(p) \/ Cut(p) \/ EndOfCall(p)
  \/ PutStale(p) \/ PutBlocks(p) \/ Put(p)

Consume(c) ==
  \/ GetCancelled(c) \/ GetWaits(c) \/ Get(c)
  \/ Hand(c) \/ Submit(c) \/ SubmitRefused(c) \/ Drain(c)

Next ==
  \/ Start \/ Cancel \/ Discontinuity \/ AbortDevice
  \/ \E p \in Producer : Call(p) \/ Produce(p) \/ CancelTask(p)
  \/ \E c \in Epoch : Consume(c)
  \/ DeviceSignal \/ Play \/ PlayFails

Spec == Init /\ [][Next]_vars

\* The event loop serves its ready tasks in turn; an open device calls back.
Fairness ==
  /\ \A p \in Producer : WF_vars(Produce(p))
  /\ \A c \in Epoch : WF_vars(Consume(c))
  /\ WF_vars(DeviceSignal)
  /\ WF_vars(Play)

FairSpec == Spec /\ Fairness

-----------------------------------------------------------------------------
(* Properties                                                              *)

\* The two bounds of the queue hold whatever tasks and resets interleave; it holds
\* consecutive output up to the sample put last, and its counter is the length of
\* that output; the sink's is that of its buffers (MediaQueue.put and get_nowait,
\* PortAudioSink.submit and _fill).
BoundedAndCounted ==
  /\ TypeOK
  /\ Len(items) <= MaxItems
  /\ \A i \in 1..(Len(items) - 1) : items[i + 1].at = items[i].at + items[i].count
  /\ items # <<>> => items[Len(items)].at + items[Len(items)].count = out
  /\ qsamples = IF items = <<>> THEN 0 ELSE out - items[1].at
  /\ qsamples <= MaxSamples
  /\ queued = Len(buffers) /\ queued <= MaxBuffer

\* What wait_writable granted still fits and is still next when submit takes the
\* lock again, although the device thread ran in between: a current event is
\* never refused by the sink's bound or its ledger.
GrantedEventFits ==
  \A c \in Epoch : cons[c] = "submit" /\ c = skey => SinkTakes(held[c])

\* _enqueue never meets an output sample without a source span, whatever the
\* filter's delay and the cuts of the native events (its ContractError).
SpansCover ==
  \A p \in Producer : prod[p] = "run" /\ out < released => spans # <<>>

\* A drained generation was put out to its last sample: drain() reports the end
\* only when the native input ended and all it is worth reached the device.
FinishedIsComplete ==
  finished /\ skey # None => ledger.closed /\ delivered = Worth(ledger.next)

\* No sample is refused or lost on its way: the counters are true, the spans cover
\* what the filter puts out, the sink takes what it granted, and the end comes
\* after everything.
NothingIsLost == BoundedAndCounted /\ GrantedEventFits /\ SpansCover /\ FinishedIsComplete

\* Each turn is spoken in order, without gaps, under the right labels, and never
\* after it was cancelled: the promise of SpeechOutput.
Speech == INSTANCE SpeechOutput WITH
  NoTurn <- None, turn <- live, begun <- epoch, script <- src, sealed <- ledger.closed,
  said <- IF live = None THEN 0 ELSE delivered
SpeechSpec == Speech!SpeechSpec

\* No wake-up is lost: a producer that waits for room gets on, unless its device
\* is gone and its owner has not cancelled the turn (MediaQueue._notify).
BlockedPutReturns ==
  \A p \in Producer :
    prod[p] \in {"blocked", "woken"} ~> prod[p] = "idle" \/ (live # None /\ skey = None)

\* A turn whose input ended is spoken to its end or stopped; it does not hang.
Unspoken == live # None /\ skey = live /\ ledger.closed /\ ~finished
SealedTurnEnds == Unspoken ~> ~Unspoken

\* The consumer of a turn that is over leaves, wherever it waited: for the queue,
\* for the device, whose event it may share with the next turn's consumer, or
\* for the end of the playback.
OldConsumersLeave ==
  (\E c \in Epoch : cons[c] \notin {"off", "done"} /\ live # c)
    ~> (\A c \in Epoch : cons[c] # "off" /\ live # c => cons[c] = "done")

\* Every task of a turn gets on: producer, device and consumer.
TurnsEnd == BlockedPutReturns /\ SealedTurnEnds /\ OldConsumersLeave
=============================================================================
