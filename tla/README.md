# TLA+ models of TalkingHeadAvatar

TalkingHeadAvatar (`v2/`) is a local service for a talking avatar: a FastAPI
process with a PostgreSQL store, LiveKit rooms, one GPU, and native workers for
speech and video.  This directory holds TLA+ models of the parts whose
correctness depends on the order in which things happen, TLC configurations
that check them on small instances, and TLAPS proofs for every instance.

## The system and its components

Paths are relative to `src/v2/src/talkinghead_v2/` unless they start with `v2/`.

| | Component | Source | State it keeps | Operations |
|---|---|---|---|---|
| A | Asset lifecycle | `server/lifecycle.py` | tables: consents, uploads, managed assets, jobs, job attempts, outbox; upload and object files | record consent, create / put / expire upload, enroll, claim / stage / write / finish / fail an import, approve, cancel, revoke, purge, receipts |
| A' | Lifecycle worker, importer, revocation endpoints | `server/lifecycle_api.py`, `server/importer.py` | the claim and the event being handled; `mutation_lock`; the dictionary of actors | one loop: claim, import, outbox, expiry; revoke and fence |
| B | Session store and HTTP surface | `server/db.py`, `server/app.py`, `v2/web/src/api.ts` | sessions, asset revisions, control and idempotency records, principals, the cookies of the browser | login, reserve, update, recover, record control; create, join, close |
| C | Session actor and its endpoints | `server/actor.py`, `server/app.py` | epoch, utterance, response task, locks, closing flags, event log of 256 rows | prepare, receive, commit_audio, interrupt, answer, generate, fail, close, lease; controls, events |
| D | Native media publishers | `server/native_media.py`, `server/claire_media.py` | the state of each start, its process and directory, cancelled / blocked flags | connect, start, submit, fence, cancel, close |
| D' | Raw publisher and inbound audio | `server/transport.py`, `server/inbound_audio.py` | published tracks, key, audio source; the checked receive queue | start, submit, fence, cancel, close; put, get |
| D'' | Text of an answer | `conversation.py`, `server/providers.py`, `generate()` of `server/actor.py` | the buffer of the segmenter, a queue of two segments | tokens, segments, speak, flush |
| E | Speech provider | `providers/tts/native.py`, `v2/native/qwen/worker.cpp` | request serial, key, queue, child process | open, push, flush, outputs, cancel, close |
| F | Audio core | `audio/*.py`, `session/epochs.py` | generation, bounded queue, ledger, resampler position, device sink | start, push, finish, cancel, render |
| F' | Voice and motion | `conversation.py`, `rendering/timeline.py`, `providers/motion/*.py` | detector, motion history, frame mailbox, pending samples, context history | push, select, advance, pop |
| G | Browser client | `v2/web/src/client.ts`, `v2/web/src/playback.ts` | epoch and binding of the playback gate, tracks, control chain, phases of `connect()` | event, control, attach, stop |
| H | Device lease and local profiles | `session/device.py`, `local.py`, `local_server.py` | lock files, process records, docker services | acquire, release, init, provision, up, down |
| I | Native session workers, GPU encoder | `v2/native/media/*`, `v2/native/motion/claire_bridge.cpp` | queues of audio and poses, CUDA streams, tile lists, encoder slots | start, push, flush, end; update, draw, submit |
| J | Artifact cache | `assets/artifacts.py`, `assets/pinned.py` | blobs, temporaries, snapshots, the lock | provision, verify |
| L | Programs that drive one session | `replay.py`, `audio/qualify.py`, `providers/tts/speech.py` | two turns, their tasks, sink or device, monitor | start, cut, wait, start again, close |
| M | Qualification of workers and its evidence | `v2/scripts/qualify_*.py`, `publish_probe.py`, the traces of `v2/native/media` | cases and what they own, groups of processes, queues of a receiver, traces and logs | run a case, fence its group, observe, put away, report |
| K | Everything else | `contracts/`, `assets/avatar.py`, `cli.py`, `doctor.py`, benchmarks | none that outlives a call | validation |

How they interact: the browser (G) sends HTTP requests to the API process,
which serves them with B and, per session, with an actor (C).  The actor drives
E (text to PCM) and D (PCM to a child process I that publishes tracks), takes
the user's voice from D', and reports on an event stream that the browser
follows; the epoch in every event and the identity of the tracks decide what
the browser may play.  A and B share the database: `revoke` writes session
rows, `reserve` reads the admission row that `approve` creates.  A' is a task of
the API process: it imports with files and transactions of A, closes actors of
C, and must survive being killed anywhere.  C, D and E share the device lease
(H), which their child processes inherit.  J fills the directories that E and I
load their models from.

Hard behaviours: two advisory locks and row locks that overlap only partly
(A, B); leases and fences against late owners (A'); an outbox retried across
restarts (A'); cancellation at every `await` of the actor, media and provider
(C, D, E); back-pressure with cancellation (F, E); threads that hand samples and
poses to each other (F, I); events, HTTP answers and tracks that reach the
browser in any order (G); locks whose lifetime is that of inherited descriptors
(H); processes killed between two steps (A', B, H, J); instruments that stall what
they observe, or see only part of it (M).

What makes each correct:

* A: claims are fenced; the admission table agrees with the managed assets;
  revocation is final; what a receipt says was erased stays erased.
* A': no actor of a revoked asset streams, and every revocation is cleaned up.
* B: one session holds the slot and the slot is never lost; a stopped session is
  not revived; a key names one session; a control is applied once; a grant is
  for a session that is current.
* C: one response at a time, none after close; epochs only grow; a close ends.
* D: an answer is whole or undone, nothing is given to a worker after a fence,
  every interrupt ends.
* D': no track of an answer outlives its fence, and none is announced complete
  that was not played.
* D'': the voice says the words of the model in order, each once, in pieces that
  can be spoken, and all of them unless it is interrupted.
* E: no chunk of an older request is delivered and none is missing; no worker
  is stranded; every interruption and every answer ends.
* F: the queue is a bounded FIFO per generation; cancellation leaves nothing
  behind; output is contiguous and covers the input exactly.
* F': voice is not torn or dropped silently; the picture follows the sound; both
  streams of a turn end together; every window is the sound around its frame.
* G: after a local barge-in nothing plays until a newer binding arrives.
* H: at most one user of the GPU, children included; only processes of the
  profile are signalled; an API stays recorded until it ends.
* I: a turn ends with exactly its samples and the frames they are worth; a
  coded picture is the newest mesh, whole.
* J: a snapshot is there as a whole or not at all.
* L: the first turn is fenced where it was cut and the second is whole.
* M: a run owns nothing when it ends; a report, and a receiver's verdict, say what
  happened.

## Modules

| Module | Models | |
|---|---|---|
| `Lifecycle` | A and the session rows of B | state machine, properties, inductive invariant |
| `ImportWorker` | A' on top of `Lifecycle` | process, faults, kills; implements `Lifecycle` |
| `AudioPipeline` | F: generation session, media queue, device sink | processes of one event loop and a device thread; implements `SpeechOutput` |
| `SpeechOutput` | | what the audio core promises, in six variables |
| `Actor` | C, the row of B it writes, and what it can tell of D and E | tasks of one event loop, threads that write |
| `Browser` | G and the session it talks to | implements `ListenerPromise` |
| `ListenerPromise` | | what a listener may rely on |
| `QwenProvider` | E with its worker processes | tasks of one event loop, two threads and a pipe per worker |
| `Publisher` | D with its worker processes as the parent sees them | tasks of one event loop |
| `SessionWorker` | I: both native workers, one epoch each | three threads |
| `Serving` | the HTTP surface of B | pages, requests at every await, process and restarts |
| `TurnInput`, `MotionTimeline`, `ClaireInput`, `ClaireContext` | F' and the receive queue of D' | small machines; `Resampler` is shared by the last two |
| `Encoder` | the GPU encoder of I | host thread, two streams, three slots |
| `Profile` | H | operators, APIs, children, kills, pids used again |
| `Artifacts` | J | provisioners, kills, rotten files |
| `RawMedia` | the publisher of D' | two tasks of one event loop, calls of the SDK |
| `TextSpeech` | D'' | producer and speaker of one answer |
| `LocalTurns` | L | three programs, their tasks and the device |
| `Receiver`, `Qualifier`, `ProbeTrace`, `OwnedRuns` | M | a receiver's pipeline; the run of the cases; the evidence of a probe; programs that run others as groups of processes |
| `LifecycleProofs`, `WorkerProofs`, `ServingProofs`, `AudioProofs`, `ActorProofs`, `BrowserProofs` | | TLAPS proofs, each of the module of its name (`WorkerProofs`: `ImportWorker`; `AudioProofs`: `AudioPipeline`) |
| `MachineProofs` | | TLAPS proofs of `Profile`, `Artifacts`, `TurnInput` and `MotionTimeline` |
| `MediaProofs` | | TLAPS proofs of `Publisher`, `RawMedia`, `Qualifier`, `OwnedRuns` and `LocalTurns` |
| `MC*` | | instances for TLC, symmetry where it is sound; `MCMachines` runs F', the encoder, `Profile` and `Artifacts`, one at a time; `MCMedia` runs `Publisher` and the modules of D', D'', L and M, one at a time |

### Lifecycle

One variable per table or set of files; a row is a record of the columns that
decide something.  Each action is one transaction of `lifecycle.py` or
`db.py`: its guard is the conjunction of the checks that would raise, its
primed variables are the columns written.  A call that raises, or that replays
an idempotency key, changes nothing and is not an action.

* An asset has exactly one job (`Job.asset_id` is unique), so the job of asset
  `a` is `job[a]` and a claim is a pair of an asset and a fence.  Assets are
  numbered in the order of enrollment, which is the order `claim` takes jobs in.
* `Claimed(a, f)` lets every claim that was ever handed out be used at any later
  time: two workers, a worker that lost its lease, a late answer are all there.
* All methods of `Lifecycle` take the advisory lock 1740290405 and exclude each
  other.  `Store.reserve`, `update` and `recover` do not take it.  The only
  method that reads what those write, and writes it back, is `revoke`, so it is
  not atomic here: `BeginRevoke` takes the lock, `LockServing` locks the
  admission row of one asset after the other and selects its live sessions
  (without a lock, as the code does), `CommitRevoke` writes everything, and
  `RollbackRevoke` loses the transaction.  `Reserve` waits for a locked row.
  The write-back happens at the commit, the latest moment the code allows.
* Wall-clock time: a lease is the ticks it has left (`LeaseTick`), a retry delay
  and an upload grant are flags that time sets (`BackoffElapses`,
  `UploadExpires`).
* A process killed inside `write_object` leaves the temporary, and perhaps the
  link, while its transaction rolls back (`PutUploadKilled`,
  `WriteImportObjectKilled`).  `purge_and_receipt` may remove some files of
  the directory and fail, or lose its commit when the directory and the upload are
  gone (`PurgeAssetInterrupted`).
* Left out: idempotency keys, tokens and content hashes (an upload has one
  content), the revision id (one per asset and content), stage names, the audit
  table, several tenants (all queries are by tenant).

### ImportWorker

The API process: the loop of `worker` with the claim it holds (`worker.pc`,
`step` in `ImportPlan`, the calls of `validate_import` in their order) or the
events of the batch it still has to handle; the actors, as far as revocation
meets them; `mutation_lock`, shared by `revoke_resource` and `new_session`.
Every step that touches a table or a file is a step of `Lifecycle`, conjoined
with who takes it.  Kills, storage errors, LiveKit errors and failed durable
closes draw on one budget, `MaxFaults`.  The loop's `WorkerSpec` implements
`Spec` of `Lifecycle` (property `LifecycleSpec`; the mapping is the identity on
the shared variables).

### AudioPipeline and SpeechOutput

One pipeline of `session/epochs.py` (`GenerationSession`, `_Generation`),
`audio/queue.py` (`MediaQueue`), `audio/resample.py` (its sample counts only),
`audio/playback.py` (`PortAudioSink`) and the ledgers of `audio/clock.py`.

* Actors: the owner of the session (`Start`, `Cancel`, `Discontinuity`,
  `AbortDevice`), the tasks that push and finish (`Producer`), one consumer task
  per generation (an old one may still be leaving when the next one starts), and
  the callback of the device, on its own thread.
* All but the last share one event loop.  A task in `OnLoop` has not suspended
  yet and keeps the loop (`LoopFree` is a guard of everybody else on it); a state
  outside `OnLoop` stands for an `await` that may suspend.  The device thread
  takes the sink's lock and falls between any two steps of the others, for
  instance between the grant of `wait_writable` and `submit`.
* Wake-ups.  `MediaQueue._notify` replaces the event and sets the old one, so it
  is the set of tasks that wait that changes (`WokenProd`, `WokenCons`), and a
  woken task looks again at the key and the room.  The callback cannot set an
  event of the loop: it schedules the call (`signal`), which the loop makes later
  (`DeviceSignal`).
* A native event carries the generation, sequence number and position that were
  right when its producer made it; by the time it gets `_producer_lock` they may
  not be, and the ledger refuses it.  Samples are identified by generation and
  position.  `Worth(n)` counts the output samples before native sample `n`, and
  `Emitted` is what the resampler has released, its filter delay included.
* A task is cancelled where it waits (`CancelTask`); if its event was accepted
  the generation is cancelled with it, as `push` and `finish` do.
* Left out: sample values, peaks, traces and clocks, sequence numbers of output
  chunks (positions decide alone), opening and closing the stream, the recorder
  of `SyntheticSink`.

`SpeechOutput` knows turns, the labels of what was accepted, whether the input
ended, how much was said, and what the last step said.  It promises that a turn
is spoken in order, without gap or repetition, each sample under the label of
the segment it came from, and not at all once the turn is over.
`AudioPipeline!SpeechSpec` is the statement that the pipeline implements it.

### Actor

One session of `server/actor.py` with the endpoints of `server/app.py` that act
on it (`controls`, `close`, `reap`), `Store.update`, and the parts of
`providers/tts/native.py` and `server/transport.py` it calls.

* Actors.  The tasks `Ctl` (the control that holds `control_lock`), `Mic`
  (`receive`), `Fin` (`commit_audio`), `Beat` (`lease`), `Prep` (`prepare`) and
  `Out` (close requests, a user that leaves); one `generate()` per epoch
  (`resp`); the worker process; the threads that write the row.
* `pc[t]` is the `await` task `t` stands at inside `interrupt()` (`tts`, `reap`,
  `media`, `persist`) or `close()` (`gather`, `store`, `await`), whoever called
  it; `mode[t]` is what it does when `interrupt()` returns: nothing, `answer`, or
  `close`.  Calls that do not suspend are one action: `Enter` runs from the lock
  to the first `await`, the call of a task that finds the lock free included
  (`LoopFree`: nobody else runs meanwhile).
* `generation_lock` is a queue whose head holds it (`lockQ`); `Without` takes a
  task out of it.  A waiter that is woken runs later; `LockSettled` says that a
  transcription, which takes a thread, does not end before it has.  Ready tasks run
  in the order in which they became ready: a response that was just created begins
  before an interrupt that has suspended since goes on (`Begun`).
* Any task can be cancelled where the code cancels it: the receiver by a new
  track (`Subscribe`), the final task by the next utterance (`Endpoint`),
  everybody by `close`, a response by an interrupt.  `Dropped` gives back the
  lock and, if the task was closing, runs the `finally` of `close`; its write may
  still be under way and commit later (`Orphaned`).
* Writes of the row (`writes`) commit or are refused in any order (`Commit`), as
  `asyncio.to_thread` and the row lock allow; `result` is what the task sees.
* The asset may be revoked once (`Revocable`).  `revoke` selects the row without a
  lock (`RevokeSelects`) and writes DRAINING at its commit, whatever the row has
  become since (`RevokeCommits`); it may fail in between (`RevokeFails`).  After the
  commit the endpoint or the cleanup fences the media (`FenceMedia`), and
  `stop_orphan` gives back a row that is left DRAINING (`StopOrphan`) and raises its
  fence, after which no update of the actor is accepted.  When the actor's row can
  be taken for an orphan is seen as in the code: no actor is registered any more,
  or its close has been persisted.
* The provider is a key, a worker and the state of the last request; the media
  are two flags and the tracks that are published, both tracks of an epoch at
  once.  Segments of text, samples and `submit` are the state `speak`, which
  lasts as long as it likes.
* `overtaken`, `applied`, `again` and `acked` are history: whether an interrupt
  came after the utterance that is being answered, which controls took effect,
  whether one did twice, and the last epoch whose `cancel_ack` was sent.
* Left out: the event log and its stream, captions and partial transcripts, the
  device lease, error codes (`FAILED` is `CLOSED` here, but `lease_lost` is
  kept), creation of the child process (it is there or loading).

### Browser and ListenerPromise

The gate of `playback.ts` with its epoch, its binding and whether it is blocked;
the phases of `connect()`, each of which may be overtaken by `stop()`; the chain
of controls, of which each reads the epoch it expects when it is sent; the
handlers of events, tracks and the room.  The session is the other side of the
wire: it moves its epoch, binds tracks, publishes and unpublishes them, and
answers controls; its events stay in order (one stream), while tracks and HTTP
answers overtake them.  `ListenerPromise` says of the epochs that are heard that
they only grow, that a barge-in silences all that was known at that moment, and
that nothing is heard after the end.

### QwenProvider, Publisher and SessionWorker

* `QwenProvider`: the tasks `Intr`, `Spk` and `Gen` and one reader per worker
  share a loop; an action is what a task does between two suspensions.  `Return`
  is the resumption of a task whose wait has ended.  Of the worker the model has
  its two threads, the request it computes and the packets in its pipe.  A
  request is a serial number, so a packet of an old one can be told.  An interrupt
  moves the epoch before it calls `cancel`, so the speaker of the answer gives up at
  its next look (`Superseded`); `open_session` does not look, and may still set the
  key of an answer that is over.
* `Publisher`: a start has a number, and keeps its process, reader and directory
  until it is retired.  `submit` may stand in the wait for the pipe when it is
  cancelled, fenced or the worker dies.  What the worker reports is any sequence
  of events its protocol allows.  An interrupt fences first and then waits for the
  speech provider; the response goes on meanwhile, even into a `start` that takes the
  fence away, and is cancelled only after that wait.
* `SessionWorker`: the unit of time is 160 samples at 48 kHz, so that a tick, a
  packet and a frame are 3, 6 and 10 units.  Three threads with the locks and the
  atomic flags they share, the two-packet prebuffer, the pose queue of the bridge
  and the checks the parent makes of the end that is reported.

### Serving

Each page has one request under way; `step` is the await it stands at.  The
cookies (`jar`) belong to the browser, so an answer of one page is seen by the
requests of the other.  A restart clears actors, recovers rows as
`Store.recover` does and may come up with another runtime (`build`).
`spoiled` are the rows an exception or a kill left active; `AdmissionIsExact`
says precisely which rows those are and that nothing else holds the slot.

### RawMedia, TextSpeech and LocalTurns

* `RawMedia`: the tracks of the room belong to nobody but this publisher, and there
  is no lock, so `start` of one task and `cancel` of another meet at every call of
  the SDK.  A call that was made is carried out when its awaiting task is cancelled;
  a track that is published that way is in no list (`stray`).  `publish` of the actor
  looks at the epoch before it hands over a packet.
* `TextSpeech`: a text is words of two halves, any of which may end a sentence; the
  segmenter cuts where the code does, at a stable end, at the length or, after 120
  ms, at a few words (the clock is a choice).
* `LocalTurns`: events in place of samples, because `AudioPipeline` has those; what
  is modelled is the order in which a program cuts the first turn, waits for its
  tasks, lets the device drain and starts the second, with time limits.

### Receiver, Qualifier, ProbeTrace and OwnedRuns

* `Receiver`: native queue, FFI callback (which may be made to stall once), loop,
  `CheckedReceiveQueue`, reader, verdict; `use` is the script and its mode.
* `Qualifier`: `main()` of `qualify_claire_session_worker.py`: what a case owns,
  what it requires of the worker it ran, the `finally` of the case and that of the
  run, and the report.
* `ProbeTrace`: the rate control, the SDK's bounded trace, the log, and the checks
  that the readers make of it.  The SDK is taken to complete the encoding of a
  generation's frames in the order it was given them.
* `OwnedRuns`: `run_owned_process` and the six programs that judge cases (`runner`).
  A group is read from `/proc` as all names at once and then one process after the
  other (`Lists`, `Reads`), while any of them may start another or end; so one that
  was started after the names were taken, and whose parent ended before it was looked
  at, is not seen.  `GroupsAreOwned` says so, and says what the inbound matrix, which
  uses `subprocess.run`, does not notice: a file that changes during its last case.

### The machines of MCMachines

* `TurnInput`: frames are numbers, so what was lost can be told; the queue, the
  receive loop with its awaits, the detector with preroll, start run, patience,
  maximum length and tail.
* `MotionTimeline`: inference and renderer each hold one result and hand it over
  late; history and mailbox check generation, order, age and bounds.
* `ClaireInput`, `ClaireContext`: samples are numbered and output `j` of a
  resampler is computed around input `j * from / to`, with integer arithmetic as
  in the code; windows are compared with the turn itself.
* `Encoder`: a program of operations per stream with the events between them;
  kernels run when the stream reaches them; a picture is compared with the
  reference, computed from the mesh with no tiles, streams or slots.
* `Profile`: one action per step of `local.py` under `operation.lock`; pids are
  recycled and a process is told by its start time; flock belongs to an open
  file description, so a child that inherited it keeps the device.
* `Artifacts`: one action per file checked, fetched or linked.  The two modules
  differ in the name of the temporary: `artifacts.py` names it after the file,
  creates it exclusively and unlinks it on every failure, its own or not.

## Runs

| Run | Question |
|---|---|
| `Lifecycle` | One upload, two assets, two sessions, three attempts, a lease of two ticks, every stale claim holder, kills, cancel, revoke and purge: fencing, receipts, admission |
| `Worker` | The process with two faults: fencing of actors, no stream after a receipt, refinement of `Lifecycle`, and under fairness imports settle and revocations complete; no deadlock |
| `AudioRace` | Two producers, a queue and a sink of two or three samples, rates 2:3, events of two segments: nothing is lost, refinement of `SpeechOutput` |
| `AudioLiveness` | One producer, one device fault, under fairness: no lost wake-up, turns end |
| `ActorSafety` | Two turns and a close, one control, one failure of the store or of a media call, without the lease: stale transcripts, old provider keys, repeated controls.  The asset is not revoked here (`Revocable`) |
| `ActorClose` | One turn and a close with every task, the lease included, and one failure of the store, the worker, a media call or a transcription (`Failing`), and a revocation that writes back late: what a durable close guarantees, the permanent fence, and under fairness that every close ends |
| `Browser` | Two epochs, two controls, one connection fault: what is audible is authorised, the promise to the listener, the page settles |
| `QwenProvider` | Two answers, two requests, one fault, a queue and a pipe of one packet: order, no stranded worker, everything ends |
| `Media` | What carries an answer, and what observes it, eight machines one at a time. `Publisher`: two starts, two interrupts, a revocation, two faults: whole answers, silence after a fence, interrupts end. `RawMedia`: the fence without a lock. `TextSpeech`, `LocalTurns`: every word and every event once. `Receiver`, `ProbeTrace`: verdicts and evidence are what happened. `Qualifier`: a run leaves nothing behind and reports only what passed. `OwnedRuns`: a case is let go when its group is gone |
| `SessionWorker` | Turns of several lengths, the ones on a frame boundary included, in both workers: a turn is exact, and ends |
| `Machines` | Seven machines, one at a time. `TurnInput`: no frame of a voice is torn or dropped silently. `MotionTimeline`, `ClaireInput`, `ClaireContext`: picture, packets and windows are of the sound they go with. `Encoder`: a coded picture is the reference. `Profile`, `Artifacts`: ownership of GPU and processes, whole snapshots |
| `Serving` | Two pages, two tenants, two sessions, one key, one end of the process, in both profiles: the slot, the cookies, the grants |

A few properties are conjunctions of named parts that fail for different reasons:
`ImportsAreExclusive` (`FencedAttempts`, `UploadImportedOnce`), `LiveSessionsAreSound`
(`LiveSessionIsAuthorized`, `OneLiveSession`), `NoActorOutlivesRevocation`
(`UnfencedActorIsAuthorized`, `NoStreamAfterReceipt`), `OnlyTheCurrentSpeaks`
(`TypeOK`, `KeyIsCurrent`, `AnswersAreFresh`), `EndIsFinal` (`FencedForGood`,
`PersistedCloseIsQuiet`), `RequestsAreSeparate`
(`TypeOK`, `HeardInOrder`, `NoStrandedWorker`), `OneWholeAnswer` (`TypeOK`, `OwnedChild`,
`CompleteIsWhole`), `InstrumentsAreExact` (`ReceiptIsExact`, `EvidenceIsWhole`,
`GroupsAreOwned`).

Bounds.  One upload with two assets is enough for fencing and for importing
twice, because the only interaction of jobs is the order in which `claim` takes
them; three attempts are the code's own limit, and two ticks distinguish a
fresh, an old and an expired lease.  Two sessions are the least with which
admission and revocation concern different ones; that two assets with uploads of
their own do not disturb each other is proved.  In `Worker` two faults allow one
failure during the recovery from another.  In the audio runs two turns are the
least with which something of one can reach the other, two producers the least
that race, and queue and sink hold two or three samples so that every event is
cut and every wait happens; at 2:3 output samples straddle segments.  In
`Actor` the bound on epochs leaves the last one to the close; two turns are
needed for an interrupt to meet the answer of another task, one for everything
that a close meets.  In `QwenProvider`, `Publisher` and `RawMedia` two answers are the least
with which an old one reaches a new one, and a pipe of one packet, a source of one
frame, makes every wait happen.  The other machines of `Media` have queues of two
and a wire of five frames, so that both queues of a receiver overflow; turns of four
events against a queue and a device of two; four words where three are a full segment
and two are enough for the clock, so that words are also released before a segment is
full;
a live, a malformed and a flooding case, so that a fault meets a case with everything
before and after it; a probe in which the ceiling falls at the first position and
rises at the second, and whose trace has room for all three stages of a frame; and two cases of which each may start a process, with two
interrupts, limits or failures of the runner, so that the fence of a fence is reached.  One fault each: what a run does after a second one is what it
does after the first.  `SessionWorker` keeps the ratios of the code (tick, packet, frame,
prebuffer) and takes lengths on both sides of a frame.  In `Machines` the ratios
of rates are those of the code or the smallest with the same remainders; the
encoder has two tiles, three faces and geometries that overflow a list, leave a
tile empty or are refused; one kill in the profile and two mishaps in the cache
reach every state a kill can leave (more of them are covered by the proofs).  In
`Serving` one end of the process is a stop or a kill, and two builds let the
runtime change under a page.  Deadlock is checked in `Worker` only; elsewhere
ids, turns, events and requests are finite and may simply run out.

Fairness.  `ImportWorker`: the loop's `while True`, tasks that have started
(`ActorStep`), a request that holds a transaction or `mutation_lock`, the
passing of time, and the restart of the service by its owner.  `AudioPipeline`:
the event loop runs every task that is ready, and an open device goes on calling
back.  `Actor`: the event loop runs every task that is ready, a thread finishes
the write it was given, and the wait for the provider ends, at the latest with
its two-second limit.  `Browser`: the page's loop does not rest while an answer,
an event or a track is due (`Due`).  `QwenProvider`: the loop, the threads of a
worker, and the exit of a worker that was told to stop (it is killed after two
seconds).  `Publisher` (stated in `MCMedia!MediaSpec`, for when it is the one that
runs): tasks run, a launch ends one way or the other, and the
session of a revoked asset is closed, because the revocation asks for it;
nothing is assumed of the worker.  `SessionWorker`: each of the three threads
runs.  `TurnInput`: the receive loop runs.  No request is ever required to
arrive, and a storage, network or device fault happens at most `MaxFaults`
times (in `Actor`, to the parts in `Failing`).  `Serving`, `Profile`, `Artifacts` and the
other machines of `Media` state no fairness: they are about safety.

## Proofs

`LifecycleProofs` proves, for every number of consents, uploads, assets,
sessions, attempts and ticks, from `LifecycleAssumption` alone:

* `TypeCorrect`: `Spec => []TypeOK`;
* `AlwaysConsistent`: `Spec => []Consistent`, from which the invariants that the
  run `Lifecycle` checks follow, each a theorem of its own;
* `ServedRowsAgree`, `LiveSessionsAuthorized`, `ReceiptsAreTrue`, `AttemptsAreFenced`,
  `RunnableJobsAreAuthorized`: those invariants;
* `RevocationsAreFinal` and `AttemptEndsAreFinal`: the action properties
  `RevocationIsFinal` and `AttemptEndIsFinal`.

No safety property is inductive alone.  `Consistent` adds what they rest on:
asset and job status move together (`JobsFollowAssets`); the fence of an
unfinished job counts its attempts and no attempt has a fence to come, which is
why a new claim never overwrites an old attempt row (`FenceCountsAttempts`); an
enrolled upload is consumed or revoked, which is why nothing rewrites a purged
object (`EnrolledUploadsAreClosed`); and what a revocation read under its locks
is still so when it commits (`RevocationInProgress`), the heart of the argument
that `reserve` cannot slip past it.  The proof first states the effect of each
action on the rows of one asset, then shows consistency row by row, then the
properties that relate rows, sessions, files and events.

`MachineProofs` proves one invariant each of four machines of `MCMachines`, for every
value of their constants.

* `OwnershipStays` (`OwnershipIsKept`), from `ProfileAssumption` (names differ).  What a
  command knows at each of its stages is `StageIsSound`: while it has `operation.lock`
  no API is past its record but the one it saw, because an API that is not recorded yet
  has its launcher, which holds that lock (`LaunchersWait`), and a second one fails at
  `api-owner.lock` (`OwnerHolds`).  A pidfd that was opened for something else than the
  recorded API was opened when that one was dead, and the dead do not come back, so the
  second look at the ownership fails: that is why no foreign process is signalled.
* `CacheStaysWhole` (`CacheIsWhole`), from `ArtifactsAssumption`.  Who works holds the
  lock; a destination found absent stays so until the holder publishes it
  (`DestinationIsAsFound`); and a named temporary is that of the one download under way
  (`PartsAreDownloads`), so the `finally` that unlinks by name removes nobody else's.
* `TurnSafe` (`HearingIsExact`), for every length of the queue, the preroll, the start
  run, the patience, the tail and an utterance.  What was heard, what the receive task
  holds, what lies in the queue and what was sent follow each other without a hole
  (`HeardInOrder`, `NothingIsBetween`); the counters and the preroll of the detector are
  functions of everything that was heard (`DetectorIsExact`); and the last cut was made
  where the property says (`LastCutIsExact`).  The proof needs the preroll to be no
  longer than the longest utterance, without which one could start at its own limit;
  `conversation.py:26` requires a patience of at least ten frames that is below that
  limit and fixes the preroll at ten, which is where `TurnAssumption` has it from.
* `PictureSafe` (`PictureFollowsSound`), for any spans and frame time.  Whatever was
  dropped from the timeline or from the mailbox has a successor that is due, or is over
  (`TimelineKeeps`, `BoxKeeps`), so both answer out of what is left as they would out of
  everything that came (`Answers`).  The latest frame that is due, and the first that is
  not, exist by well-founded induction over the naturals.

`MediaProofs` does the same for five machines of `MCMedia`.

* `Publisher`: `AnswerSafe` (`OneWholeAnswer`) and `FenceSafe` (`NothingAfterFence`), for
  every number of starts, interrupts, packets and faults and any room in the pipe.  Every
  step is first reduced to one of some thirty outcomes, and every part of the invariant
  is kept by each.  One caller retires at a time, the actor only when the response is
  over (`OneRetires`); whatever the system runs or keeps is that of the current state
  (`ChildIsReached`); the flag of the fence stands for a response only if its epoch is
  over or the asset revoked, and for each of those that waits with a packet given
  (`FenceTells`); a packet is counted once, and for the answer whose state it is
  (`PacketsAreCounted`).
* `RawMedia`: `RawMediaSafe` (`RawFenceHolds`).  What was captured of the current answer
  is played or queued (`RawAccount`), a frame gets past a fence only as the last of its
  answer (`RawLate`), and whoever is at its `cancel` has every track before it that was
  not published by a cancelled call (`RawListed`).
* `Qualifier`: `RunSafe` (`RunIsOwned`), for every list of cases: what is owned is of the
  current case (`QualifierOwns`), a recorded case was what it has to be
  (`QualifierSound`), and as long as nothing is raised no case is left out
  (`QualifierRecords`).
* `OwnedRuns`: `GroupsSafe` (`GroupsAreOwned`).  What a fence has still to find it finds:
  whoever it has not read is among the names or came after them (`OwnedFence`); after
  SIGKILL nobody comes after them.
* `LocalTurns`: `TurnsSafe` (`TurnsAreSeparate`), for every length of turn, queue and
  device: what the sink accepted is turn by turn in order (`LocalRecords`), and nothing
  of a turn gets lost while it is consumed (`LocalCount`).

`BrowserProofs` proves `AudibleIsAlwaysAuthorized` (the invariant
`AudibleIsAuthorized`) and `PageKeepsPromise`, the refinement `PromiseSpec`, for
every number of epochs, controls and faults.  Neither is inductive.  `PageSound`
adds why they hold: the log of the session announces an interruption before
anything of the next epoch (`Announced`), an answer is bound once (`BoundOnce`),
what is still to be bound is newer than the binding in force and than what was
heard (`BindingsAreNew`), a binding in force passed the gate (`BindingPassed`),
and a page that stopped has closed its stream for good (`OpenToHear`).  The
refinement then maps every step to one of `ListenerPromise` or to a stutter: a
step that lets something be heard finds it newer than the last.

`ServingProofs` proves, for every number of pages, keys, principals, sessions,
tokens, runtimes and ends of the process, from `ServingAssumption` (bounds are
positive): `SlotIsExact`, `PagesKeepAgreeing` and `GrantsAreCurrent`, which are the
three properties of the run `Serving`.  `ServingSound` says what a request that
waits may rely on: the cookies it carries are those of its principal while both are
left together (`CookiesMatch`), the row it will start has no actor and no other
request starts it (`StartsAreTheirOwn`), a key has one row (`OneRowPerKey`), and a
join that has seen its row ready need not look at the reference again
(`JoinHolds`), because no reference is replaced under an active row.  A step serves
one request, so the proof states once what a step must leave alone for the others
(`TablesGrow`, `JoinsStay`, `CookiesStay`).

`WorkerProofs` proves that the API process implements `Lifecycle`
(`WorkerIsLifecycle`, the property `LifecycleSpec`) and `NoActorOutlives` (the
property `NoActorOutlivesRevocation`), for every number of assets, sessions, events
and faults, from the assumptions of both modules.  `WorkerSound` is `Consistent`
with `ClaimHeld` (the worker imports under a claim it was given), `BatchPending`
(only the loop ends an event), `LockHeld` and `ActorsServed`: an actor that is not
fenced has an approved asset, but for the time in which the request that revoked it
is about to fence it.  Without `mutation_lock` that would not be inductive: a session
could be checked before the revocation and get its actor after the fence.

`AudioProofs` proves `NothingIsEverLost` (the invariant `NothingIsLost`) and
`TurnsAreSpoken`, the refinement `SpeechSpec`, for any two rates, any filter delay,
chunk size, bounds, producers, segments and generations, from `PipelineAssumption`.
`PipelineSound` follows a sample from the producer to the device: output is what the
filter allows of what was accepted (`LedgerSound`), the spans left label it as it was
accepted (`SpansSound`), who holds `_producer_lock` puts what comes next
(`ProducersSound`), the queue holds consecutive output from `First` to `out`
(`QueueSound`), the consumer of the generation holds what comes next for the device
(`ConsumersSound`), the device has what was submitted and not played, in order
(`SinkSound`), and queue and device belong to the one generation or to none
(`KeysAgree`).  The rates enter through a few lemmas about rounding.

`ActorProofs` proves, for every number of epochs, control numbers and faults, with
and without the lease, whatever fails, from `ActorAssumption` (names differ):

* `KernelHolds`: `generation_lock` is a queue without repetition, whoever is behind
  somebody waits, every interrupt that is asked for has its epoch, and one close
  runs.  The queue is reasoned about as who is in it and who is before whom
  (`In`, `Before`); every step has one of eight shapes, such as `Entered`, `Left`,
  `Stopped` or `Shed` (`close` cancels the others).
* `ControlsApplyOnce` (`ControlOnce`): no control takes effect twice.
* `TheCurrentSpeaks` (`OnlyTheCurrentSpeaks`).  `FloorSound`: while somebody
  interrupts nobody answers.  `FreshSound`: an utterance that is answered was
  overtaken by nothing, because its answer is the next to have the lock.
  `BornSound` and `KeySound`: a response that may still open a request is of the
  current turn, and the request before it was cancelled.
* `ClosedIsClosed` (`EndIsFinal`): a permanent fence holds against every start, and a
  close the row knows of has stopped worker, tracks and responses.  Of its row the
  theorem says what the code gives (`Ended`): it is CLOSED, or a revocation that had
  selected it before has drained it since, which `SingleAdmission` below is about.  `RowSound`: a task has one write at most and what
  it is told is what was written, although writes commit in any order.
  `OrderSound`: an answer that waits for the lock is before the close that waits for
  it, so none is left when the close has it; `WindSound` and `WoundSound`: then
  there is no turn and none will be, and provider and media stay closed.

Not proved, model-checked only:

* liveness (`WorkIsDone`, `TurnsEnd`, `CloseEnds`, `PageSettles`, `EverythingEnds`,
  `TurnEnds`, `InterruptEnds`, `GapEndsSession`): the prover handles neither fairness
  nor `ENABLED`;
* the safety of `QwenProvider` (`RequestsAreSeparate`), whose invariant relates two tasks,
  the readers of every worker and packets in three places, and was not completed;
* the safety of `SessionWorker`, `ClaireInput` and `ClaireContext`, whose properties are
  about quotients and remainders of products of the constants, which the solver does
  not decide;
* the safety of `TextSpeech` (its text is a concatenation folded over the segments) and
  `Encoder` (a picture is a fold over the lists of its tiles): what a fold computes for
  every list takes an induction over data, which is out of the prover's reach;
* the parts `ReceiptIsExact` (`Receiver`) and `EvidenceIsWhole` (`ProbeTrace`) of
  `InstrumentsAreExact`; `GroupsAreOwned` is proved.

## Where the documentation says more than the code does

Each of these is a definition that no run checks, because the code does not
fulfil it.  Given as the only `INVARIANT` (or `PROPERTY`, for actions) to the
configuration named, TLC shows a behaviour of the code that breaks it.

* `Lifecycle!TombstoneRemains` (`Lifecycle.cfg`): `cancel` of a failed job
  overwrites the tombstone of an asset revoked since (`lifecycle.py:333`;
  `p05.md:48` "Tombstones/audit hashes remain").  The purge then fails for ever,
  and so does that of its consent.
* `Lifecycle!SingleAdmission` (`Lifecycle.cfg`): `revoke` selects sessions
  without a lock and may write DRAINING over a session that has closed since,
  while another one holds the slot (`lifecycle.py:356`; `p05.md:48`).
* `Lifecycle!ExpiredUploadsAreCleaned` (`Lifecycle.cfg`): the temporary of a
  killed upload is never removed (`lifecycle.py:437`; `p05.md:44`).
* `Actor!ClosedIsQuiet` (`ActorClose.cfg`): a close that runs inside the receiver
  or the final task is cancelled by the next track or utterance; `close_done` is
  set with the worker and the tracks still there (`actor.py:88`; `p04.md:13`
  "owns ... cancellation and resource cleanup").
* `Actor!ClosedReplyIsDurable`, `Actor!AckMeansStopped` (`ActorSafety.cfg`) and
  `Actor!LeaseLostIsALostLease` (with the lease): the close after a lost durable
  close answers `CLOSED` while the row holds the slot (`app.py:283`); an interrupt
  that is itself cancelled has taken the response out of the actor and never
  cancels it (`actor.py:190`), which is why `KeyIsCurrent` is stated for runs
  without a failure; the lease's write, overtaken by that of an interrupt, ends the
  session as `lease_lost` with nothing lost (`actor.py:119`).
* `Browser!NothingOlderThanAck` (`Browser.cfg`): a track bound before the
  acknowledged interrupt may become audible after it (`client.ts:255`;
  `V2_RESEARCH_AND_BUILD_PLAN.md:365`).
* `QwenProvider!CancelMeansStopped` (`QwenProvider.cfg`): `cancel` may return with
  the computation of a request still going on (`native.py:355`; `native.py:102`).
* `Profile!RecordedApi` (`Machines.cfg`): an API whose launcher was killed before
  the record can lose it to a `down` that found none (`local.py:365`, `local.py:328`;
  `p06-local.md:27` "a launcher failure cannot leave an unrecorded API").
* `Serving!LabelNamesRuntime` (`Serving.cfg`): the reference asset keeps the
  revision of the first login, and pages that remember who they are do not log in
  again, so after a restart with another runtime a session of the audio profile
  runs under the old label (`app.py:174`, `db.py:84`, `api.ts:5`; `p04.md:11`
  "Asset revisions pin the verified TTS runtime descriptor").

Also seen while modelling, and part of the models:

* `TurnInput`: a new track keeps the detector, so an utterance may join audio of
  two tracks.  A voiced run shorter than the start run right after a cut at the
  maximum length is not speech.
* `MotionTimeline`: `select` raises across a gap even where the left frame still
  covers the sample.  Frames are taken to be end to end or with gaps; with
  overlapping ones a late, expired frame changes the answer.
* `QwenProvider`: a `cancel` that is cancelled inside `_stop` leaves the old reader
  alive, which at its end of file may stop the new worker (`native.py:259`, 372);
  the death of a worker while nothing is requested poisons the provider until it
  is closed; an `interrupt` right after such a death raises.  An interrupt
  during the restart that follows a failed request stops the new worker; if its
  readiness had just arrived, `open_session` of the answer that is over goes on and
  sets the key (`native.py:150`), which nobody clears, and the next answer fails with
  "flush and consume EOF, or cancel, before provider restart".
* `Publisher`: a response cancelled while `_retire` awaits the reader
  (`native_media.py:283`) cancels that reader, and every later cancel and close
  raises (`Poisoned`); after a revocation `sender_complete` may be announced for an
  answer that was cut.
* `Profile`: an `init` killed midway leaves a directory that is refused for ever; a
  record whose pid is used by another process makes `up` and `down` refuse; a media
  child of a killed API holds the device until it ends.
* `Serving`: the idempotency record outlives its principal (24 against 8 hours), so
  the branch for an expired record (`db.py:126`) never runs; a close whose write
  failed leaves the row active until the restart; a principal that expires leaves
  its session to a tenant nobody can name; clearing the CSRF cookie alone can lock
  out pages that log in at once until they are loaded again.
* `Artifacts`: a temporary left by a kill makes exactly the next provisioning of
  that file by `artifacts.py` fail, whose `finally` then removes it; `.download-*`
  and `.snapshot-*` left by a kill stay for ever; a rotten blob makes every later
  provisioning fail, nothing is repaired.

## Not modelled

* Of C the event log and its stream, captions and error codes; of F opening the
  device and microphone capture; of I the bootstrap, NVENC and LiveKit themselves,
  `SIGTERM`, and device failures.  Those components are `partly`.
* The standalone Claire publisher (`claire_publisher.py`), another implementation of
  the interface that `Publisher` models.
* K: stateless validation (`contracts/`, `assets/avatar.py`, `read_manifest`), the
  static guards of the HTTP surface (loopback, origin, body limits) and its
  read-only endpoints, `doctor`, benchmarks and the tests.
* Weights of the filters, sample values, spectra, pixels and codecs: data, not
  control.
* LiveKit, PostgreSQL, docker and the kernel, which appear as the atomicity, the
  order and the failures the code sees.
* The 20 oldest events of the outbox (`lifecycle.py:392`): see the hazard without a
  property in `PROJECT.json`.

What a next step would be: proofs of the safety of `QwenProvider`, `Receiver` and
`ProbeTrace`; two assets with uploads of their own in one run of `Lifecycle`; the event
log of C.
