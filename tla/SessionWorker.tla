---------------------------- MODULE SessionWorker ----------------------------
(***************************************************************************)
(* One epoch of a native media process: the thread that receives the       *)
(* parent's packets, the audio clock, and the thread that owns the GPU,    *)
(* in the Claire worker (with the bridge that turns motion into poses) and *)
(* in the static one.                                                      *)
(*                                                                         *)
(* The unit of time is 160 samples at 48 kHz: an audio tick is 3 units, a  *)
(* packet 6, a video frame 10, and a pose is made for every frame.  The    *)
(* threads are as fast or as slow as they like; PCM, pixels, the encoder's *)
(* rate and the diagnostics are left out.                                  *)
(***************************************************************************)
EXTENDS Integers, FiniteSets

CONSTANTS
  Totals,     \* lengths a turn may have
  Prebuffer,  \* audio that is queued before speech starts
  Lookahead,  \* motion the model needs beyond a pose
  Lead,       \* motion that may be fed ahead of the audio that was played
  AudioRoom,  \* capacity of the audio queue
  MotionRoom, \* capacity of the motion queue, in packets
  Slots,      \* slot_count, the capacity of the pose queue
  MinTicks,   \* ticks before speech may start
  PrerollFrames, \* neutral frames shown before speech
  MaxIdle     \* bound: ticks outside of speech after which the clock waits

Tick == 3
Packet == 6
Frame == 10
unset == -1

\* What the constants of the program satisfy: 300..500 ms of prebuffer, 260
\* of lookahead, 800 of lead, queues of one second and 32 poses.
ASSUME WorkerAssumption ==
  /\ Totals \subseteq Nat /\ Prebuffer >= Packet /\ Lookahead \in Nat
  /\ Lead >= Prebuffer + Lookahead
  /\ AudioRoom >= Prebuffer + Packet /\ MotionRoom * Packet >= AudioRoom
  /\ Slots * Frame >= Lead + Packet + Frame
  /\ {MinTicks, PrerollFrames} \subseteq Nat \ {0}
  /\ MaxIdle \in Nat /\ MaxIdle * Tick >= (PrerollFrames - 1) * Frame + 1 /\ MaxIdle >= MinTicks

VARIABLES
  claire, total, \* which worker this is, and the length of the turn
  received, eof, \* what the receiving thread has taken
  count, motions, \* items of the audio and of the motion queue
  apc,         \* the audio thread: between its lock and its capture, or not
  playing, done, flush, acknowledged,
  valid, padding, first, stream,
  rpc,         \* where the GPU owner stands in its loop
  seen,        \* what it read under the lock
  offered, motionEof,
  poses, slots, \* the bridge: poses made, and [lo, n] of those it holds
  padFrames,   \* poses beyond the end that were dropped
  rendered, lastPts,
  prerolled, next, prerollNext, frames, skipped, videoEof,
  failure

audioVars == <<apc, playing, done, flush, acknowledged, valid, padding, first, stream>>
ownerVars == <<rpc, seen, offered, motionEof, poses, slots, padFrames, rendered, lastPts,
               prerolled, next, prerollNext, frames, skipped, videoEof>>
vars == <<claire, total, received, eof, count, motions, audioVars, ownerVars, failure>>

Nothing == [eof |-> FALSE, total |-> 0, fed |-> FALSE, first |-> unset, cursor |-> 0, stream |-> 0]

Init ==
  /\ claire \in BOOLEAN /\ total \in Totals /\ (claire => total > 0)
  /\ received = 0 /\ eof = FALSE /\ count = 0 /\ motions = 0
  /\ apc = "lock" /\ playing = FALSE /\ done = FALSE /\ flush = 0 /\ acknowledged = FALSE
  /\ valid = 0 /\ padding = 0 /\ first = unset /\ stream = 0
  /\ rpc = "feed" /\ seen = Nothing /\ offered = 0 /\ motionEof = FALSE
  /\ poses = 0 /\ slots = [lo |-> 0, n |-> 0] /\ padFrames = 0
  /\ rendered = unset /\ lastPts = unset
  /\ prerolled = 0 /\ next = 0 /\ prerollNext = 0 /\ frames = 0 /\ skipped = 0
  /\ videoEof = FALSE /\ failure = "none"

Runs == failure = "none"
Fails(why) == failure' = why
OnGrid(t) == (t \div Frame) * Frame
Least(a, b) == IF a < b THEN a ELSE b
FramesOf(n) == (n + Frame - 1) \div Frame

-----------------------------------------------------------------------------
(* receive(): the parent sends whole packets and one last, shorter one.     *)

Takes(size) == count' = count + size /\ received' = received + size /\ eof' = (size < Packet)
Size == Least(Packet, total - received)
notReceived == <<claire, total, audioVars, ownerVars, failure>>

ReceiveStatic ==
  /\ Runs /\ ~claire /\ ~eof
  /\ count + Size <= AudioRoom /\ Takes(Size)
  /\ UNCHANGED <<notReceived, motions>>

ReceivePaired ==
  /\ Runs /\ claire /\ ~eof
  /\ count + Size <= AudioRoom /\ motions < MotionRoom
  /\ Takes(Size) /\ motions' = motions + 1
  /\ UNCHANGED notReceived

-----------------------------------------------------------------------------
(* The audio clock.  Before and after speech it sends silence; MaxIdle      *)
(* ticks of that are counted.                                              *)

poseEnd == poses * Frame
Starts ==
  /\ ~playing /\ (count >= Prebuffer \/ eof)
  /\ claire => /\ stream >= MinTicks * Tick /\ prerolled >= PrerollFrames
               /\ poseEnd > 0 /\ poseEnd >= Least(Prebuffer, received)
MayIdle == IF done THEN ~acknowledged /\ (videoEof \/ stream < first + valid + padding + MaxIdle * Tick)
           ELSE stream < MaxIdle * Tick
notTick == <<claire, total, received, eof, motions, ownerVars, acknowledged, stream>>

Silence ==
  /\ Runs /\ apc = "lock" /\ (done \/ (~playing /\ ~Starts)) /\ MayIdle
  /\ apc' = "capture"
  /\ UNCHANGED <<notTick, count, playing, done, flush, valid, padding, first, failure>>

Begins == /\ playing' = TRUE
          /\ first' = IF playing THEN first ELSE stream

\* MUTANT: one silent tick less after the last samples.
FlushesShort ==
  /\ Runs /\ apc = "lock" /\ playing /\ ~done /\ flush > 0
  /\ flush' = flush + 1 /\ padding' = padding + Tick /\ done' = (flush + 1 = 2)
  /\ apc' = "capture"
  /\ UNCHANGED <<notTick, count, playing, valid, first, failure>>

Flushes ==
  /\ Runs /\ apc = "lock" /\ playing /\ ~done /\ flush > 0
  /\ flush' = flush + 1 /\ padding' = padding + Tick /\ done' = (flush + 1 = 3)
  /\ apc' = "capture"
  /\ UNCHANGED <<notTick, count, playing, valid, first, failure>>

Underruns(why) == Fails(why) /\ UNCHANGED <<apc, count, valid, padding, flush>>
Plays ==
  LET n == Least(Tick, count)
  IN /\ count' = count - n /\ valid' = valid + n /\ padding' = padding + Tick - n
     /\ flush' = IF eof /\ count = n THEN (IF n = 0 THEN 2 ELSE 1) ELSE 0
     /\ apc' = "capture" /\ UNCHANGED failure
MayPlay == Runs /\ apc = "lock" /\ (playing \/ Starts) /\ ~done /\ flush = 0

PlaysStatic ==
  /\ ~claire /\ MayPlay /\ Begins
  /\ IF count < Tick /\ ~eof THEN Underruns("audio underrun") ELSE Plays
  /\ UNCHANGED <<notTick, done>>

PlaysClaire ==
  /\ claire /\ MayPlay /\ Begins
  /\ IF count < Tick /\ ~eof THEN Underruns("audio underrun")
     ELSE IF poseEnd <= valid THEN Underruns("motion underrun") ELSE Plays
  /\ UNCHANGED <<notTick, done>>

Capture ==
  /\ Runs /\ apc = "capture" /\ apc' = "lock"
  /\ stream' = stream + Tick
  /\ acknowledged' = (acknowledged \/ (done /\ (claire => videoEof)))
  /\ UNCHANGED <<claire, total, received, eof, count, motions, ownerVars, playing, done, flush, valid,
                 padding, first, failure>>

-----------------------------------------------------------------------------
(* The GPU owner of the Claire worker: a chunk of motion is fed, the state  *)
(* of the audio is read, and a frame is rendered.                          *)

notOwner == <<claire, total, received, eof, count, audioVars>>
notFrame == <<offered, motionEof, poses, padFrames>>
notBridge == <<rendered, lastPts, prerolled, next, prerollNext, frames, skipped, videoEof>>

Feed ==
  /\ Runs /\ claire /\ rpc = "feed" /\ rpc' = "push"
  /\ LET fed == motions > 0 /\ offered < valid + Lead
     IN /\ seen' = [Nothing EXCEPT !.eof = eof, !.total = received, !.fed = fed]
        /\ motions' = IF fed THEN motions - 1 ELSE motions
        \* The chunk was popped: the last one of the queue is the short one.
        /\ offered' = IF ~fed THEN offered ELSE IF eof /\ motions = 1 THEN received ELSE offered + Packet
        /\ motionEof' = (motionEof \/ (fed /\ eof /\ motions = 1))
  /\ UNCHANGED <<notOwner, poses, slots, padFrames, notBridge, failure>>

\* The poses that the model can make of the motion it has; at the end, of
\* all of it, and one beyond it at a boundary.
Made == IF motionEof THEN {FramesOf(offered), FramesOf(offered) + 1}
        ELSE IF offered < Lookahead THEN {0} ELSE {(offered - Lookahead) \div Frame + 1}

Push ==
  /\ Runs /\ rpc = "push" /\ rpc' = "look"
  /\ IF ~seen.fed THEN UNCHANGED <<poses, slots, padFrames, failure>>
     ELSE \E made \in Made :
       LET all == IF made > poses THEN made ELSE poses
           n == slots.n + all - poses
           over == IF motionEof THEN all - FramesOf(seen.total) ELSE 0
       IN IF n > Slots THEN Fails("pose queue") /\ UNCHANGED <<poses, slots, padFrames>>
          ELSE IF motionEof /\ rendered >= seen.total
            THEN Fails("end binding") /\ UNCHANGED <<poses, slots, padFrames>>
          ELSE /\ poses' = all - over /\ padFrames' = over
               /\ slots' = [slots EXCEPT !.n = n - over] /\ UNCHANGED failure
  /\ UNCHANGED <<notOwner, motions, seen, offered, motionEof, notBridge>>

Look ==
  /\ Runs /\ rpc = "look" /\ rpc' = "render"
  /\ seen' = [seen EXCEPT !.fed = FALSE, !.first = first, !.cursor = valid, !.stream = stream]
  /\ UNCHANGED <<notOwner, motions, notFrame, slots, notBridge, failure>>

Preroll == seen.first = unset
\* MUTANT: the last sample of the turn is not the limit.
TargetUnclamped ==
  IF Preroll THEN OnGrid(IF seen.stream > 0 THEN seen.stream - 1 ELSE 0) ELSE OnGrid(seen.cursor)

Target ==
  IF Preroll THEN OnGrid(IF seen.stream > 0 THEN seen.stream - 1 ELSE 0)
  ELSE OnGrid(IF seen.eof /\ seen.total > 0 THEN Least(seen.cursor, seen.total - 1) ELSE seen.cursor)
Ended == motionEof /\ seen.eof /\ next >= FramesOf(seen.total) * Frame
Again == rpc' = "feed" /\ seen' = Nothing
notRender == <<notOwner, motions, notFrame>>

\* Nothing is due.
Waits ==
  /\ Runs /\ rpc = "render" /\ Again
  /\ IF Preroll THEN Target < prerollNext
     ELSE Target < next /\ ~(Ended /\ OnGrid(stream - seen.first) >= next)
  /\ videoEof' = (videoEof \/ (~Preroll /\ Ended))
  /\ UNCHANGED <<notRender, slots, rendered, lastPts, prerolled, next, prerollNext, frames, skipped, failure>>

\* What the bridge requires of a frame with this time.
Shows(pts, ok) ==
  IF ok /\ pts > lastPts THEN lastPts' = pts /\ UNCHANGED failure ELSE Fails("bridge") /\ UNCHANGED lastPts

ShowPreroll ==
  /\ Runs /\ rpc = "render" /\ Preroll /\ Target >= prerollNext /\ Again
  /\ Shows(Target, rendered = unset)
  /\ prerolled' = Least(prerolled + 1, PrerollFrames) /\ prerollNext' = Target + Frame
  /\ UNCHANGED <<notRender, slots, rendered, next, frames, skipped, videoEof>>

\* A pose that is missing is waited for, never replaced.
Missing(t) ==
  \/ motionEof /\ t >= seen.total
  \/ slots.n = 0 \/ slots.lo * Frame > t \/ (slots.lo + slots.n - 1) * Frame < t

MissingPose ==
  /\ Runs /\ rpc = "render" /\ ~Preroll /\ Target >= next /\ Missing(Target) /\ Again
  /\ UNCHANGED <<notRender, slots, notBridge, failure>>

ShowPose ==
  /\ Runs /\ rpc = "render" /\ ~Preroll /\ Target >= next /\ ~Missing(Target) /\ Again
  /\ Shows(seen.first + Target, Target > rendered)
  /\ LET k == Target \div Frame
     IN slots' = [lo |-> k + 1, n |-> slots.lo + slots.n - (k + 1)]
  /\ rendered' = Target /\ frames' = frames + 1
  /\ skipped' = skipped + (Target - next) \div Frame
  /\ next' = Target + Frame
  /\ UNCHANGED <<notRender, prerolled, prerollNext, videoEof>>

Hold ==
  /\ Runs /\ rpc = "render" /\ ~Preroll /\ Target < next /\ Ended /\ Again
  /\ LET t == OnGrid(stream - seen.first)
     IN /\ t >= next
        /\ Shows(seen.first + t, motionEof /\ slots.n = 0 /\ rendered # unset)
        /\ next' = t + Frame
  /\ videoEof' = TRUE
  /\ UNCHANGED <<notRender, slots, rendered, prerolled, prerollNext, frames, skipped>>

Owner == Feed \/ Push \/ Look \/ Waits \/ ShowPreroll \/ MissingPose \/ ShowPose \/ Hold

\* The GPU thread of the static worker follows the stream.
ShowStatic ==
  /\ Runs /\ ~claire /\ stream >= next
  /\ LET t == OnGrid(stream)
     IN /\ Shows(t, TRUE)
        /\ skipped' = skipped + (IF t > next THEN (t - next) \div Frame ELSE 0)
        /\ next' = t + Frame
  /\ frames' = frames + 1
  /\ UNCHANGED <<notRender, rpc, seen, slots, rendered, prerolled, prerollNext, videoEof>>

-----------------------------------------------------------------------------
(* submit() of the parent: what it accepts as the report of the end.        *)

AcceptsStatic == valid = total /\ padding \in (2 * Tick)..(3 * Tick - 1)
AcceptsClaire ==
  /\ valid = total /\ padding = ((0 - total) % Tick) + 2 * Tick
  /\ prerolled >= PrerollFrames /\ padFrames \in 0..1
  /\ frames >= 1 /\ frames + skipped = FramesOf(total)

Receive == ReceiveStatic \/ ReceivePaired
Clock == Silence \/ Flushes \/ PlaysStatic \/ PlaysClaire \/ Capture
Next == Receive \/ Clock \/ Owner \/ ShowStatic

Spec == Init /\ [][Next]_vars
FairSpec == Spec /\ WF_vars(Receive) /\ WF_vars(Clock) /\ WF_vars(Owner \/ ShowStatic)

-----------------------------------------------------------------------------
(* Properties. *)

(* Types, queues within their capacity; the poses held end with the last   *)
(* one made, and no audio is counted twice.                                *)
TypeOK ==
  /\ count \in 0..AudioRoom /\ motions \in 0..MotionRoom /\ slots.n \in 0..Slots
  /\ valid + count = received /\ received <= total
  /\ claire => slots.lo + slots.n = poses /\ offered <= received
  /\ flush \in 0..3 /\ stream \in Nat /\ frames \in Nat

(* The end that is reported passes the parent's checks, whatever the speed *)
(* of the threads: all samples of the turn, the padding of the last tick   *)
(* and the two after it, and in the Claire worker every frame of the turn  *)
(* either shown or counted as skipped.                                     *)
EofIsExact == acknowledged => IF claire THEN AcceptsClaire ELSE AcceptsStatic

(* The picture keeps to the sound: no frame before its audio was played,   *)
(* frames and skipped frames account for all that is past, presentation    *)
(* times increase, the bridge holds the pose it is asked for and its queue *)
(* never overflows.                                                        *)
PictureKeepsToSound ==
  /\ claire => rendered <= valid
  /\ claire /\ ~videoEof => frames + skipped = next \div Frame
  /\ failure \notin {"bridge", "pose queue", "end binding"}

(* A turn is exact from its first frame to its acknowledged end.           *)
TurnIsExact == TypeOK /\ EofIsExact /\ PictureKeepsToSound

(* A turn that is sent completely is acknowledged, or given up for an      *)
(* underrun: no thread waits for another one for ever.                     *)
TurnEnds == <>(acknowledged \/ ~Runs)
=============================================================================
