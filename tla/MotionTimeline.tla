--------------------------- MODULE MotionTimeline ---------------------------
(***************************************************************************)
(* Motion on its way to the picture: inference results are pushed into     *)
(* MotionTimeline, the renderer selects one for the position it draws, and *)
(* FrameMailbox holds drawn frames until the audio playhead reaches them.  *)
(* Inference and renderer run at their own pace, each with one result in   *)
(* hand, and hand it over late, or after the generation was cancelled and  *)
(* the next one started.  Positions are samples; the sequence number of a  *)
(* motion frame orders as its position does; coefficients are left out.    *)
(***************************************************************************)
EXTENDS Integers, Sequences, FiniteSets

CONSTANTS
  MaxFuture,       \* max_samples of the timeline
  MaxItems,        \* max_items of the timeline
  BoxFuture,       \* max_samples of the mailbox
  BoxItems,        \* max_items of the mailbox
  FrameTime,       \* duration of a video frame
  Horizon,         \* bound: last position of a generation
  Spans,           \* bound: how long motion is valid, and how long a gap lasts
  MaxGenerations   \* bound: generations

ASSUME MotionAssumption ==
  /\ {MaxFuture, BoxFuture, BoxItems, FrameTime, MaxGenerations} \subseteq Nat \ {0}
  /\ MaxItems \in Nat \ {0, 1} /\ Horizon \in Nat /\ Spans \subseteq Nat

VARIABLES
  generation,  \* the key of the newest timeline and mailbox
  cancelled,   \* both were cancelled
  timeline,    \* MotionTimeline.frames
  lastSample,  \* MotionTimeline.last_sample
  aim,         \* MotionTimeline.playhead: what the renderer draws for
  box,         \* FrameMailbox.frames: their pts_samples
  lastPts,     \* FrameMailbox.last_pts
  playhead,    \* FrameMailbox.playhead: the audio playhead
  inferred,    \* the motion frame inference holds, or NoFrame
  reach,       \* where the motion inferred so far ends
  drawn,       \* the picture the renderer holds, or NoPicture
  pushed,      \* history: the motion frames handed over, kept or not
  selected,    \* history: what the newest select() returned, if nothing came since
  submitted,   \* history: the pictures handed over
  shown,       \* history: the picture taken last
  due          \* history: what the newest take_due() returned, if nothing came since

motionVars == <<generation, cancelled, timeline, lastSample, aim, box, lastPts,
                playhead, inferred, reach, drawn, pushed, selected, submitted, shown, due>>

NoFrame == [at |-> -1, until |-> -1, generation |-> 0]
NoPicture == [pts |-> -1, generation |-> 0]
Unasked == [at |-> -1, how |-> "unasked", left |-> -1, right |-> -1]
Untaken == [at |-> -1, pts |-> -1, before |-> -1]

---------------------------------------------------------------------------
\* MotionTimeline

\* MUTANT: a frame is dropped when it has run out, whatever comes after it.
Advanced_ByEnd(frames, sample) ==
  LET alive == {i \in 1..Len(frames) : frames[i].until > sample}
  IN  IF alive = {} THEN <<>>
      ELSE SubSeq(frames, CHOOSE i \in alive : \A j \in alive : i <= j, Len(frames))

\* advance(): frames whose successor has begun are dropped.
Advanced(frames, sample) ==
  LET begun == {i \in 2..Len(frames) : frames[i].at <= sample}
  IN  IF begun = {} THEN frames
      ELSE SubSeq(frames, CHOOSE i \in begun : \A j \in begun : j <= i, Len(frames))

\* The answer for one position out of the frame that is current there and the
\* one that follows: the frame itself, a mixture, or an error across a gap.
Answer(sample, current, next) ==
  LET answer(how, left, right) == [at |-> sample, how |-> how, left |-> left, right |-> right]
  IN  IF current = NoFrame \/ sample > current.until THEN answer("none", -1, -1)
      ELSE IF next = NoFrame THEN answer("held", current.at, -1)
      ELSE IF current.until < next.at THEN answer("gap", -1, -1)
      ELSE answer("mixed", current.at, next.at)

SelectFrom(frames, sample) ==
  IF cancelled \/ frames = <<>> \/ frames[1].at > sample
  THEN Answer(sample, NoFrame, NoFrame)
  ELSE Answer(sample, frames[1], IF Len(frames) > 1 THEN frames[2] ELSE NoFrame)

\* Inference makes the next frame, right after the one before or past a gap.
Infer ==
  /\ inferred = NoFrame
  /\ \E gap \in Spans \cup {0}, span \in Spans :
       /\ reach + gap + span <= Horizon
       /\ reach + gap > lastSample
       /\ inferred' = [at |-> reach + gap, until |-> reach + gap + span, generation |-> generation]
       /\ reach' = reach + gap + span
  /\ UNCHANGED <<generation, cancelled, timeline, lastSample, aim, box, lastPts,
                 playhead, drawn, pushed, selected, submitted, shown, due>>

\* push() of a cancelled generation is refused.
PushStale ==
  /\ inferred # NoFrame /\ (cancelled \/ inferred.generation # generation)
  /\ inferred' = NoFrame
  /\ UNCHANGED <<timeline, lastSample, pushed, selected>>

\* push() has room; a frame that ended before the playhead is not kept.  Without
\* room it raises, and inference tries again.
PushFits ==
  /\ inferred # NoFrame /\ ~cancelled /\ inferred.generation = generation
  /\ inferred.at > lastSample
  /\ inferred.until <= aim + MaxFuture /\ Len(timeline) < MaxItems
  /\ lastSample' = inferred.at
  /\ timeline' = IF inferred.until < aim THEN timeline ELSE Append(timeline, inferred)
  /\ pushed' = pushed \cup {inferred}
  /\ selected' = Unasked
  /\ inferred' = NoFrame

Push ==
  /\ PushStale \/ PushFits
  /\ UNCHANGED <<generation, cancelled, aim, box, lastPts, playhead, reach, drawn,
                 submitted, shown, due>>

\* select(), and the picture drawn from it.
Select(sample) ==
  /\ drawn = NoPicture /\ sample > lastPts /\ sample >= aim
  /\ aim' = sample
  /\ timeline' = Advanced(timeline, sample)
  /\ selected' = SelectFrom(timeline', sample)
  /\ drawn' = IF selected'.how \in {"held", "mixed"}
                THEN [pts |-> sample, generation |-> generation] ELSE NoPicture
  /\ UNCHANGED <<generation, cancelled, lastSample, box, lastPts, playhead, inferred,
                 reach, pushed, submitted, shown, due>>

---------------------------------------------------------------------------
\* FrameMailbox

SubmitStale ==
  /\ drawn # NoPicture /\ (cancelled \/ drawn.generation # generation)
  /\ UNCHANGED <<box, lastPts, submitted, due>>

\* submit() has room; a picture whose time is over is not kept.  Without room it
\* raises, and the renderer tries again.
SubmitFits ==
  /\ drawn # NoPicture /\ ~cancelled /\ drawn.generation = generation
  /\ drawn.pts > lastPts
  /\ drawn.pts + FrameTime <= playhead + BoxFuture /\ Len(box) < BoxItems
  /\ lastPts' = drawn.pts
  /\ box' = IF drawn.pts + FrameTime <= playhead THEN box ELSE Append(box, drawn.pts)
  /\ submitted' = submitted \cup {drawn.pts}
  /\ due' = Untaken

Submit ==
  /\ SubmitStale \/ SubmitFits
  /\ drawn' = NoPicture
  /\ UNCHANGED <<generation, cancelled, timeline, lastSample, aim, playhead, inferred,
                 reach, pushed, selected, shown>>

\* take_due(): the newest picture that has begun, if its time is not over.
TakeFrom(pictures) ==
  LET current == {i \in 1..Len(pictures) :
                    pictures[i] <= playhead /\ playhead < pictures[i] + FrameTime}
  IN  IF current = {} THEN -1
      ELSE pictures[CHOOSE i \in current : \A j \in current : j <= i]

Later(pictures) ==
  LET begun == Cardinality({i \in 1..Len(pictures) : pictures[i] <= playhead})
  IN  SubSeq(pictures, begun + 1, Len(pictures))

TakeDue ==
  /\ box' = Later(box)
  /\ due' = [at |-> playhead, pts |-> IF cancelled THEN -1 ELSE TakeFrom(box), before |-> shown]
  /\ shown' = IF due'.pts >= 0 THEN due'.pts ELSE shown
  /\ UNCHANGED <<generation, cancelled, timeline, lastSample, aim, lastPts, playhead,
                 inferred, reach, drawn, pushed, selected, submitted>>

---------------------------------------------------------------------------
\* The audio playhead, and the end of a generation

PlayheadMoves ==
  /\ playhead < Horizon
  /\ playhead' = playhead + 1
  /\ due' = Untaken
  /\ UNCHANGED <<generation, cancelled, timeline, lastSample, aim, box, lastPts,
                 inferred, reach, drawn, pushed, selected, submitted, shown>>

CancelMotion ==
  /\ ~cancelled
  /\ cancelled' = TRUE
  /\ timeline' = <<>> /\ box' = <<>>
  /\ selected' = Unasked /\ due' = Untaken
  /\ pushed' = {} /\ submitted' = {} /\ shown' = -1
  /\ UNCHANGED <<generation, lastSample, aim, lastPts, playhead, inferred, reach, drawn>>

\* The next generation has a timeline and a mailbox of its own; what inference
\* and the renderer still hold belongs to the one before.
NextGeneration ==
  /\ cancelled /\ generation < MaxGenerations
  /\ generation' = generation + 1 /\ cancelled' = FALSE
  /\ lastSample' = -1 /\ aim' = 0 /\ lastPts' = -1 /\ playhead' = 0 /\ reach' = 0
  /\ UNCHANGED <<timeline, box, inferred, drawn, pushed, selected, submitted, shown, due>>

MotionInit ==
  /\ generation = 1 /\ cancelled = FALSE
  /\ timeline = <<>> /\ lastSample = -1 /\ aim = 0 /\ reach = 0
  /\ box = <<>> /\ lastPts = -1 /\ playhead = 0
  /\ inferred = NoFrame /\ drawn = NoPicture
  /\ pushed = {} /\ selected = Unasked
  /\ submitted = {} /\ shown = -1 /\ due = Untaken

MotionNext ==
  \/ Infer \/ Push
  \/ \E sample \in aim..Horizon : Select(sample)
  \/ Submit \/ TakeDue \/ PlayheadMoves \/ CancelMotion \/ NextGeneration

MotionSpec == MotionInit /\ [][MotionNext]_motionVars

---------------------------------------------------------------------------
\* Properties

At(position) == CHOOSE f \in pushed : f.at = position
Largest(S) == CHOOSE x \in S : \A y \in S : y <= x
Least(S) == CHOOSE x \in S : \A y \in S : x <= y

\* The answer out of everything that was ever pushed, whenever it came.
Reference(sample) ==
  LET begun == {f.at : f \in {g \in pushed : g.at <= sample}}
      later == {f.at : f \in {g \in pushed : g.at > sample}}
  IN  Answer(sample, IF begun = {} THEN NoFrame ELSE At(Largest(begun)),
             IF later = {} THEN NoFrame ELSE At(Least(later)))

\* The motion selected for a position is a function of the frames that came and
\* of the position alone: not of the order in which frames came and positions
\* were asked for, and not of what was dropped meanwhile to keep the history
\* bounded (timeline.py:1, "selected by audio PTS, independent of inference
\* completion").
SelectionIsReference == selected # Unasked /\ ~cancelled => selected = Reference(selected.at)

\* A picture is taken while its time runs; it is the newest one, and none is
\* withheld although it would be due.
DueIsCurrent ==
  due # Untaken /\ ~cancelled =>
    LET candidates == {s \in submitted : due.before < s /\ s <= due.at /\ due.at < s + FrameTime}
    IN  due.pts = IF candidates = {} THEN -1 ELSE Largest(candidates)

\* What the renderer shows follows the sound, through both bounded stores, and
\* nothing of a cancelled generation is in them.
PictureFollowsSound ==
  /\ SelectionIsReference
  /\ DueIsCurrent
  /\ \A i \in 1..Len(timeline) : timeline[i].generation = generation
=============================================================================
