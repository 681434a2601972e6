----------------------------- MODULE TurnInput -----------------------------
(***************************************************************************)
(* The way of the user's voice into a turn: the SDK puts 20 ms frames into *)
(* CheckedReceiveQueue, Actor.receive takes them and pushes them into      *)
(* TurnDetector, which cuts utterances.  A frame is the number it was sent *)
(* under; whether the VAD calls it voiced is a choice made when it is      *)
(* taken.  Positions (cursor, first, lastVoiced) count frames, 320 samples *)
(* each.  Captions, transcripts and answers are in Actor.                  *)
(***************************************************************************)
EXTENDS Naturals, Sequences, FiniteSets

CONSTANTS
  QueueRoom,   \* max_frames of the receive queue
  Preroll,     \* frames kept before an utterance starts
  StartRun,    \* voiced frames in a row that start one
  MinVoiced,   \* voiced frames below which it is not an utterance
  TailFrames,  \* frames kept after the last voiced one
  Patience,    \* silent frames that end an utterance
  MaxFrames,   \* frames of the longest utterance
  BargeIn,     \* voiced frames in a row that interrupt an answer
  MaxSent,     \* bound on the frames sent
  MaxTracks    \* bound on the microphone tracks

ASSUME TurnAssumption ==
  /\ {QueueRoom, Preroll, StartRun, MinVoiced, TailFrames, Patience, MaxFrames,
      BargeIn, MaxSent, MaxTracks} \subseteq Nat \ {0}
  /\ StartRun <= Preroll /\ StartRun <= MinVoiced
  /\ TailFrames <= Patience /\ Patience < MaxFrames /\ Preroll <= MaxFrames

VARIABLES
  queue, overflowed, event,  \* CheckedReceiveQueue: queue, failed, event
  receiver,                  \* where the receive task of the newest track stands
  taken,                     \* the frame it holds while it interrupts an answer
  detector,                  \* TurnDetector
  session,                   \* "up", or "failed" once fail() was called
  sent, track,               \* frames sent by the SDK, tracks subscribed so far
  alive,                     \* the track still sends
  heard,                     \* history: what was pushed into the detector
  ended,                     \* history: the last utterance that was cut
  lost                       \* history: the first frame the queue dropped, or 0

turnVars == <<queue, overflowed, event, receiver, taken, detector, session,
              sent, track, alive, heard, ended, lost>>

EndOfStream == [frame |-> 0, track |-> 0]
Nothing == EndOfStream
Smaller(a, b) == IF a <= b THEN a ELSE b
Newest(s, n) == SubSeq(s, (IF Len(s) > n THEN Len(s) - n ELSE 0) + 1, Len(s))

---------------------------------------------------------------------------
\* TurnDetector

Quiet(d) == [d EXCEPT !.frames = <<>>, !.preroll = <<>>, !.voicedCount = 0,
                      !.silence = 0, !.run = 0]

FreshDetector == [cursor |-> 0, preroll |-> <<>>, frames |-> <<>>, voicedCount |-> 0,
                  silence |-> 0, run |-> 0, first |-> 0, lastVoiced |-> 0, since |-> 0]

Clocked(d, voiced) ==
  [d EXCEPT !.cursor = @ + 1, !.run = IF voiced THEN @ + 1 ELSE 0]

\* A frame outside an utterance goes to the preroll; the run that starts an
\* utterance takes the preroll with it.
Waits(d, f) == [d EXCEPT !.preroll = Newest(Append(@, f), Preroll)]

Starts(d, f) ==
  LET all == Newest(Append(d.preroll, f), Preroll)
  IN  [d EXCEPT !.frames = all, !.first = d.cursor - Len(all), !.voicedCount = StartRun,
                !.preroll = <<>>, !.lastVoiced = d.cursor, !.silence = 0]

Continues(d, f, voiced) ==
  [d EXCEPT !.frames = Append(@, f),
            !.voicedCount = IF voiced THEN @ + 1 ELSE @,
            !.lastVoiced = IF voiced THEN d.cursor ELSE @,
            !.silence = IF voiced THEN 0 ELSE @ + 1]

Listens(d, f, voiced) ==
  LET c == Clocked(d, voiced)
  IN  IF d.frames # <<>> THEN Continues(c, f, voiced)
      ELSE IF c.run < StartRun THEN Waits(c, f) ELSE Starts(c, f)

IsEndpoint(d) ==
  d.frames # <<>> /\ (Len(d.frames) >= MaxFrames \/ d.silence >= Patience)

KeptFrames(d) == Smaller(Len(d.frames), d.lastVoiced - d.first + TailFrames)

Endpoint(d) ==
  [pcm |-> SubSeq(d.frames, 1, KeptFrames(d)), first |-> d.first,
   lastVoiced |-> d.lastVoiced, committed |-> d.cursor,
   valid |-> d.voicedCount >= MinVoiced, since |-> d.since]

\* push(): one frame into the detector, and the utterance it may complete.
DetectorPush(f, voiced) ==
  LET d == Listens(detector, f, voiced)
  IN  /\ heard' = Append(heard, [item |-> f, voiced |-> voiced])
      /\ detector' = IF IsEndpoint(d) THEN [Quiet(d) EXCEPT !.since = d.cursor] ELSE d
      /\ ended' = IF IsEndpoint(d) THEN Endpoint(d) ELSE ended

---------------------------------------------------------------------------
\* CheckedReceiveQueue.put, called by the SDK's task on the event loop

Queued(item) ==
  /\ ~overflowed /\ Len(queue) < QueueRoom
  /\ queue' = Append(queue, item) /\ event' = TRUE
  /\ UNCHANGED <<overflowed, lost>>

\* MUTANT: the overflow drops the oldest frame, as the SDK's own ring does.
Overflows_Evicting(item) ==
  /\ ~overflowed /\ Len(queue) >= QueueRoom
  /\ queue' = Append(Tail(queue), item) /\ event' = TRUE
  /\ lost' = IF lost = 0 THEN Head(queue).frame ELSE lost
  /\ UNCHANGED overflowed

Overflows(item) ==
  /\ ~overflowed /\ Len(queue) >= QueueRoom
  /\ overflowed' = TRUE /\ queue' = <<>> /\ event' = TRUE
  /\ lost' = Head(queue).frame

Dropped == overflowed /\ UNCHANGED <<queue, overflowed, event, lost>>

QueuePut(item) == Queued(item) \/ Overflows(item) \/ Dropped

\* The track sends its next frame.
FrameArrives ==
  /\ session = "up" /\ alive /\ sent < MaxSent
  /\ sent' = sent + 1
  /\ QueuePut([frame |-> sent + 1, track |-> track])
  /\ UNCHANGED <<receiver, taken, detector, session, track, alive, heard, ended>>

\* The stream ends without the track having been unpublished.
StreamEnds ==
  /\ session = "up" /\ alive
  /\ alive' = FALSE
  /\ QueuePut(EndOfStream)
  /\ UNCHANGED <<receiver, taken, detector, session, sent, track, heard, ended>>

---------------------------------------------------------------------------
\* Actor.receive

\* subscribed(): the task of an earlier track is cancelled, and a new stream
\* with an empty queue feeds the same detector.
TrackSubscribed ==
  /\ session = "up" /\ track < MaxTracks
  /\ track' = track + 1 /\ alive' = TRUE
  /\ queue' = <<>> /\ overflowed' = FALSE /\ event' = FALSE /\ lost' = 0
  /\ receiver' = "get" /\ taken' = Nothing
  /\ UNCHANGED <<detector, session, sent, heard, ended>>

\* fail('microphone_discontinuity') closes the session.
Discontinuity == session' = "failed" /\ receiver' = "none" /\ taken' = Nothing

MicrophoneUnpublished ==
  /\ session = "up" /\ track > 0
  /\ Discontinuity
  /\ UNCHANGED <<queue, overflowed, event, detector, sent, track, alive, heard, ended, lost>>

\* MUTANT: the loop of get() looks at the queue only.
GetWaits_Deaf ==
  /\ receiver = "get" /\ queue = <<>>
  /\ event' = FALSE /\ receiver' = "wait"
  /\ UNCHANGED <<queue, overflowed, taken, detector, session, sent, track, alive,
                 heard, ended, lost>>

\* get() finds nothing: it clears the event and waits for it.
GetWaits ==
  /\ receiver = "get" /\ ~overflowed /\ queue = <<>>
  /\ event' = FALSE /\ receiver' = "wait"
  /\ UNCHANGED <<queue, overflowed, taken, detector, session, sent, track, alive,
                 heard, ended, lost>>

GetWakes ==
  /\ receiver = "wait" /\ event
  /\ receiver' = "get"
  /\ UNCHANGED <<queue, overflowed, event, taken, detector, session, sent, track,
                 alive, heard, ended, lost>>

\* get() raises AudioDiscontinuity.
GetFails ==
  /\ receiver = "get" /\ overflowed
  /\ Discontinuity
  /\ UNCHANGED <<queue, overflowed, event, detector, sent, track, alive, heard, ended, lost>>

\* The loop ends although nobody unpublished the track.
StreamEnded ==
  /\ receiver = "get" /\ ~overflowed /\ queue # <<>> /\ Head(queue) = EndOfStream
  /\ queue' = Tail(queue)
  /\ Discontinuity
  /\ UNCHANGED <<overflowed, event, detector, sent, track, alive, heard, ended, lost>>

Takes ==
  /\ receiver = "get" /\ ~overflowed /\ queue # <<>> /\ Head(queue) # EndOfStream
  /\ queue' = Tail(queue)

\* voiced_run: the voiced frames in a row at the end of what was taken.
VoicedRun ==
  Cardinality({i \in 1..Len(heard) : \A j \in i..Len(heard) : heard[j].voiced})

\* A frame is taken and pushed.
Pushes(voiced) ==
  /\ Takes
  /\ DetectorPush(Head(queue), voiced)
  /\ UNCHANGED <<overflowed, event, receiver, taken, session, sent, track, alive, lost>>

\* The ninth voiced frame in a row interrupts an answer first; the frame waits
\* outside the detector while interrupt() runs and the queue fills.
BargesIn ==
  /\ Takes /\ VoicedRun + 1 = BargeIn
  /\ taken' = Head(queue)
  /\ receiver' = "interrupt"
  /\ UNCHANGED <<overflowed, event, detector, session, sent, track, alive, heard, ended, lost>>

InterruptReturns ==
  /\ receiver = "interrupt"
  /\ DetectorPush(taken, TRUE)
  /\ receiver' = "get" /\ taken' = Nothing
  /\ UNCHANGED <<queue, overflowed, event, session, sent, track, alive, lost>>

TurnInit ==
  /\ queue = <<>> /\ overflowed = FALSE /\ event = FALSE
  /\ receiver = "none" /\ taken = Nothing
  /\ detector = FreshDetector
  /\ session = "up" /\ sent = 0 /\ track = 0 /\ alive = FALSE
  /\ heard = <<>> /\ lost = 0
  /\ ended = [pcm |-> <<>>, first |-> 0, lastVoiced |-> 0, committed |-> 0,
              valid |-> FALSE, since |-> 0]

ReceiveStep ==
  \/ GetWaits \/ GetWakes \/ GetFails \/ StreamEnded
  \/ \E voiced \in BOOLEAN : Pushes(voiced)
  \/ BargesIn \/ InterruptReturns

TurnNext ==
  FrameArrives \/ StreamEnds \/ TrackSubscribed \/ MicrophoneUnpublished \/ ReceiveStep

\* receive() runs on the event loop, and interrupt() returns (Actor, QwenProvider).
TurnFairness == WF_turnVars(ReceiveStep)

TurnSpec == TurnInit /\ [][TurnNext]_turnVars /\ TurnFairness

---------------------------------------------------------------------------
\* Properties

Items(from, to) == [i \in 1..(to - from) |-> heard[from + i].item]
VoicedIn(from, to) == {i \in from..to : heard[i].voiced}

\* Where a run of StartRun voiced frames starts, after `from` and up to `to`.
RunsIn(from, to) ==
  {i \in (from + 1)..(to + 1 - StartRun) : VoicedIn(i, i + StartRun - 1) = i..(i + StartRun - 1)}

FirstOf(S) == CHOOSE i \in S : \A j \in S : i <= j

\* An utterance starts with its first run and as much before it as was kept,
\* never with sound of the utterance before it.
StartsAt(first, since, run) ==
  first = IF run + StartRun - 1 > since + Preroll THEN run + StartRun - 1 - Preroll ELSE since

\* Speech is never lost between utterances (conversation.py, push): outside one
\* there is no run that should have started it, the open one holds everything
\* since its start, and the one that was cut holds every voiced frame, its tail,
\* the frames in the order they were heard, and is passed on exactly if enough of
\* them were voiced.
SpeechIsKept ==
  /\ LET d == detector
         runs == RunsIn(d.since, d.cursor)
     IN  IF d.frames = <<>> THEN runs = {}
         ELSE /\ runs # {} /\ StartsAt(d.first, d.since, FirstOf(runs))
              /\ d.frames = Items(d.first, d.cursor)
  /\ ended.committed > 0 =>
       LET e == ended
           run == FirstOf(RunsIn(e.since, e.committed))
           end == e.first + Len(e.pcm)
       IN  /\ StartsAt(e.first, e.since, run)
           /\ e.pcm = Items(e.first, end)
           /\ VoicedIn(end + 1, e.committed) = {}
           /\ \/ e.committed - e.lastVoiced = Patience
              \/ e.committed - e.first = MaxFrames
           /\ end - e.lastVoiced >= Smaller(TailFrames, e.committed - e.lastVoiced)
           /\ e.valid <=> Cardinality(VoicedIn(run, e.committed)) >= MinVoiced

\* An overflow ends what the detector hears of that track: of one track it hears
\* a piece without a hole, and nothing from the first lost frame on
\* (CheckedReceiveQueue: "Overflow terminates the turn, never evicts silently").
NothingAfterGap ==
  \A i \in 1..Len(heard) :
    LET item == heard[i].item
    IN  /\ lost > 0 /\ item.track = track => item.frame < lost
        /\ i > 1 /\ heard[i - 1].item.track = item.track
             => item.frame = heard[i - 1].item.frame + 1

\* From the track to the utterance nothing is torn or dropped silently.
HearingIsExact == SpeechIsKept /\ NothingAfterGap

\* After an overflow the session fails, unless another track takes its place.
GapEndsSession == overflowed ~> (~overflowed \/ session = "failed")
=============================================================================
