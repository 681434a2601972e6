------------------------------ MODULE RawMedia ------------------------------
(***************************************************************************)
(* The publisher of the audio reference (transport.Media): two tracks of   *)
(* this process's own room per answer, as generate() of the response and   *)
(* interrupt(), close() and a revocation use it.                           *)
(*                                                                         *)
(* One event loop: an action is what a task does between two suspensions.  *)
(* There is no lock here, and no process: a call into the SDK that was     *)
(* made is carried out even if the task that awaits it is cancelled.       *)
(***************************************************************************)
EXTENDS Integers

CONSTANTS
  RawResp,      \* generate() of the current answer, with its publish()
  RawCtl,       \* interrupt() and close() of the actor
  RawStarts,    \* bound: answers
  RawEpochs,    \* bound: interrupts before the closing one
  RawFrames,    \* bound: frames of an answer
  SourceRoom,   \* frames the audio source queues
  RawFaults     \* bound: calls of the SDK that raise

ASSUME RawAssumption ==
  /\ RawResp # RawCtl /\ RawFaults \in Nat
  /\ {RawStarts, RawEpochs, RawFrames, SourceRoom} \subseteq Nat \ {0}

RawCaller == {RawResp, RawCtl}
RawAnswers == 1..RawStarts
RawTrack == RawAnswers \X {"audio", "video"}

VARIABLES
  rawEpoch,    \* of the actor
  rawFlags,    \* blocked, cancelled
  listed,      \* self.publications
  published,   \* the tracks that are in the room
  stray,       \* history: tracks whose publication was cancelled under way
  source,      \* the audio source: the answer it was made for (0: none), its queue
  played,      \* of each answer: how many frames were played
  late,        \* history: frames captured since the last fence, and not by an answer begun since
  rawPc, todo, \* of each caller: where it is suspended; what its cancel() has to unpublish
  answer,      \* the response: epoch, number, frames captured, the end was given, what follows cancel()
  ending,      \* the interrupt is that of close()
  completed,   \* history: what was true of an answer when it was announced as complete
  rawFaults

rawFlow == <<rawPc, todo, answer, ending>>
rawRoom == <<listed, published, stray>>
rawSound == <<source, played, late>>
rawVars == <<rawEpoch, rawFlags, rawRoom, rawSound, rawFlow, completed, rawFaults>>

NoSource == [of |-> 0, queue |-> 0]
NoAnswer(n) == [epoch |-> 0, n |-> n, sent |-> 0, whole |-> FALSE, after |-> "idle", doomed |-> FALSE]

RawInit ==
  /\ rawEpoch = 0 /\ rawFlags = [blocked |-> FALSE, cancelled |-> TRUE]
  /\ listed = {} /\ published = {} /\ stray = {}
  /\ source = NoSource /\ played = [n \in RawAnswers |-> 0] /\ late = 0
  /\ rawPc = [c \in RawCaller |-> IF c = RawCtl THEN "left" ELSE "idle"]
  /\ todo = [c \in RawCaller |-> {}]
  /\ answer = NoAnswer(0) /\ ending = "no" /\ completed = {} /\ rawFaults = 0

RawTo(c, where) == rawPc' = [rawPc EXCEPT ![c] = where]
RawFault == rawFaults < RawFaults /\ rawFaults' = rawFaults + 1

-----------------------------------------------------------------------------
(* fence(), and cancel(): one unpublish after the other, then the sources  *)
(* are closed.                                                             *)

RawFence(permanent) ==
  /\ rawFlags' = [blocked |-> rawFlags.blocked \/ permanent, cancelled |-> TRUE]
  /\ source' = [source EXCEPT !.queue = 0] /\ late' = 0

RawCancelOf(c) ==
  RawFence(FALSE) /\ todo' = [todo EXCEPT ![c] = listed] /\ RawTo(c, "unpublish")

\* Where a caller goes on after its cancel().  close() calls it twice: in its interrupt,
\* whose errors it ignores, and in close() of the publisher.
AfterCancel(c, ok) ==
  CASE c = RawResp -> IF answer.after = "begin" /\ ~ok THEN "raise" ELSE answer.after
    [] c = RawCtl /\ ending = "first" -> "again"
    [] c = RawCtl /\ ending = "second" -> IF ok THEN "disconnect" ELSE "abandoned"
    [] OTHER -> IF ok THEN "left" ELSE "idle"

Unpublish(c) ==
  /\ rawPc[c] = "unpublish"
  /\ \E t \in todo[c] \cap published :
       /\ published' = published \ {t}
       /\ todo' = [todo EXCEPT ![c] = @ \ {t}]
  /\ UNCHANGED <<rawEpoch, rawFlags, listed, stray, rawSound, rawPc, answer, ending, completed, rawFaults>>

\* A call that raises, as for a track that has left already, ends cancel() there.
UnpublishFails(c) ==
  /\ rawPc[c] = "unpublish" /\ todo[c] # {}
  /\ \/ RawFault
     \/ ~(todo[c] \subseteq published) /\ UNCHANGED rawFaults
  /\ todo' = [todo EXCEPT ![c] = {}]
  /\ RawTo(c, AfterCancel(c, FALSE))
  /\ UNCHANGED <<rawEpoch, rawFlags, rawRoom, rawSound, answer, ending, completed>>

SourcesClosed(c) ==
  /\ rawPc[c] = "unpublish" /\ todo[c] = {}
  /\ listed' = {} /\ source' = NoSource /\ RawTo(c, AfterCancel(c, TRUE))
  /\ UNCHANGED <<rawEpoch, rawFlags, published, stray, played, late, todo, answer, ending, completed, rawFaults>>

RawCancelStep(c) == Unpublish(c) \/ UnpublishFails(c) \/ SourcesClosed(c)

-----------------------------------------------------------------------------
(* The response: start(), then submit() again and again.  Waits: those of  *)
(* its cancel(), "audio" and "video" (for a publication), "speak" (for the *)
(* next piece of speech), "capture" (room in the source), "playout".       *)

RawSteady == UNCHANGED <<rawEpoch, ending>>

\* An error is followed by a cancel() while the epoch is current.
RawFalls ==
  \/ /\ answer.epoch = rawEpoch /\ RawCancelOf(RawResp)
     /\ answer' = [answer EXCEPT !.after = "idle"]
  \/ /\ answer.epoch # rawEpoch /\ RawTo(RawResp, "idle")
     /\ UNCHANGED <<rawFlags, source, late, todo, answer>>

RawRaises ==
  /\ rawPc[RawResp] = "raise" /\ ~answer.doomed /\ RawFalls
  /\ RawSteady /\ UNCHANGED <<rawRoom, played, completed, rawFaults>>

RawAnswer ==
  /\ rawPc[RawResp] = "idle" /\ rawPc[RawCtl] = "left" /\ ending = "no" /\ answer.n < RawStarts
  /\ rawPc' = [rawPc EXCEPT ![RawResp] = "unpublish", ![RawCtl] = "idle"]
  /\ answer' = [NoAnswer(answer.n + 1) EXCEPT !.epoch = rawEpoch, !.after = "begin"]
  /\ RawFence(FALSE) /\ todo' = [todo EXCEPT ![RawResp] = listed]
  /\ RawSteady /\ UNCHANGED <<rawRoom, played, completed, rawFaults>>

RawBegin ==
  /\ rawPc[RawResp] = "begin" /\ ~answer.doomed
  /\ \/ rawFlags.blocked /\ RawFalls
     \/ /\ ~rawFlags.blocked
        /\ rawFlags' = [rawFlags EXCEPT !.cancelled = FALSE]
        /\ source' = [of |-> answer.n, queue |-> 0] /\ late' = 0
        /\ RawTo(RawResp, "audio") /\ UNCHANGED <<todo, answer>>
  /\ RawSteady /\ UNCHANGED <<rawRoom, played, completed, rawFaults>>

\* A track is in the room and on the list; a revocation since then is seen here.
RawPublish(kind) ==
  /\ rawPc[RawResp] = kind /\ ~answer.doomed
  /\ \/ /\ RawFault /\ RawFalls /\ UNCHANGED <<listed, published>>
     \/ /\ listed' = listed \cup {<<answer.n, kind>>}
        /\ published' = published \cup {<<answer.n, kind>>}
        /\ \/ /\ rawFlags.blocked /\ RawFence(FALSE) /\ RawTo(RawResp, "unpublish")
              /\ todo' = [todo EXCEPT ![RawResp] = listed']
              /\ answer' = [answer EXCEPT !.after = "raise"]
           \/ /\ ~rawFlags.blocked
              /\ RawTo(RawResp, IF kind = "audio" THEN "video" ELSE "speak")
              /\ UNCHANGED <<rawFlags, source, late, todo, answer>>
        /\ UNCHANGED rawFaults
  /\ RawSteady /\ UNCHANGED <<stray, played, completed>>

\* publish() hands over nothing once the epoch has moved, and submit() is refused after
\* a fence; _pcm() looks again before each frame.
RawStale == rawFlags.cancelled

RawSubmit ==
  /\ rawPc[RawResp] = "speak" /\ ~answer.doomed
  /\ \/ (RawStale \/ answer.epoch # rawEpoch) /\ RawTo(RawResp, "quit") /\ UNCHANGED answer
     \/ /\ ~RawStale /\ answer.epoch = rawEpoch /\ answer.sent < RawFrames
        /\ RawTo(RawResp, "capture") /\ UNCHANGED answer
     \/ /\ ~RawStale /\ answer.epoch = rawEpoch /\ answer.sent > 0 /\ RawTo(RawResp, "playout")
        /\ answer' = [answer EXCEPT !.whole = TRUE]
  /\ RawSteady /\ UNCHANGED <<rawFlags, rawRoom, rawSound, todo, completed, rawFaults>>

\* The source has room for the frame that was waiting, or raises.
Capture ==
  /\ rawPc[RawResp] = "capture" /\ ~answer.doomed
  /\ \/ /\ source.queue < SourceRoom /\ source.of = answer.n
        /\ source' = [source EXCEPT !.queue = @ + 1]
        /\ late' = IF RawStale THEN late + 1 ELSE late
        /\ answer' = [answer EXCEPT !.sent = @ + 1]
        /\ RawTo(RawResp, IF RawStale THEN "quit" ELSE "speak")
        /\ UNCHANGED <<rawFlags, todo, rawFaults>>
     \/ RawFault /\ RawFalls
  /\ RawSteady /\ UNCHANGED <<rawRoom, played, completed>>

\* MUTANT: the end is announced whatever the epoch is by now.
Announced_AnyEpoch ==
  completed' = completed \cup {[whole |-> answer.whole, heard |-> played[answer.n] = answer.sent]}

\* The answer is announced as complete while its epoch is current.
Announced ==
  completed' = IF answer.epoch # rawEpoch THEN completed
               ELSE completed \cup {[whole |-> answer.whole, heard |-> played[answer.n] = answer.sent]}

PlayedOut ==
  /\ rawPc[RawResp] = "playout" /\ source.queue = 0 /\ ~answer.doomed
  /\ \/ ~RawStale /\ RawTo(RawResp, "idle") /\ Announced
     \/ RawStale /\ RawTo(RawResp, "quit") /\ UNCHANGED completed
  /\ RawSteady /\ UNCHANGED <<rawFlags, rawRoom, rawSound, todo, answer, rawFaults>>

\* Publication has stopped early; speech ends, or runs into its own limit.
RawQuits ==
  /\ rawPc[RawResp] = "quit" /\ ~answer.doomed
  /\ \/ /\ RawTo(RawResp, "idle") /\ Announced
        /\ UNCHANGED <<rawFlags, source, late, todo, answer>>
     \/ RawFalls /\ UNCHANGED completed
  /\ RawSteady /\ UNCHANGED <<rawRoom, played, rawFaults>>

\* Cancelled where it waits: what the SDK was asked for is done all the same.
RawDoomed ==
  /\ answer.doomed /\ rawPc[RawResp] # "idle"
  /\ RawTo(RawResp, "idle") /\ todo' = [todo EXCEPT ![RawResp] = {}]
  /\ answer' = [answer EXCEPT !.doomed = FALSE]
  /\ LET kind == rawPc[RawResp]
     IN \/ /\ kind \in {"audio", "video"}
           /\ published' = published \cup {<<answer.n, kind>>}
           /\ stray' = stray \cup {<<answer.n, kind>>}
           /\ UNCHANGED <<listed, source, late>>
        \/ /\ kind = "unpublish"
           /\ \/ UNCHANGED published
              \/ \E t \in todo[RawResp] : published' = published \ {t}
           /\ UNCHANGED <<listed, stray, source, late>>
        \/ /\ kind = "capture"
           /\ source' = [source EXCEPT !.queue = IF @ < SourceRoom THEN @ + 1 ELSE @]
           /\ late' = late + 1 /\ UNCHANGED rawRoom
        \/ kind \notin {"audio", "video", "unpublish", "capture"} /\ UNCHANGED <<rawRoom, source, late>>
  /\ RawSteady /\ UNCHANGED <<rawFlags, played, completed, rawFaults>>

\* The room plays the next frame.
RoomPlays ==
  /\ source.queue > 0
  /\ source' = [source EXCEPT !.queue = @ - 1]
  /\ played' = [played EXCEPT ![source.of] = @ + 1]
  /\ UNCHANGED <<rawEpoch, rawFlags, rawRoom, late, rawFlow, completed, rawFaults>>

-----------------------------------------------------------------------------
(* interrupt() and close() of the actor; a revocation, from outside.       *)

RawInterrupt ==
  /\ rawPc[RawCtl] \in {"idle", "left"}
  /\ \/ rawEpoch < RawEpochs /\ UNCHANGED ending
     \/ ending' = "first"
  /\ rawEpoch' = rawEpoch + 1 /\ RawFence(FALSE) /\ RawTo(RawCtl, "gather")
  /\ UNCHANGED <<rawRoom, played, todo, answer, completed, rawFaults>>

RawClose ==
  /\ rawPc[RawCtl] = "again" /\ ending' = "second" /\ RawCancelOf(RawCtl)
  /\ UNCHANGED <<rawEpoch, rawRoom, played, answer, completed, rawFaults>>

\* tts.cancel() has returned: the response is cancelled, and waited for.
RawCancels ==
  /\ rawPc[RawCtl] = "gather" /\ rawPc[RawResp] # "idle" /\ ~answer.doomed
  /\ answer' = [answer EXCEPT !.doomed = TRUE]
  /\ UNCHANGED <<rawEpoch, rawFlags, rawRoom, rawSound, rawPc, todo, ending, completed, rawFaults>>

RawGathered ==
  /\ rawPc[RawCtl] = "gather" /\ rawPc[RawResp] = "idle"
  /\ RawCancelOf(RawCtl)
  /\ UNCHANGED <<rawEpoch, rawRoom, played, answer, ending, completed, rawFaults>>

\* close() leaves the room: nothing of this publisher is in it any more.
Disconnect ==
  /\ rawPc[RawCtl] = "disconnect"
  /\ published' = {} /\ RawTo(RawCtl, "gone")
  /\ UNCHANGED <<rawEpoch, rawFlags, listed, stray, rawSound, todo, answer, ending, completed, rawFaults>>

RawRevoke ==
  /\ ~rawFlags.blocked /\ RawFence(TRUE)
  /\ UNCHANGED <<rawEpoch, rawRoom, played, rawFlow, completed, rawFaults>>

RawNext ==
  \/ RawAnswer \/ RawBegin \/ RawPublish("audio") \/ RawPublish("video") \/ RawSubmit \/ Capture
  \/ PlayedOut \/ RawQuits \/ RawDoomed \/ RoomPlays
  \/ RawRaises \/ RawInterrupt \/ RawClose \/ RawCancels \/ RawGathered \/ Disconnect \/ RawRevoke
  \/ ~answer.doomed /\ RawCancelStep(RawResp)
  \/ RawCancelStep(RawCtl)

RawSpec == RawInit /\ [][RawNext]_rawVars

-----------------------------------------------------------------------------
\* A fence holds although there is no lock: after it at most the one frame that was
\* waiting for room reaches the source.  An answer that is announced as complete was
\* given whole and played to its end, unless the asset has been revoked.  A track in the
\* room is on the list of what the next cancel() takes away, unless its publication was
\* itself cancelled; when a cancel() has come to its end, only such tracks are left, and
\* no source; and when close() could leave the room, none is.
RawFenceHolds ==
  /\ late <= 1
  /\ \A end \in completed : (end.whole /\ end.heard) \/ rawFlags.blocked
  /\ published \subseteq listed \cup stray
  /\ rawPc[RawCtl] \in {"left", "disconnect"} => published \subseteq stray /\ source = NoSource
  /\ rawPc[RawCtl] = "gone" => published = {} /\ source = NoSource
=============================================================================
