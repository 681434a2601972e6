------------------------------ MODULE Receiver ------------------------------
(***************************************************************************)
(* A receiver of the qualification scripts, from the native queue of the   *)
(* SDK to the report: the native thread queues what the wire brings; the   *)
(* FFI callback observes a frame, may be made to stall once, and hands it  *)
(* to Python's loop; CheckedReceiveQueue; the reader; and the verdict.     *)
(*                                                                         *)
(* Four uses: "normal", "overflow" and "eviction" of                       *)
(* qualify_native_audio_queue.py, and "video" of                           *)
(* qualify_claire_session_worker.py.                                       *)
(***************************************************************************)
EXTENDS Integers, Sequences, FiniteSets, SequencesExt

CONSTANTS
  NativeRoom,   \* frames of the native queue
  PythonRoom,   \* frames of the checked queue
  WireFrames    \* bound: frames that are sent

ASSUME ReceiverAssumption == {NativeRoom, PythonRoom, WireFrames} \subseteq Nat \ {0}

VARIABLES
  use,        \* which script, and which of its modes
  wire,       \* the last frame that was sent
  native,     \* the native queue, its end, and what it reported to the log
  callback,   \* stall: "none", "armed", "over"; the event it holds; the kind of end it saw
  traced,     \* the frames the callback has seen; an identity that is not of this turn
  posted,     \* handed to the loop, and not yet put
  checked,    \* CheckedReceiveQueue: queue, failed, lost_frames; history: frames put, taken
  got,        \* the frames the reader has had
  reader,     \* "reading", "ended", "raised"
  verdict     \* "none", "passed", "failed"

receiverVars == <<use, wire, native, callback, traced, posted, checked, got, reader, verdict>>

Frame(n) == [kind |-> "frame", n |-> n]
Alien == [kind |-> "alien", n |-> 0]
TheEnd(why) == [kind |-> why, n |-> 0]
IsEnd(item) == item.kind \in {"overflow", "eos"}

FailClosed == use \in {"normal", "overflow"}
Stalls == use # "normal"

ReceiverInit ==
  /\ use \in {"normal", "overflow", "eviction", "video"}
  /\ wire = 0 /\ native = [queue |-> <<>>, open |-> TRUE, evictions |-> 0]
  /\ callback = [stall |-> IF Stalls THEN "armed" ELSE "none", held |-> <<>>, saw |-> "nothing"]
  /\ traced = [frames |-> <<>>, error |-> FALSE] /\ posted = <<>>
  /\ checked = [queue |-> <<>>, failed |-> FALSE, lost |-> 0, put |-> 0, taken |-> 0]
  /\ got = <<>> /\ reader = "reading" /\ verdict = "none"

-----------------------------------------------------------------------------
(* The native thread.  Without room an unchanged queue drops its oldest    *)
(* frame; the patched one closes the stream, and keeps or drops the rest.  *)

NativePut(item) ==
  \/ /\ Len(native.queue) < NativeRoom
     /\ native' = [native EXCEPT !.queue = Append(@, item)]
  \/ /\ Len(native.queue) >= NativeRoom /\ ~FailClosed
     /\ native' = [native EXCEPT !.queue = Append(Tail(@), item), !.evictions = @ + 1]
  \/ /\ Len(native.queue) >= NativeRoom /\ FailClosed
     /\ \E rest \in {native.queue, <<>>} :
          native' = [native EXCEPT !.queue = Append(rest, TheEnd("overflow")), !.open = FALSE]

Arrives ==
  /\ native.open /\ wire < WireFrames
  /\ \/ wire' = wire + 1 /\ NativePut(Frame(wire + 1))
     \/ use = "video" /\ wire' = wire + 1 /\ UNCHANGED native   \* skipped by the sender
     \/ use = "video" /\ wire' = wire + 1 /\ NativePut(Alien)          \* of another generation
  /\ UNCHANGED <<use, callback, traced, posted, checked, got, reader, verdict>>

\* The track ends, as when its publisher leaves.
Closes ==
  /\ native.open
  /\ native' = [native EXCEPT !.queue = Append(@, TheEnd("eos")), !.open = FALSE]
  /\ UNCHANGED <<use, wire, callback, traced, posted, checked, got, reader, verdict>>

-----------------------------------------------------------------------------
(* The FFI callback: whatever it observes, the event is handed on.         *)

Observed(item) ==
  IF use # "video" \/ IsEnd(item) THEN traced
  ELSE IF item = Alien \/ (traced.frames # <<>> /\ item.n <= Last(traced.frames))
       THEN [traced EXCEPT !.error = TRUE]
       ELSE [traced EXCEPT !.frames = Append(@, item.n)]

\* MUTANT: an observation that fails ends the callback.
CallbackReturns_OnError ==
  /\ callback.held = <<>> /\ native.queue # <<>>
  /\ LET item == Head(native.queue)
     IN /\ native' = [native EXCEPT !.queue = Tail(@)] /\ traced' = Observed(item)
        /\ callback' = [callback EXCEPT !.saw = IF IsEnd(item) THEN item.kind ELSE @, !.stall = "over"]
        /\ posted' = IF Len(traced'.frames) = 1 THEN posted ELSE Append(posted, item)
  /\ UNCHANGED <<use, wire, checked, got, reader, verdict>>

CallbackReturns ==
  /\ callback.held = <<>> /\ native.queue # <<>>
  /\ LET item == Head(native.queue)
         stalls == callback.stall = "armed" /\ item.kind = "frame"
     IN /\ native' = [native EXCEPT !.queue = Tail(@)] /\ traced' = Observed(item)
        /\ callback' = [stall |-> IF stalls THEN "over" ELSE callback.stall,
                        held |-> IF stalls THEN <<item>> ELSE <<>>,
                        saw |-> IF IsEnd(item) THEN item.kind ELSE callback.saw]
        /\ posted' = IF stalls THEN posted ELSE Append(posted, item)
  /\ UNCHANGED <<use, wire, checked, got, reader, verdict>>

StallEnds ==
  /\ callback.held # <<>>
  /\ posted' = Append(posted, callback.held[1]) /\ callback' = [callback EXCEPT !.held = <<>>]
  /\ UNCHANGED <<use, wire, native, traced, checked, got, reader, verdict>>

-----------------------------------------------------------------------------
(* The loop: the checked queue, which fails rather than lose a frame, and  *)
(* the reader, which checks the identity of each frame.                    *)

CheckedPut ==
  /\ posted # <<>> /\ posted' = Tail(posted)
  /\ LET item == Head(posted)
         frame == IF IsEnd(item) THEN 0 ELSE 1
     IN checked' = [CASE checked.failed -> [checked EXCEPT !.lost = @ + frame]
                      [] ~checked.failed /\ Len(checked.queue) >= PythonRoom ->
                           [checked EXCEPT !.lost = Len(checked.queue) + 1, !.failed = TRUE, !.queue = <<>>]
                      [] OTHER -> [checked EXCEPT !.queue = Append(@, item)]
                    EXCEPT !.put = checked.put + frame]
  /\ UNCHANGED <<use, wire, native, callback, traced, got, reader, verdict>>

Read ==
  /\ reader = "reading"
  /\ \/ checked.failed /\ reader' = "raised" /\ UNCHANGED <<checked, got>>
     \/ /\ ~checked.failed /\ checked.queue # <<>>
        /\ LET item == Head(checked.queue)
           IN /\ checked' = [checked EXCEPT !.queue = Tail(@), !.taken = @ + IF IsEnd(item) THEN 0 ELSE 1]
              /\ reader' = CASE IsEnd(item) -> "ended" [] item = Alien -> "raised" [] OTHER -> "reading"
              /\ got' = IF item.kind = "frame" THEN Append(got, item.n) ELSE got
  /\ UNCHANGED <<use, wire, native, callback, traced, posted, verdict>>

-----------------------------------------------------------------------------
(* The verdict: what the report requires of the run it has seen.           *)

AudioAccepted ==
  IF use = "overflow" THEN reader = "ended" /\ callback.stall = "over" /\ callback.saw = "overflow"
  ELSE /\ wire = WireFrames /\ reader = "reading" /\ (FailClosed => native.open)
       /\ use = "eviction" => callback.stall = "over" /\ native.evictions > 0

VideoAccepted ==
  /\ reader = "reading" /\ ~traced.error /\ got # <<>>
  /\ \A i, j \in DOMAIN got : i < j => got[i] < got[j]
  /\ Head(got) = 1 /\ Last(got) = WireFrames
  /\ ToSet(got) \subseteq ToSet(traced.frames) /\ ToSet(traced.frames) \subseteq 1..WireFrames

Accepted == IF use = "video" THEN VideoAccepted ELSE AudioAccepted

Judged ==
  /\ verdict = "none"
  /\ verdict' = IF Accepted THEN "passed" ELSE "failed"
  /\ UNCHANGED <<use, wire, native, callback, traced, posted, checked, got, reader>>

ReceiverNext ==
  \/ Arrives \/ Closes \/ CallbackReturns \/ StallEnds \/ CheckedPut \/ Read \/ Judged

-----------------------------------------------------------------------------
Frames(items) == SelectSeq(items, LAMBDA item : item.kind = "frame")
Numbers(items) == [i \in DOMAIN Frames(items) |-> Frames(items)[i].n]
Underway == Numbers(checked.queue) \o Numbers(posted) \o Numbers(callback.held)

\* Behind the callback nothing is lost in silence: what the reader had, and what is on its
\* way, is all the callback saw, in order, until the queue has failed; then its count of
\* lost frames is exact.  What a patched stream delivers has no gap.  So a report that
\* passes can blame every missing frame on what lies before the callback: of a video none
\* is missing behind it, of a bounded stream none at all before the overflow.
ReceiptIsExact ==
  /\ \A i, j \in DOMAIN (got \o Underway) : i < j => (got \o Underway)[i] < (got \o Underway)[j]
  /\ use = "video" /\ ~checked.failed /\ reader = "reading" => got \o Underway = traced.frames
  /\ FailClosed => \A i \in DOMAIN got : got[i] = i
  /\ checked.failed => checked.lost - (checked.put - checked.taken) \in {0, 1}
  /\ verdict = "passed" /\ use = "overflow" => Len(got) < wire
  /\ verdict = "passed" /\ use = "video" => \A n \in ToSet(traced.frames) : n \in ToSet(got)
=============================================================================
