------------------------------- MODULE Browser -------------------------------
(***************************************************************************)
(* The page of one conversation: the playback gate, the media elements,    *)
(* the phases of connect() and the ways it is stopped, and the queue of    *)
(* controls, against a session whose events (in order), tracks and HTTP    *)
(* answers reach it independently of each other.                           *)
(*                                                                         *)
(* An epoch names the tracks of its answer: the session publishes one       *)
(* audio and one video track for an answer and binds them together, and    *)
(* the gate decides for both; the element modelled is the audible one.     *)
(***************************************************************************)
EXTENDS Integers, Sequences, SequencesExt, FiniteSets

CONSTANTS
  MaxEpoch,     \* bound: epochs of the session
  MaxControls,  \* bound: controls the user starts
  MaxFaults     \* bound: failures of a connection or a request

Epoch == 1..MaxEpoch

ASSUME BrowserAssumption ==
  /\ MaxEpoch \in Nat \ {0} /\ {MaxControls, MaxFaults} \subseteq Nat

VARIABLES
  server,    \* epoch, stage of its answer, and whether the session is closed
  log,       \* the events of the session that the page has not handled
  published, \* epochs whose tracks are in the room
  gate,      \* epoch, binding (0 is null) and minimumResumeEpoch
  known, wanted, tracks, \* publications seen, subscribed to, and received
  playing,   \* epoch of the track on the audio element, 0 for none
  phase,     \* where connect() stands
  session, active, stopping, recovery,
  mic, sse, room, teardown,
  controls,  \* the chain of controls, its head may be on the wire
  issued, faults,
  floor, newest   \* history: gate epoch at the last barge-in, newest epoch heard

linkVars == <<session, mic, sse, room, teardown>>
flagVars == <<active, stopping, recovery>>
mediaVars == <<playing, newest>>
roomVars == <<known, wanted, tracks>>
ctlVars == <<controls, issued>>
vars == <<server, log, published, gate, roomVars, mediaVars, phase, linkVars,
          flagVars, ctlVars, faults, floor>>

Init ==
  /\ server = [epoch |-> 0, stage |-> "idle", closed |-> FALSE]
  /\ log = <<>> /\ published = {}
  /\ gate = [epoch |-> 0, binding |-> 0, min |-> 0]
  /\ known = {} /\ wanted = {} /\ tracks = {}
  /\ playing = 0 /\ newest = 0
  /\ phase = "create"
  /\ session = FALSE /\ active = FALSE /\ stopping = FALSE /\ recovery = FALSE
  /\ mic = "none" /\ sse = "none" /\ room = "new" /\ teardown = "no"
  /\ controls = <<>> /\ issued = 0 /\ faults = 0 /\ floor = 0

-----------------------------------------------------------------------------
(* PlaybackGate. *)

Larger(a, b) == IF a >= b THEN a ELSE b

Advance(g, e) ==
  IF e < g.epoch THEN g
  ELSE [g EXCEPT !.binding = IF e > g.epoch THEN 0 ELSE @, !.epoch = e]

\* MUTANT: blocked until the next binding, not until a newer epoch
BlockForgetsEpoch(g) == [g EXCEPT !.binding = 0]

Block(g) == [g EXCEPT !.binding = 0, !.min = Larger(@, g.epoch + 1)]

CancelTo(g, e) == [Advance(g, e) EXCEPT !.binding = 0, !.min = Larger(@, e)]

Binds(g, e) == e >= g.min /\ e >= g.epoch

Bind(g, e) == [Advance(g, e) EXCEPT !.binding = e]

Accepted(g) == {g.binding} \ {0}

-----------------------------------------------------------------------------
(* attach() puts a received and accepted track on the element; detach()    *)
(* clears it.                                                              *)

Attach(g, sids) ==
  /\ playing' = IF sids \cap Accepted(g) # {} THEN g.binding ELSE playing
  /\ newest' = Larger(newest, playing')

\* MUTANT: only the picture is detached
DetachLeavesAudio == UNCHANGED mediaVars

Detach == playing' = 0 /\ UNCHANGED newest

UpdateSubscriptions(g) == wanted' = known \cap Accepted(g)

Released == IF mic = "on" THEN "off" ELSE mic

(* requireReconnect(): an error of the connection, once, then stop(). *)
StopSync ==
  /\ stopping' = TRUE /\ active' = FALSE
  /\ gate' = Block(gate) /\ Detach
  /\ mic' = Released /\ sse' = "closed" /\ log' = <<>>
  /\ teardown' = "closing"

RequireReconnect ==
  IF recovery \/ stopping
    THEN UNCHANGED <<recovery, stopping, active, gate, mediaVars, mic, sse, teardown, log>>
    ELSE recovery' = TRUE /\ StopSync

-----------------------------------------------------------------------------
(* The session: its epochs, its tracks and its events. *)

Event(kind, e) == [kind |-> kind, epoch |-> e]

\* The stream replays what it has not delivered; one that the page has
\* closed delivers nothing any more.
Say(kind, e) == log' = IF sse = "closed" THEN <<>> ELSE Append(log, Event(kind, e))
pageVars == <<gate, roomVars, mediaVars, phase, linkVars, flagVars, floor>>

\* A turn starts or is interrupted: the epoch moves, and its event is
\* logged before anything else of the new epoch.
NextEpoch(stage) ==
  /\ ~server.closed /\ server.epoch < MaxEpoch
  /\ server' = [server EXCEPT !.epoch = @ + 1, !.stage = stage]
  /\ Say("interrupted", server.epoch + 1)

\* interrupt() holds generation_lock until its cancellations are over; the
\* endpoint of a control reads the epoch for its answer as it is released.
Held == controls # <<>> /\ Head(controls).st = "served"

VoiceTurn ==
  /\ mic # "none" /\ ~Held
  /\ \E stage \in {"preparing", "idle"} : NextEpoch(stage)
  /\ UNCHANGED <<published, pageVars, ctlVars, faults>>

PublishAnswer ==
  /\ server.stage = "preparing" /\ ~Held
  /\ published' = published \cup {server.epoch}
  /\ server' = [server EXCEPT !.stage = "published"]
  /\ UNCHANGED <<log, pageVars, ctlVars, faults>>

BindAnswer ==
  /\ server.stage = "published"
  /\ server' = [server EXCEPT !.stage = "bound"]
  /\ Say("playback_binding", server.epoch)
  /\ UNCHANGED <<published, pageVars, ctlVars, faults>>

FailAnswer ==
  /\ server.stage # "idle" /\ ~Held /\ faults < MaxFaults
  /\ server' = [server EXCEPT !.stage = "idle"]
  /\ Say("error", server.epoch)
  /\ faults' = faults + 1
  /\ UNCHANGED <<published, pageVars, ctlVars>>

\* The media of an epoch that is over are cancelled: its tracks go.
RetireTracks ==
  \E e \in published :
    /\ e < server.epoch \/ server.stage = "idle"
    /\ published' = published \ {e}
    /\ UNCHANGED <<server, log, pageVars, ctlVars, faults>>

\* close() interrupts first, so that its event is of an epoch of its own.
CloseSession ==
  /\ session /\ ~server.closed /\ ~Held /\ faults < MaxFaults
  /\ server' = [epoch |-> server.epoch + 1, stage |-> "idle", closed |-> TRUE]
  /\ \E kind \in {"closed", "revoked"} :
       log' = IF sse = "closed" THEN <<>>
              ELSE log \o <<Event("interrupted", server'.epoch), Event(kind, server'.epoch)>>
  /\ faults' = faults + 1
  /\ UNCHANGED <<published, pageVars, ctlVars>>

-----------------------------------------------------------------------------
(* connect(): one action per await.  A rejected await goes through the      *)
(* catch of the page, which calls stop().                                   *)

sessionVars == <<server, log, published>>
servedVars == <<server, published>>

Abort ==
  /\ StopSync /\ phase' = "ended"
  /\ UNCHANGED <<roomVars, room, recovery>>

Fails == faults < MaxFaults /\ faults' = faults + 1
Works == UNCHANGED faults

Goes(to) == phase' = to /\ UNCHANGED <<log, roomVars, mediaVars, flagVars>>

Created ==
  /\ phase = "create"
  /\ \/ /\ session' = TRUE /\ Works
        /\ IF stopping THEN Abort
           ELSE Goes("poll") /\ UNCHANGED <<gate, mic, sse, room, teardown>>
     \/ Fails /\ Abort /\ UNCHANGED session
  /\ UNCHANGED <<servedVars, ctlVars, floor>>

Polled ==
  /\ phase = "poll"
  /\ \/ /\ ~server.closed /\ Works /\ Goes("grant")
        /\ UNCHANGED <<gate, mic, sse, room, teardown>>
     \/ stopping /\ Works /\ Abort
     \/ server.closed /\ Works /\ Abort
     \/ Fails /\ Abort
  /\ UNCHANGED <<servedVars, session, ctlVars, floor>>

Granted ==
  /\ phase = "grant"
  /\ \/ /\ ~server.closed /\ ~stopping /\ Works /\ Goes("join")
        /\ gate' = Advance(gate, server.epoch)
        /\ sse' = "open" /\ room' = "connecting"
        /\ UNCHANGED <<mic, teardown>>
     \/ stopping /\ Works /\ Abort
     \/ server.closed /\ Works /\ Abort
     \/ Fails /\ Abort
  /\ UNCHANGED <<servedVars, session, ctlVars, floor>>

\* room.connect(): a room that was disconnected meanwhile rejects it; one
\* that was not makes the conversation active, stopping or not.
Joined ==
  /\ phase = "join"
  /\ \/ /\ room = "connecting" /\ Works
        /\ room' = "connected" /\ active' = TRUE /\ phase' = "unlock"
        /\ UNCHANGED <<log, gate, roomVars, mediaVars, stopping, recovery, mic, sse, teardown>>
     \/ room = "closed" /\ Works /\ Abort
     \/ room = "connecting" /\ Fails /\ Abort
  /\ UNCHANGED <<servedVars, session, ctlVars, floor>>

\* enableAudio() catches its failures; start() goes on to the microphone,
\* startTyped() has finished.
Unlocked ==
  /\ phase = "unlock"
  /\ \E to \in {"microphone", "up"} : Goes(to)
  /\ UNCHANGED <<servedVars, gate, linkVars, ctlVars, faults, floor>>

\* createLocalAudioTrack(): the microphone is live from here.
Captured ==
  /\ phase = "microphone"
  /\ \/ /\ mic' = "on" /\ Works /\ Goes("publish")
        /\ UNCHANGED <<gate, sse, room, teardown>>
     \/ Fails /\ Abort
  /\ UNCHANGED <<servedVars, session, ctlVars, floor>>

Published ==
  /\ phase = "publish"
  /\ \/ /\ room = "connected" /\ Works /\ Goes("up")
        /\ UNCHANGED <<gate, mic, sse, room, teardown>>
     \/ room = "closed" /\ Works /\ Abort
     \/ Fails /\ Abort
  /\ UNCHANGED <<servedVars, session, ctlVars, floor>>

Connecting == \/ Created \/ Polled \/ Granted \/ Joined \/ Unlocked \/ Captured \/ Published

-----------------------------------------------------------------------------
(* onEvent(): after requireReconnect() the stream is closed, so that        *)
(* recoveryRequired holds for no event that is delivered.                   *)

Taken == log' = Tail(log)
Drop == UNCHANGED <<gate, roomVars, mediaVars, flagVars, mic, sse, teardown>>

HandleEvent ==
  /\ sse = "open" /\ log # <<>>
  /\ LET e == Head(log).epoch
         kind == Head(log).kind
     IN \/ kind = "revoked" /\ RequireReconnect /\ UNCHANGED roomVars
        \/ kind # "revoked" /\ e < gate.epoch /\ Taken /\ Drop
        \/ /\ kind \in {"interrupted", "error", "closed"} /\ e >= gate.epoch
           /\ gate' = CancelTo(gate, e) /\ Detach
           /\ UpdateSubscriptions(gate') /\ UNCHANGED <<known, tracks, recovery>>
           /\ IF kind # "closed" THEN Taken /\ UNCHANGED <<active, stopping, mic, sse, teardown>>
              ELSE /\ active' = FALSE /\ stopping' = TRUE /\ mic' = Released
                   /\ sse' = "closed" /\ log' = <<>> /\ teardown' = "closing"
        \/ /\ kind = "playback_binding" /\ e >= gate.epoch /\ Taken
           /\ UNCHANGED <<known, tracks, flagVars, mic, sse, teardown>>
           /\ IF ~Binds(gate, e)
                THEN gate' = Advance(gate, e) /\ UNCHANGED <<wanted, mediaVars>>
                ELSE /\ gate' = Bind(gate, e) /\ UpdateSubscriptions(gate')
                     /\ Attach(gate', tracks \cap {e})
  /\ UNCHANGED <<server, published, phase, session, room, ctlVars, faults, floor>>

-----------------------------------------------------------------------------
(* Handlers of the room. *)

roomFrame == <<sessionVars, phase, linkVars, flagVars, ctlVars, faults, floor>>

TrackPublished ==
  /\ room = "connected"
  /\ \E t \in published \ known :
       /\ known' = known \cup {t}
       /\ wanted' = IF t \in Accepted(gate) THEN wanted \cup {t} ELSE wanted \ {t}
  /\ UNCHANGED <<tracks, gate, mediaVars, roomFrame>>

\* MUTANT: a track that arrives after its binding is not attached
SubscribedIsKept ==
  /\ room = "connected"
  /\ \E t \in (wanted \cap published) \ tracks : tracks' = tracks \cup {t}
  /\ UNCHANGED <<known, wanted, gate, mediaVars, roomFrame>>

TrackSubscribed ==
  /\ room = "connected"
  /\ \E t \in (wanted \cap published) \ tracks :
       /\ tracks' = tracks \cup {t}
       /\ Attach(gate, {t})
  /\ UNCHANGED <<known, wanted, gate, roomFrame>>

TrackUnsubscribed ==
  /\ room = "connected"
  /\ \E t \in tracks \ (wanted \cap published) :
       /\ tracks' = tracks \ {t}
       /\ playing' = IF t = playing THEN 0 ELSE playing
  /\ UNCHANGED <<known, wanted, gate, newest, roomFrame>>

TrackUnpublished ==
  /\ \E t \in known \ (published \cup tracks) :
       known' = known \ {t} /\ wanted' = wanted \ {t}
  /\ UNCHANGED <<tracks, gate, mediaVars, roomFrame>>

Leave == room' = "closed" /\ known' = {} /\ wanted' = {} /\ tracks' = {}

\* The connection of the room is lost for good.
Disconnected ==
  /\ room = "connected" /\ ~stopping /\ Fails
  /\ Leave
  /\ gate' = Block(gate) /\ Detach /\ mic' = Released
  /\ active' = FALSE
  /\ UNCHANGED <<sessionVars, phase, session, sse, teardown, stopping, recovery, ctlVars, floor>>

\* Reconnecting, offline, or an error of the event stream.
ConnectionTrouble ==
  /\ ~stopping /\ Fails
  /\ RequireReconnect
  /\ UNCHANGED <<servedVars, roomVars, phase, session, room, ctlVars, floor>>

-----------------------------------------------------------------------------
(* control(), end and stop(). *)

\* The chain of promises: an operation starts as soon as the one before it
\* has settled, and reads the expected epoch then; once the conversation is
\* not active it returns at once.
Chained(queue, g, live) ==
  IF queue = <<>> THEN queue
  ELSE IF ~live THEN <<>>
  ELSE [queue EXCEPT ![1] = [@ EXCEPT !.st = "sent", !.epoch = g.epoch]]

Control ==
  /\ phase = "up" /\ session /\ active /\ issued < MaxControls
  /\ gate' = Block(gate) /\ Detach
  /\ floor' = Larger(floor, gate.epoch)
  /\ \E kind \in {"interrupt", "text"} :
       LET c == [kind |-> kind, st |-> "queued", epoch |-> 0]
       IN  controls' = IF controls = <<>> THEN Chained(<<c>>, gate', TRUE) ELSE Append(controls, c)
  /\ issued' = issued + 1
  /\ UNCHANGED <<sessionVars, roomVars, phase, linkVars, flagVars, faults>>

HeadBecomes(st, e) ==
  controls' = [controls EXCEPT ![1].st = st, ![1].epoch = e]

ServeControl ==
  /\ controls # <<>> /\ controls[1].st = "sent"
  /\ IF server.closed \/ controls[1].epoch # server.epoch
       THEN HeadBecomes("refused", 0) /\ UNCHANGED <<server, log>>
       ELSE /\ NextEpoch(IF controls[1].kind = "text" THEN "preparing" ELSE "idle")
            /\ HeadBecomes("served", server'.epoch)
  /\ UNCHANGED <<published, pageVars, issued, faults>>

AnswerControl ==
  /\ controls # <<>> /\ controls[1].st = "served"
  /\ HeadBecomes("answered", controls[1].epoch)
  /\ UNCHANGED <<sessionVars, pageVars, issued, faults>>

ControlAnswered ==
  /\ controls # <<>> /\ controls[1].st = "answered"
  /\ gate' = Advance(gate, controls[1].epoch)
  /\ controls' = Chained(Tail(controls), gate', active)
  /\ UNCHANGED <<sessionVars, roomVars, mediaVars, phase, linkVars, flagVars, issued, faults, floor>>

\* An error answer, or a request or an answer that is lost.
ControlFailed ==
  /\ controls # <<>>
  /\ \/ controls[1].st = "refused" /\ Works
     \/ controls[1].st \in {"sent", "served"} /\ Fails
  /\ controls' = Chained(Tail(controls), gate, active)
  /\ UNCHANGED <<sessionVars, pageVars, issued>>

UserEnds ==
  /\ ~stopping /\ StopSync
  /\ UNCHANGED <<servedVars, roomVars, phase, session, room, recovery, ctlVars, faults, floor>>

\* The rest of stop(): the close request, whose failure is ignored, and
\* room.disconnect() with its handler; of 'closed' only the latter matters.
TearDown ==
  /\ teardown = "closing" /\ teardown' = "over"
  /\ server' = IF session THEN [server EXCEPT !.closed = TRUE, !.stage = "idle"] ELSE server
  /\ IF room \in {"connecting", "connected"} THEN Leave ELSE UNCHANGED <<room, roomVars>>
  /\ gate' = Block(gate) /\ Detach
  /\ mic' = IF room = "connected" THEN Released ELSE mic
  /\ UNCHANGED <<log, published, phase, session, sse, flagVars, ctlVars, faults, floor>>

-----------------------------------------------------------------------------

Session == VoiceTurn \/ PublishAnswer \/ BindAnswer \/ FailAnswer \/ RetireTracks \/ CloseSession
Room == TrackPublished \/ TrackSubscribed \/ TrackUnsubscribed \/ TrackUnpublished
Request == ServeControl \/ AnswerControl \/ ControlAnswered \/ ControlFailed
Trouble == Disconnected \/ ConnectionTrouble

Next == Session \/ Connecting \/ HandleEvent \/ Room \/ Trouble
          \/ Control \/ Request \/ UserEnds \/ TearDown

Spec == Init /\ [][Next]_vars

\* The browser's event loop does not rest while an answer, an event or a
\* track is due.
Due == Connecting \/ HandleEvent \/ Room \/ Request \/ TearDown
FairSpec == Spec /\ WF_vars(Due)

-----------------------------------------------------------------------------
(* Properties. *)

(* Types; the element plays a track the room still delivers, a binding is  *)
(* always of the gate's own epoch, and only one control is on the wire.    *)
TypeOK ==
  /\ server \in [epoch : 0..MaxEpoch + 1, stage : {"idle", "preparing", "published", "bound"},
                 closed : BOOLEAN]
  /\ published \subseteq Epoch /\ tracks \subseteq known /\ known \subseteq Epoch
  /\ wanted \subseteq known
  /\ gate \in [epoch : 0..MaxEpoch + 1, binding : {0, gate.epoch}, min : 0..MaxEpoch + 2]
  /\ playing # 0 => playing \in tracks
  /\ {session, active, stopping, recovery} \subseteq BOOLEAN
  /\ mic \in {"none", "on", "off"} /\ sse \in {"none", "open", "closed"}
  /\ room \in {"new", "connecting", "connected", "closed"}
  /\ \A i \in DOMAIN controls : (controls[i].st = "queued") <=> (i > 1)

(* What is audible is what the gate authorizes, but for the time between   *)
(* the answer of a control and the event it logged: that event is then     *)
(* still to come on an open stream.                                        *)
AudibleIsAuthorized ==
  /\ TypeOK
  /\ playing # 0 =>
       \/ gate.binding = playing
       \/ /\ playing < gate.epoch /\ sse = "open"
          /\ \E i \in DOMAIN log : log[i].kind = "interrupted" /\ log[i].epoch > playing

(* The listener's promise: answers only get newer, none that was known at  *)
(* a barge-in is heard after it, nothing is heard after the end.           *)
Promise == INSTANCE ListenerPromise WITH heard <- playing, over <- stopping
PromiseSpec == Promise!Spec

(* An answer that the session has bound and that nothing supersedes is     *)
(* heard, in whatever order its event and its tracks arrive.               *)
Offered ==
  /\ server.stage = "bound" /\ playing # server.epoch
  /\ ~stopping /\ sse = "open" /\ room = "connected" /\ gate.min <= server.epoch
AnswerIsHeard == Offered ~> ~Offered

(* Besides, an answer that the session has given up goes silent, and a     *)
(* page that stops gives the microphone back, also when it stopped half way through  *)
(* connect().                                                              *)
Stale == playing \in 1..(server.epoch - 1)
PageSettles ==
  AnswerIsHeard /\ (Stale ~> ~Stale) /\ (stopping ~> [](mic # "on" /\ room # "connected"))

(* After a control is acknowledged nothing of an older epoch is presented. *)
NothingOlderThanAck ==
  [][ (controls # <<>> /\ Head(controls).st = "answered" /\ Len(controls') < Len(controls))
        => playing' \notin 1..(gate'.epoch - 1) ]_vars
=============================================================================
