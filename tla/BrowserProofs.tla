---------------------------- MODULE BrowserProofs ----------------------------
(***************************************************************************)
(* What the listener is promised, for any number of epochs, controls and   *)
(* faults: what is audible is authorized, and the page implements          *)
(* ListenerPromise.  Both hold because the session logs the interruption   *)
(* of an epoch before anything else of it, because an answer is bound once *)
(* and a binding is newer than what was heard, and because the page blocks *)
(* its gate and closes its stream in the step in which it stops.           *)
(***************************************************************************)
EXTENDS Browser, TLAPS

Kinds == {"interrupted", "error", "closed", "revoked", "playback_binding"}
EventRow == [kind : Kinds, epoch : 1..MaxEpoch + 1]
ControlRow ==
  [kind : {"interrupt", "text"}, st : {"queued", "sent", "served", "answered", "refused"},
   epoch : 0..MaxEpoch + 1]

\* Every variable has its type; nothing knows of an epoch the session has not reached.
PageShapes ==
  /\ TypeOK
  /\ log \in Seq(EventRow) /\ controls \in Seq(ControlRow)
  /\ phase \in {"create", "poll", "grant", "join", "unlock", "microphone", "publish", "up", "ended"}
  /\ playing \in Nat /\ newest \in 0..server.epoch /\ floor \in Nat
  /\ gate.epoch <= server.epoch
  /\ \A i \in DOMAIN log : log[i].epoch <= server.epoch
  /\ controls # <<>> => controls[1].epoch <= server.epoch

\* An answer is in hand only in a session that is open, at an epoch within the bound.
AnswerInHand ==
  /\ ~server.closed => server.epoch <= MaxEpoch
  /\ server.stage # "idle" => server.epoch \in Epoch /\ ~server.closed

\* No answer is bound twice.
BoundOnce ==
  \A i, j \in DOMAIN log :
    i < j /\ log[i].kind = "playback_binding" /\ log[j].kind = "playback_binding"
      => log[i].epoch < log[j].epoch

\* A binding that is still to come is newer than the one in force and than what was heard.
BindingsAreNew ==
  /\ \A i \in DOMAIN log : log[i].kind = "playback_binding" =>
       newest < log[i].epoch /\ gate.binding < log[i].epoch
  /\ server.stage \in {"preparing", "published"} =>
       /\ newest < server.epoch /\ gate.binding < server.epoch
       /\ \A i \in DOMAIN log : log[i].kind = "playback_binding" => log[i].epoch < server.epoch

\* A binding in force passed the gate; its track, while it is in the room and not on
\* the element, was never heard.
BindingPassed ==
  /\ floor # 0 => floor < gate.min
  /\ gate.binding # 0 =>
       /\ gate.min <= gate.binding /\ sse = "open"
       /\ wanted = known \cap {gate.binding}
       /\ gate.binding \in published /\ playing # gate.binding => newest < gate.binding

\* Only an open stream lets a page hear, and a page that stops has closed it for good.
OpenToHear ==
  /\ playing # 0 => sse = "open" /\ playing <= newest
  /\ stopping <=> sse = "closed"
  /\ phase \in {"create", "poll", "grant"} => sse # "open"

Told(e) == \E i \in DOMAIN log : log[i].kind = "interrupted" /\ log[i].epoch >= e

\* Sound of an epoch that the gate has left is about to be interrupted.
LeftIsTold ==
  playing # 0 => gate.binding = playing \/ (playing < gate.epoch /\ Told(gate.epoch))

\* An epoch that the gate has not reached was announced by its interruption, before
\* all else that is logged of it.
Announced ==
  /\ server.epoch <= gate.epoch \/ sse = "closed" \/ Told(server.epoch)
  /\ \A j \in DOMAIN log : log[j].epoch <= gate.epoch
       \/ \E i \in DOMAIN log : i <= j /\ log[i].kind = "interrupted" /\ log[i].epoch = log[j].epoch

PageSound ==
  /\ PageShapes /\ AnswerInHand /\ BoundOnce /\ BindingsAreNew
  /\ BindingPassed /\ OpenToHear /\ LeftIsTold /\ Announced

-----------------------------------------------------------------------------
(* The log. *)

\* One more event at the end of the log.
LEMMA LogGrows ==
  ASSUME log \in Seq(EventRow), BoundOnce, NEW x \in EventRow, log' = Append(log, x),
         x.kind = "playback_binding" =>
           \A i \in DOMAIN log : log[i].kind = "playback_binding" => log[i].epoch < x.epoch
  PROVE  /\ log' \in Seq(EventRow) /\ BoundOnce'
         /\ DOMAIN log \subseteq DOMAIN log' /\ Len(log) + 1 \in DOMAIN log'
         /\ \A i \in DOMAIN log' :
              (i \in DOMAIN log /\ log'[i] = log[i]) \/ (i = Len(log) + 1 /\ log'[i] = x)
         /\ \A i \in DOMAIN log : log'[i] = log[i] /\ i < Len(log) + 1
         /\ log'[Len(log) + 1] = x
<1>1. /\ log' \in Seq(EventRow) /\ DOMAIN log = 1..Len(log) /\ DOMAIN log' = 1..(Len(log) + 1)
      /\ Len(log) \in Nat
  OBVIOUS
<1>2. /\ \A i \in DOMAIN log : log'[i] = log[i]
      /\ log'[Len(log) + 1] = x
  OBVIOUS
<1>3. \A i \in DOMAIN log' : i \in DOMAIN log \/ i = Len(log) + 1
  BY <1>1
<1>4. BoundOnce'
  BY <1>1, <1>2, <1>3 DEF BoundOnce, EventRow
<1> QED  BY <1>1, <1>2, <1>3, <1>4

\* The head of the log is taken.
LEMMA LogTaken ==
  ASSUME log \in Seq(EventRow), BoundOnce, log # <<>>, log' = Tail(log)
  PROVE  /\ log' \in Seq(EventRow) /\ BoundOnce'
         /\ 1 \in DOMAIN log /\ Head(log) = log[1] /\ log[1] \in EventRow
         /\ \A i \in DOMAIN log' : i + 1 \in DOMAIN log /\ log'[i] = log[i + 1] /\ 1 < i + 1
         /\ \A i \in DOMAIN log : i = 1 \/ (i - 1 \in DOMAIN log' /\ log'[i - 1] = log[i] /\ 1 < i)
<1>1. /\ log' \in Seq(EventRow) /\ DOMAIN log = 1..Len(log) /\ DOMAIN log' = 1..(Len(log) - 1)
      /\ Len(log) \in Nat /\ Len(log) >= 1
  OBVIOUS
<1>2. \A i \in DOMAIN log' : log'[i] = log[i + 1]
  OBVIOUS
<1>3. BoundOnce'
  <2> SUFFICES ASSUME NEW i \in DOMAIN log', NEW j \in DOMAIN log', i < j
               PROVE  log'[i].kind = "playback_binding" /\ log'[j].kind = "playback_binding"
                        => log'[i].epoch < log'[j].epoch
    BY DEF BoundOnce
  <2>1. i + 1 \in DOMAIN log /\ j + 1 \in DOMAIN log /\ i + 1 < j + 1
    BY <1>1
  <2> QED  BY <1>2, <2>1 DEF BoundOnce
<1>4. 1 \in DOMAIN log /\ Head(log) = log[1] /\ log[1] \in EventRow
  BY <1>1
<1>5. \A i \in DOMAIN log' : i + 1 \in DOMAIN log /\ 1 < i + 1
  BY <1>1
<1>6. \A i \in DOMAIN log : i = 1 \/ (i - 1 \in DOMAIN log' /\ 1 < i /\ (i - 1) + 1 = i)
  BY <1>1
<1> QED  BY <1>1, <1>2, <1>3, <1>4, <1>5, <1>6

\* The stream that is closed holds nothing.
LEMMA LogEmpty ==
  ASSUME log' = <<>>
  PROVE  log' \in Seq(EventRow) /\ BoundOnce' /\ DOMAIN log' = {}
<1>1. log' \in Seq(EventRow) /\ DOMAIN log' = {}
  OBVIOUS
<1> QED  BY <1>1 DEF BoundOnce

-----------------------------------------------------------------------------
\* The page opens with nothing to hear.
LEMMA PageOpens ==
  ASSUME Init
  PROVE  PageSound
<1> USE BrowserAssumption DEF Init
<1>1. /\ server \in [epoch : 0..MaxEpoch + 1, stage : {"idle", "preparing", "published", "bound"},
                      closed : BOOLEAN]
      /\ gate \in [epoch : 0..MaxEpoch + 1, binding : {0, gate.epoch}, min : 0..MaxEpoch + 2]
      /\ DOMAIN controls = {} /\ DOMAIN log = {}
  OBVIOUS
<1>2. TypeOK
  BY <1>1 DEF TypeOK
<1>3. PageShapes
  BY <1>1, <1>2 DEF PageShapes
<1>4. AnswerInHand /\ BoundOnce /\ BindingsAreNew
  BY <1>1 DEF AnswerInHand, BoundOnce, BindingsAreNew
<1>5. BindingPassed /\ OpenToHear /\ LeftIsTold /\ Announced
  BY <1>1 DEF BindingPassed, OpenToHear, LeftIsTold, Announced
<1> QED  BY <1>3, <1>4, <1>5 DEF PageSound

\* The epochs that the page, its log and its controls know are numbers the session reached.
LEMMA KnownEpochs ==
  ASSUME PageSound
  PROVE  /\ \A i \in DOMAIN log : /\ log[i] \in EventRow /\ log[i].epoch \in Nat \ {0}
                                  /\ log[i].epoch <= server.epoch
         /\ server.epoch \in 0..MaxEpoch + 1 /\ gate.epoch \in 0..MaxEpoch + 1
         /\ gate.epoch <= server.epoch /\ gate.binding \in {0, gate.epoch}
         /\ gate.min \in 0..MaxEpoch + 2 /\ newest \in Nat /\ newest <= server.epoch
         /\ MaxEpoch \in Nat \ {0} /\ playing \in Nat /\ floor \in Nat
<1>1. MaxEpoch \in Nat \ {0}
  BY BrowserAssumption
<1>2. \A i \in DOMAIN log : log[i] \in EventRow
  BY DEF PageSound, PageShapes
<1>3. \A i \in DOMAIN log : log[i].epoch \in Nat \ {0}
  BY <1>1, <1>2 DEF EventRow
<1> QED  BY <1>1, <1>2, <1>3 DEF PageSound, PageShapes, TypeOK

-----------------------------------------------------------------------------
(* The session. *)

\* A step of the session: the page stands still, what was told stays told, and what is
\* new in the log is the binding of an answer published before.
LEMMA SessionStep ==
  ASSUME PageSound, UNCHANGED pageVars,
         server' \in [epoch : 0..MaxEpoch + 1, stage : {"idle", "preparing", "published", "bound"},
                      closed : BOOLEAN],
         server.epoch <= server'.epoch, AnswerInHand',
         log' \in Seq(EventRow), BoundOnce',
         \A i \in DOMAIN log' : log'[i].epoch <= server'.epoch,
         \A i \in DOMAIN log' : log'[i].kind = "playback_binding" =>
           \/ i \in DOMAIN log /\ log'[i] = log[i]
           \/ server.stage = "published" /\ server'.stage = "bound" /\ log'[i].epoch = server.epoch,
         \/ sse = "closed"
         \/ \A i \in DOMAIN log : i \in DOMAIN log' /\ log'[i] = log[i],
         \/ server'.stage \in {"idle", "bound"} \/ server'.epoch > server.epoch
         \/ server.stage \in {"preparing", "published"} /\ server'.epoch = server.epoch,
         published' \subseteq Epoch,
         published' \subseteq published
           \/ (server.stage = "preparing" /\ published' = published \cup {server.epoch}),
         controls' \in Seq(ControlRow),
         \A i \in DOMAIN controls' : (controls'[i].st = "queued") <=> (i > 1),
         controls' # <<>> => controls'[1].epoch <= server'.epoch,
         Announced'
  PROVE  PageSound'
<1> USE DEF PageSound, pageVars, roomVars, mediaVars, linkVars, flagVars
<1>1. TypeOK'
  BY DEF TypeOK, PageShapes
<1>2. server.epoch \in Nat /\ server'.epoch \in Nat /\ newest \in Nat /\ gate.epoch \in Nat
      /\ gate.binding \in {0, gate.epoch} /\ gate.epoch <= server.epoch /\ newest <= server.epoch
  BY BrowserAssumption DEF PageShapes, TypeOK
<1>3. PageShapes'
  BY <1>1, <1>2 DEF PageShapes
<1>4. BindingsAreNew'
  <2>1. ASSUME NEW i \in DOMAIN log', log'[i].kind = "playback_binding"
        PROVE  newest < log'[i].epoch /\ gate.binding < log'[i].epoch
    BY <2>1 DEF BindingsAreNew
  <2>2. ASSUME server'.stage \in {"preparing", "published"}
        PROVE  /\ newest < server'.epoch /\ gate.binding < server'.epoch
               /\ \A i \in DOMAIN log' : log'[i].kind = "playback_binding" => log'[i].epoch < server'.epoch
    <3>1. CASE server'.epoch > server.epoch
      <4>1. \A i \in DOMAIN log' : log'[i].kind = "playback_binding" =>
              i \in DOMAIN log /\ log'[i] = log[i]
        BY <2>2
      <4>2. \A i \in DOMAIN log : log[i].epoch \in Nat /\ log[i].epoch <= server.epoch
        BY KnownEpochs
      <4> QED  BY <1>2, <3>1, <4>1, <4>2
    <3>2. CASE server.stage \in {"preparing", "published"} /\ server'.epoch = server.epoch
      BY <2>2, <3>2 DEF BindingsAreNew
    <3> QED  BY <2>2, <3>1, <3>2
  <2> QED  BY <2>1, <2>2 DEF BindingsAreNew
<1>5. BindingPassed'
  BY DEF BindingPassed, BindingsAreNew
<1>6. OpenToHear'
  BY DEF OpenToHear
<1>7. LeftIsTold'
  BY DEF LeftIsTold, Told, OpenToHear
<1> QED  BY <1>3, <1>4, <1>5, <1>6, <1>7

\* What the log holds after the session said something.
LEMMA SaidIsLogged ==
  ASSUME PageSound, NEW x \in EventRow, log' = IF sse = "closed" THEN <<>> ELSE Append(log, x),
         server'.epoch \in Nat, server.epoch <= server'.epoch, x.epoch = server'.epoch,
         x.kind # "interrupted" => x.epoch = server.epoch,
         x.kind = "playback_binding" => server.stage = "published",
         UNCHANGED <<gate, sse>>
  PROVE  /\ log' \in Seq(EventRow) /\ BoundOnce'
         /\ \A i \in DOMAIN log' : log'[i].epoch <= server'.epoch
         /\ \A i \in DOMAIN log' : (i \in DOMAIN log /\ log'[i] = log[i]) \/ log'[i] = x
         /\ sse = "closed" \/ \A i \in DOMAIN log : i \in DOMAIN log' /\ log'[i] = log[i]
         /\ Announced'
<1>1. /\ log \in Seq(EventRow) /\ BoundOnce
      /\ \A i \in DOMAIN log : log[i] \in EventRow /\ log[i].epoch <= server.epoch
      /\ server.epoch \in Nat /\ server'.epoch \in Nat
  BY BrowserAssumption DEF PageSound, PageShapes, TypeOK
<1>2. CASE sse = "closed"
  <2>1. log' \in Seq(EventRow) /\ BoundOnce' /\ DOMAIN log' = {}
    BY <1>2, LogEmpty
  <2> QED  BY <1>2, <2>1 DEF Announced
<1>3. CASE sse # "closed"
  <2>1. x.kind = "playback_binding" =>
          \A i \in DOMAIN log : log[i].kind = "playback_binding" => log[i].epoch < x.epoch
    BY DEF PageSound, BindingsAreNew
  <2>2. log' = Append(log, x)
    BY <1>3
  <2>3. /\ log' \in Seq(EventRow) /\ BoundOnce' /\ Len(log) + 1 \in DOMAIN log'
        /\ DOMAIN log \subseteq DOMAIN log'
        /\ \A i \in DOMAIN log' :
             (i \in DOMAIN log /\ log'[i] = log[i]) \/ (i = Len(log) + 1 /\ log'[i] = x)
        /\ \A i \in DOMAIN log : log'[i] = log[i] /\ i < Len(log) + 1
        /\ log'[Len(log) + 1] = x
    BY <1>1, <2>1, <2>2, LogGrows
  <2>4. \A i \in DOMAIN log' : log'[i].epoch <= server'.epoch
    BY <1>1, <2>3, KnownEpochs, SMTT(30)
  <2>5. server'.epoch <= gate'.epoch \/ Told(server.epoch)'
    <3>1. CASE x.kind = "interrupted"
      BY <1>1, <2>3, <3>1 DEF Told
    <3>2. CASE x.kind # "interrupted"
      BY <1>1, <1>3, <2>3, <3>2 DEF Told, PageSound, Announced
    <3> QED  BY <3>1, <3>2
  <2>6. ASSUME NEW j \in DOMAIN log', ~(log'[j].epoch <= gate.epoch)
        PROVE  \E i \in DOMAIN log' : i <= j /\ log'[i].kind = "interrupted" /\ log'[i].epoch = log'[j].epoch
    <3>1. CASE j \in DOMAIN log
      BY <2>3, <2>6, <3>1, SMTT(30) DEF PageSound, Announced
    <3>2. CASE j = Len(log) + 1 /\ x.kind = "interrupted"
      <4>1. j <= j
        BY <3>2, <1>1
      <4> QED  BY <2>3, <3>2, <4>1
    <3>3. CASE j = Len(log) + 1 /\ x.kind # "interrupted"
      <4>1. PICK i \in DOMAIN log : log[i].kind = "interrupted" /\ log[i].epoch >= server.epoch
        BY <1>1, <1>3, <2>3, <2>6, <3>3 DEF PageSound, Announced, Told
      <4>2. log[i].epoch = server.epoch
        BY <4>1, KnownEpochs, SMTT(30)
      <4>3. i <= j
        BY <1>1, <2>3, <3>3
      <4> QED  BY <2>3, <3>3, <4>1, <4>2, <4>3
    <3> QED  BY <2>3, <3>1, <3>2, <3>3
  <2>7. Announced'
    BY <2>5, <2>6 DEF Announced, Told
  <2> QED  BY <2>3, <2>4, <2>7
<1> QED  BY <1>2, <1>3

\* The epoch moves to the next, whoever asks for it.
LEMMA EpochMoves ==
  ASSUME PageSound, NEW stage \in {"preparing", "idle"}, NextEpoch(stage),
         UNCHANGED <<published, pageVars>>,
         controls' \in Seq(ControlRow),
         \A i \in DOMAIN controls' : (controls'[i].st = "queued") <=> (i > 1),
         controls' # <<>> => controls'[1].epoch <= server'.epoch
  PROVE  PageSound'
<1>1. PICK x \in EventRow : x = Event("interrupted", server.epoch + 1)
  <2>1. server.epoch + 1 \in 1..MaxEpoch + 1
    BY KnownEpochs DEF NextEpoch
  <2> QED  BY <2>1 DEF Event, EventRow, Kinds
<1>2. x.epoch = server.epoch + 1 /\ x.kind = "interrupted"
  BY <1>1 DEF Event
<1>3. /\ server'.epoch = server.epoch + 1 /\ server'.stage = stage
      /\ server' \in [epoch : 0..MaxEpoch + 1, stage : {"idle", "preparing", "published", "bound"},
                      closed : BOOLEAN]
      /\ server'.epoch \in Epoch /\ ~server'.closed
  <2>1. server \in [epoch : 0..MaxEpoch + 1, stage : {"idle", "preparing", "published", "bound"},
                    closed : BOOLEAN]
    BY DEF PageSound, PageShapes, TypeOK
  <2>2. /\ ~server.closed /\ server.epoch < MaxEpoch
        /\ server' = [server EXCEPT !.epoch = @ + 1, !.stage = stage]
    BY DEF NextEpoch
  <2>3. server.epoch + 1 \in 0..MaxEpoch + 1 /\ server.epoch + 1 \in Epoch
    BY SMTT(30), <2>2, KnownEpochs DEF Epoch
  <2> QED  BY <2>1, <2>2, <2>3
<1>4. log' = IF sse = "closed" THEN <<>> ELSE Append(log, x)
  BY <1>1 DEF NextEpoch, Say
<1>5. AnswerInHand'
  BY <1>3, KnownEpochs DEF AnswerInHand, Epoch
<1>6. server.epoch \in Nat /\ server'.epoch \in Nat
  BY <1>3, KnownEpochs
<1>7. /\ log' \in Seq(EventRow) /\ BoundOnce'
      /\ \A i \in DOMAIN log' : log'[i].epoch <= server'.epoch
      /\ \A i \in DOMAIN log' : (i \in DOMAIN log /\ log'[i] = log[i]) \/ log'[i] = x
      /\ sse = "closed" \/ \A i \in DOMAIN log : i \in DOMAIN log' /\ log'[i] = log[i]
      /\ Announced'
  BY <1>2, <1>3, <1>4, <1>6, SaidIsLogged DEF pageVars, linkVars
<1>8. published' \subseteq Epoch
  BY DEF PageSound, PageShapes, TypeOK
<1> QED  BY <1>2, <1>3, <1>5, <1>6, <1>7, <1>8, SessionStep

\* The user speaks.
LEMMA VoiceTurnKeeps ==
  ASSUME PageSound, VoiceTurn
  PROVE  PageSound'
<1>1. PICK stage \in {"preparing", "idle"} : NextEpoch(stage)
  BY DEF VoiceTurn
<1>2. /\ UNCHANGED <<published, pageVars>> /\ controls' = controls
      /\ server'.epoch = server.epoch + 1
  BY <1>1, KnownEpochs DEF VoiceTurn, ctlVars, NextEpoch, PageSound, PageShapes, TypeOK
<1>3. /\ controls' \in Seq(ControlRow)
      /\ \A i \in DOMAIN controls' : (controls'[i].st = "queued") <=> (i > 1)
  BY <1>2 DEF PageSound, PageShapes, TypeOK
<1>4. controls' # <<>> => controls'[1].epoch <= server'.epoch
  <2>1. ASSUME controls # <<>> PROVE controls[1].epoch \in Nat
    <3>1. controls[1] \in ControlRow
      BY <2>1 DEF PageSound, PageShapes
    <3> QED  BY <3>1, KnownEpochs DEF ControlRow
  <2> QED  BY SMTT(30), <1>2, <2>1, KnownEpochs DEF PageSound, PageShapes
<1> QED  BY <1>1, <1>2, <1>3, <1>4, EpochMoves

\* A control reaches the session: refused, or served by an epoch of its own.
LEMMA ServeControlKeeps ==
  ASSUME PageSound, ServeControl
  PROVE  PageSound'
<1>1. /\ controls \in Seq(ControlRow) /\ 1 \in DOMAIN controls /\ controls[1] \in ControlRow
      /\ \A i \in DOMAIN controls : (controls[i].st = "queued") <=> (i > 1)
  BY DEF ServeControl, PageSound, PageShapes, TypeOK
<1>2. ASSUME NEW st \in {"refused", "served"}, NEW e \in 0..MaxEpoch + 1, HeadBecomes(st, e)
      PROVE  /\ controls' \in Seq(ControlRow) /\ controls'[1].st = st /\ controls'[1].epoch = e
             /\ \A i \in DOMAIN controls' : (controls'[i].st = "queued") <=> (i > 1)
  <2> DEFINE r == [controls[1] EXCEPT !.st = st, !.epoch = e]
  <2>1. r \in ControlRow /\ r.st = st /\ r.epoch = e
    BY <1>1 DEF ControlRow
  <2>2. controls' = [controls EXCEPT ![1] = r]
    BY <1>1, <1>2 DEF HeadBecomes, ControlRow
  <2> HIDE DEF r
  <2>3. controls' \in Seq(ControlRow) /\ controls'[1] = r /\ DOMAIN controls' = DOMAIN controls
        /\ \A i \in DOMAIN controls : i # 1 => controls'[i] = controls[i]
    BY <1>1, <2>1, <2>2
  <2> QED  BY <1>1, <2>1, <2>3
<1>3. CASE server.closed \/ controls[1].epoch # server.epoch
  <2>1. HeadBecomes("refused", 0) /\ UNCHANGED <<server, log, published, pageVars>>
    BY <1>3 DEF ServeControl
  <2>2. /\ controls' \in Seq(ControlRow) /\ controls'[1].st = "refused" /\ controls'[1].epoch = 0
        /\ \A i \in DOMAIN controls' : (controls'[i].st = "queued") <=> (i > 1)
    BY <1>2, <2>1, KnownEpochs
  <2>3. Announced'
    BY <2>1 DEF PageSound, Announced, Told, pageVars, linkVars
  <2>4. /\ AnswerInHand' /\ BoundOnce' /\ log' \in Seq(EventRow) /\ published' \subseteq Epoch
        /\ \A i \in DOMAIN log' : log'[i].epoch <= server'.epoch
    BY <2>1 DEF PageSound, PageShapes, TypeOK, AnswerInHand, BoundOnce
  <2>5. /\ server' \in [epoch : 0..MaxEpoch + 1, stage : {"idle", "preparing", "published", "bound"},
                        closed : BOOLEAN]
        /\ server'.epoch = server.epoch /\ server.epoch \in Nat
    BY <2>1, KnownEpochs DEF PageSound, PageShapes, TypeOK
  <2> QED  BY <2>1, <2>2, <2>3, <2>4, <2>5, SessionStep, SMTT(30) DEF PageSound, PageShapes, TypeOK
<1>4. CASE ~(server.closed \/ controls[1].epoch # server.epoch)
  <2>1. PICK stage \in {"preparing", "idle"} : NextEpoch(stage)
    BY <1>4 DEF ServeControl
  <2>2. HeadBecomes("served", server'.epoch) /\ UNCHANGED <<published, pageVars>>
    BY <1>4 DEF ServeControl
  <2>3. server'.epoch \in 0..MaxEpoch + 1
    BY <2>1, KnownEpochs DEF NextEpoch, PageSound, PageShapes, TypeOK
  <2>4. /\ controls' \in Seq(ControlRow) /\ controls'[1].epoch = server'.epoch
        /\ \A i \in DOMAIN controls' : (controls'[i].st = "queued") <=> (i > 1)
    BY <1>2, <2>2, <2>3
  <2> QED  BY <2>1, <2>2, <2>3, <2>4, EpochMoves
<1> QED  BY <1>3, <1>4

\* What a step of the session that leaves the controls alone leaves of them.
LEMMA ControlsStand ==
  ASSUME PageSound, controls' = controls, server'.epoch \in Nat, server.epoch <= server'.epoch
  PROVE  /\ controls' \in Seq(ControlRow)
         /\ \A i \in DOMAIN controls' : (controls'[i].st = "queued") <=> (i > 1)
         /\ controls' # <<>> => controls'[1].epoch <= server'.epoch
<1>1. ASSUME controls # <<>> PROVE controls[1].epoch \in Nat
  <2>1. controls[1] \in ControlRow
    BY <1>1 DEF PageSound, PageShapes
  <2> QED  BY <2>1, KnownEpochs DEF ControlRow
<1>2. controls # <<>> => controls[1].epoch <= server'.epoch
  BY SMTT(30), <1>1, KnownEpochs DEF PageSound, PageShapes
<1> QED  BY <1>2 DEF PageSound, PageShapes, TypeOK

\* The session says something of the epoch it is at.
LEMMA EpochIsSpoken ==
  ASSUME PageSound, NEW kind \in {"playback_binding", "error"}, NEW stage \in {"bound", "idle"},
         server.stage # "idle", kind = "playback_binding" => server.stage = "published",
         kind = "playback_binding" => stage = "bound",
         server' = [server EXCEPT !.stage = stage], Say(kind, server.epoch),
         UNCHANGED <<published, pageVars, controls>>
  PROVE  PageSound'
<1>1. PICK x \in EventRow : x = Event(kind, server.epoch)
  <2>1. server.epoch \in 1..MaxEpoch + 1
    BY KnownEpochs DEF PageSound, AnswerInHand, Epoch
  <2> QED  BY <2>1 DEF Event, EventRow, Kinds
<1>2. x.epoch = server.epoch /\ x.kind = kind
  BY <1>1 DEF Event
<1>3. /\ server'.epoch = server.epoch /\ server'.stage = stage /\ server.epoch \in Nat
      /\ server' \in [epoch : 0..MaxEpoch + 1, stage : {"idle", "preparing", "published", "bound"},
                      closed : BOOLEAN]
      /\ server'.closed = server.closed
  BY KnownEpochs, SMTT(30) DEF PageSound, PageShapes, TypeOK
<1>4. log' = IF sse = "closed" THEN <<>> ELSE Append(log, x)
  BY <1>1 DEF Say
<1>5. /\ log' \in Seq(EventRow) /\ BoundOnce'
      /\ \A i \in DOMAIN log' : log'[i].epoch <= server'.epoch
      /\ \A i \in DOMAIN log' : (i \in DOMAIN log /\ log'[i] = log[i]) \/ log'[i] = x
      /\ sse = "closed" \/ \A i \in DOMAIN log : i \in DOMAIN log' /\ log'[i] = log[i]
      /\ Announced'
  BY <1>2, <1>3, <1>4, SaidIsLogged DEF pageVars, linkVars
<1>6. AnswerInHand'
  BY <1>3 DEF PageSound, AnswerInHand
<1>7. published' \subseteq Epoch
  BY DEF PageSound, PageShapes, TypeOK
<1>8. /\ controls' \in Seq(ControlRow)
      /\ \A i \in DOMAIN controls' : (controls'[i].st = "queued") <=> (i > 1)
      /\ controls' # <<>> => controls'[1].epoch <= server'.epoch
  BY <1>3, ControlsStand
<1> QED  BY <1>2, <1>3, <1>5, <1>6, <1>7, <1>8, SessionStep

\* An answer is bound, or fails.
LEMMA AnswerEventKeeps ==
  ASSUME PageSound, BindAnswer \/ FailAnswer
  PROVE  PageSound'
<1>1. CASE BindAnswer
  BY <1>1, EpochIsSpoken DEF BindAnswer, ctlVars
<1>2. CASE FailAnswer
  BY <1>2, EpochIsSpoken DEF FailAnswer, ctlVars
<1> QED  BY <1>1, <1>2

\* The session changes without a word: tracks come and go, an answer is on its way back.
LEMMA QuietStep ==
  ASSUME PageSound, UNCHANGED <<log, pageVars>>,
         \/ PublishAnswer \/ RetireTracks \/ AnswerControl
  PROVE  PageSound'
<1>1. /\ log' \in Seq(EventRow) /\ BoundOnce' /\ server.epoch \in Nat
      /\ \A i \in DOMAIN log : log[i].epoch <= server.epoch
      /\ server \in [epoch : 0..MaxEpoch + 1, stage : {"idle", "preparing", "published", "bound"},
                     closed : BOOLEAN]
      /\ published \subseteq Epoch /\ AnswerInHand /\ Announced
  BY KnownEpochs DEF PageSound, PageShapes, TypeOK, BoundOnce
<1>2. CASE PublishAnswer
  <2>1. /\ server.stage = "preparing" /\ published' = published \cup {server.epoch}
        /\ server' = [server EXCEPT !.stage = "published"] /\ controls' = controls
    BY <1>2 DEF PublishAnswer, ctlVars
  <2>2. /\ server'.epoch = server.epoch /\ server'.stage = "published"
        /\ server' \in [epoch : 0..MaxEpoch + 1, stage : {"idle", "preparing", "published", "bound"},
                        closed : BOOLEAN]
        /\ server'.closed = server.closed
    BY <1>1, <2>1
  <2>3. AnswerInHand' /\ published' \subseteq Epoch /\ Announced'
    BY <1>1, <2>1, <2>2 DEF AnswerInHand, Announced, Told, pageVars, linkVars
  <2>4. /\ controls' \in Seq(ControlRow)
        /\ \A i \in DOMAIN controls' : (controls'[i].st = "queued") <=> (i > 1)
        /\ controls' # <<>> => controls'[1].epoch <= server'.epoch
    BY <1>1, <2>1, <2>2, ControlsStand
  <2> QED  BY <1>1, <2>1, <2>2, <2>3, <2>4, SessionStep
<1>3. CASE RetireTracks
  <2>1. server' = server /\ controls' = controls /\ published' \subseteq published
    BY <1>3 DEF RetireTracks, ctlVars
  <2>2. AnswerInHand' /\ published' \subseteq Epoch /\ Announced'
    BY <1>1, <2>1 DEF AnswerInHand, Announced, Told, pageVars, linkVars
  <2>3. /\ controls' \in Seq(ControlRow)
        /\ \A i \in DOMAIN controls' : (controls'[i].st = "queued") <=> (i > 1)
        /\ controls' # <<>> => controls'[1].epoch <= server'.epoch
    BY <1>1, <2>1, ControlsStand
  <2> QED  BY <1>1, <2>1, <2>2, <2>3, SessionStep
<1>4. CASE AnswerControl
  <2> DEFINE r == [controls[1] EXCEPT !.st = "answered"]
  <2>1. /\ controls \in Seq(ControlRow) /\ 1 \in DOMAIN controls /\ controls[1] \in ControlRow
        /\ \A i \in DOMAIN controls : (controls[i].st = "queued") <=> (i > 1)
        /\ controls[1].st = "served" /\ UNCHANGED <<server, log, published>>
        /\ controls[1].epoch <= server.epoch
    BY <1>4 DEF AnswerControl, PageSound, PageShapes, TypeOK, sessionVars
  <2>2. r \in ControlRow /\ r.st = "answered" /\ r.epoch = controls[1].epoch
    BY <2>1 DEF ControlRow
  <2>3. controls' = [controls EXCEPT ![1] = r]
    BY <1>4, <2>1 DEF AnswerControl, HeadBecomes, ControlRow
  <2> HIDE DEF r
  <2>4. /\ controls' \in Seq(ControlRow) /\ controls'[1] = r /\ DOMAIN controls' = DOMAIN controls
        /\ \A i \in DOMAIN controls : i # 1 => controls'[i] = controls[i]
    BY <2>1, <2>2, <2>3
  <2>5. \A i \in DOMAIN controls' : (controls'[i].st = "queued") <=> (i > 1)
    BY <2>1, <2>2, <2>4
  <2>6. Announced' /\ AnswerInHand' /\ published' \subseteq Epoch
    BY <1>1, <2>1, <2>2, <2>4 DEF Announced, Told, AnswerInHand, pageVars, linkVars
  <2> QED  BY <1>1, <2>1, <2>2, <2>4, <2>5, <2>6, SessionStep
<1> QED  BY <1>2, <1>3, <1>4

\* The session closes: its last interruption, and the event that says so.
LEMMA CloseSessionKeeps ==
  ASSUME PageSound, CloseSession
  PROVE  PageSound'
<1>1. PICK kind \in {"closed", "revoked"} :
        log' = IF sse = "closed" THEN <<>>
               ELSE log \o <<Event("interrupted", server'.epoch), Event(kind, server'.epoch)>>
  BY DEF CloseSession
<1>2. /\ server' = [epoch |-> server.epoch + 1, stage |-> "idle", closed |-> TRUE]
      /\ server.epoch \in 0..MaxEpoch /\ UNCHANGED <<published, pageVars, controls>>
  BY KnownEpochs DEF CloseSession, ctlVars, PageSound, AnswerInHand
<1>3. /\ server'.epoch = server.epoch + 1 /\ server'.stage = "idle" /\ server'.closed
      /\ server' \in [epoch : 0..MaxEpoch + 1, stage : {"idle", "preparing", "published", "bound"},
                      closed : BOOLEAN]
  BY <1>2, KnownEpochs
<1>4. PICK x \in EventRow, y \in EventRow :
        x = Event("interrupted", server'.epoch) /\ y = Event(kind, server'.epoch)
  <2>1. server'.epoch \in 1..MaxEpoch + 1
    BY <1>2, <1>3, KnownEpochs
  <2> QED  BY <2>1 DEF Event, EventRow, Kinds
<1>5. x.epoch = server.epoch + 1 /\ y.epoch = server.epoch + 1 /\ x.kind = "interrupted" /\ y.kind = kind
  BY <1>3, <1>4 DEF Event
<1>6. AnswerInHand' /\ published' \subseteq Epoch
  BY <1>2, <1>3 DEF PageSound, PageShapes, TypeOK, AnswerInHand
<1>7. /\ controls' \in Seq(ControlRow)
      /\ \A i \in DOMAIN controls' : (controls'[i].st = "queued") <=> (i > 1)
      /\ controls' # <<>> => controls'[1].epoch <= server'.epoch
  BY <1>2, <1>3, ControlsStand
<1>8. CASE sse = "closed"
  <2>1. log' \in Seq(EventRow) /\ BoundOnce' /\ DOMAIN log' = {}
    BY <1>1, <1>8, LogEmpty
  <2>2. Announced'
    BY <1>2, <1>8, <2>1 DEF Announced, pageVars, linkVars
  <2> QED  BY <1>2, <1>3, <1>6, <1>7, <1>8, <2>1, <2>2, SessionStep
<1>9. CASE sse # "closed"
  <2>1. /\ log \in Seq(EventRow) /\ Len(log) \in Nat
        /\ \A i \in DOMAIN log : log[i].epoch \in Nat /\ log[i].epoch < server'.epoch
    BY SMTT(30), <1>2, <1>3, KnownEpochs DEF PageSound, PageShapes
  <2>2. log' = log \o <<x, y>>
    BY <1>1, <1>4, <1>9
  <2>3. /\ log' \in Seq(EventRow) /\ DOMAIN log' = 1..(Len(log) + 2) /\ DOMAIN log = 1..Len(log)
        /\ \A i \in DOMAIN log : log'[i] = log[i]
        /\ log'[Len(log) + 1] = x /\ log'[Len(log) + 2] = y
    BY <2>1, <2>2
  <2>4. \A i \in DOMAIN log' : i \in DOMAIN log \/ i = Len(log) + 1 \/ i = Len(log) + 2
    BY <2>1, <2>3
  <2>5. BoundOnce'
    <3> SUFFICES ASSUME NEW i \in DOMAIN log', NEW j \in DOMAIN log', i < j
                 PROVE  log'[i].kind = "playback_binding" /\ log'[j].kind = "playback_binding"
                          => log'[i].epoch < log'[j].epoch
      BY DEF BoundOnce
    <3>1. CASE j \in DOMAIN log
      <4>1. i \in DOMAIN log
        BY <2>1, <2>3, <3>1
      <4> QED  BY <2>3, <3>1, <4>1 DEF PageSound, BoundOnce
    <3>2. CASE j = Len(log) + 1
      <4>1. i \in DOMAIN log
        BY <2>1, <2>3, <3>2
      <4> QED  BY <1>3, <1>5, <2>1, <2>3, <3>2, <4>1
    <3>3. CASE j = Len(log) + 2
      <4>1. i \in DOMAIN log \/ i = Len(log) + 1
        BY <2>1, <2>3, <3>3
      <4> QED  BY <1>2, <1>3, <1>5, <2>1, <2>3, <3>3, <4>1
    <3> QED  BY <2>4, <3>1, <3>2, <3>3
  <2>6. \A i \in DOMAIN log' : log'[i].epoch <= server'.epoch
    BY <1>2, <1>3, <1>5, <2>1, <2>3, <2>4, SMTT(30)
  <2>7. \A i \in DOMAIN log : i \in DOMAIN log' /\ log'[i] = log[i]
    BY <2>1, <2>3
  <2>8. \A i \in DOMAIN log' : log'[i].kind = "playback_binding" => i \in DOMAIN log /\ log'[i] = log[i]
    BY <1>5, <2>3, <2>4
  <2>9. Announced'
    <3>1. gate' = gate /\ sse' = sse /\ Len(log) + 1 \in DOMAIN log'
      BY <1>2, <2>1, <2>3 DEF pageVars, linkVars
    <3>2. Told(server.epoch)'
      BY <1>3, <1>5, <2>3, <3>1 DEF Told
    <3>3. ASSUME NEW j \in DOMAIN log', ~(log'[j].epoch <= gate.epoch)
          PROVE  \E i \in DOMAIN log' : i <= j /\ log'[i].kind = "interrupted" /\ log'[i].epoch = log'[j].epoch
      <4>1. CASE j \in DOMAIN log
        BY <2>7, <3>3, <4>1 DEF PageSound, Announced
      <4>2. CASE j = Len(log) + 1 \/ j = Len(log) + 2
        <5>1. Len(log) + 1 <= j
          BY <2>1, <4>2
        <5> QED  BY <1>5, <2>3, <3>1, <4>2, <5>1
      <4> QED  BY <2>4, <4>1, <4>2
    <3> QED  BY <3>1, <3>2, <3>3 DEF Announced
  <2> QED  BY <1>2, <1>3, <1>6, <1>7, <2>3, <2>5, <2>6, <2>7, <2>8, <2>9, SessionStep
<1> QED  BY <1>8, <1>9

-----------------------------------------------------------------------------
(* The gate. *)

GateRow == [epoch : 0..MaxEpoch + 1, binding : 0..MaxEpoch + 1, min : 0..MaxEpoch + 2]

\* A gate of TypeOK, field by field.
LEMMA GateShape ==
  ASSUME NEW g
  PROVE  g \in GateRow /\ g.binding \in {0, g.epoch}
           <=> g \in [epoch : 0..MaxEpoch + 1, binding : {0, g.epoch}, min : 0..MaxEpoch + 2]
BY BrowserAssumption DEF GateRow

\* What blocking, cancelling, advancing and binding make of the gate.
LEMMA GateMoves ==
  ASSUME PageSound, NEW e \in 0..MaxEpoch + 1
  PROVE  /\ gate \in GateRow /\ Block(gate) \in GateRow
         /\ Block(gate).binding = 0 /\ Block(gate).epoch = gate.epoch
         /\ Block(gate).min > gate.epoch /\ Block(gate).min >= gate.min
         /\ Advance(gate, e) \in GateRow /\ Advance(gate, e).min = gate.min
         /\ e <= gate.epoch =>
              Advance(gate, e).epoch = gate.epoch /\ Advance(gate, e).binding = gate.binding
         /\ e > gate.epoch => Advance(gate, e).epoch = e /\ Advance(gate, e).binding = 0
         /\ e >= gate.epoch =>
              /\ CancelTo(gate, e) \in GateRow /\ CancelTo(gate, e).epoch = e
              /\ CancelTo(gate, e).binding = 0 /\ CancelTo(gate, e).min >= gate.min
              /\ Bind(gate, e) \in GateRow /\ Bind(gate, e).epoch = e
              /\ Bind(gate, e).binding = e /\ Bind(gate, e).min = gate.min
<1>1. /\ gate \in GateRow /\ gate.binding \in {0, gate.epoch}
      /\ gate.epoch \in 0..MaxEpoch + 1 /\ gate.min \in 0..MaxEpoch + 2 /\ MaxEpoch \in Nat
  BY GateShape, KnownEpochs DEF PageSound, PageShapes, TypeOK
<1>2. \A a, b \in 0..MaxEpoch + 2 : Larger(a, b) \in 0..MaxEpoch + 2 /\ Larger(a, b) >= a /\ Larger(a, b) >= b
  BY <1>1 DEF Larger
<1>3. /\ Block(gate) \in GateRow
      /\ Block(gate).binding = 0 /\ Block(gate).epoch = gate.epoch
      /\ Block(gate).min = Larger(gate.min, gate.epoch + 1)
  <2>1. gate.epoch + 1 \in 0..MaxEpoch + 2 /\ 0 \in 0..MaxEpoch + 1
    BY <1>1
  <2> QED  BY <1>1, <1>2, <2>1 DEF Block, GateRow
<1>4. Block(gate).min > gate.epoch /\ Block(gate).min >= gate.min
  <2>1. gate.epoch + 1 \in 0..MaxEpoch + 2
    BY <1>1
  <2>2. Larger(gate.min, gate.epoch + 1) >= gate.epoch + 1 /\ Larger(gate.min, gate.epoch + 1) >= gate.min
        /\ Larger(gate.min, gate.epoch + 1) \in 0..MaxEpoch + 2
    BY <1>1, <1>2, <2>1
  <2> QED  BY <1>1, <1>3, <2>2
<1>5. /\ Advance(gate, e) \in GateRow /\ Advance(gate, e).min = gate.min
      /\ e <= gate.epoch => Advance(gate, e).epoch = gate.epoch /\ Advance(gate, e).binding = gate.binding
      /\ e > gate.epoch => Advance(gate, e).epoch = e /\ Advance(gate, e).binding = 0
  <2>1. CASE e < gate.epoch
    BY <1>1, <2>1 DEF Advance
  <2>2. CASE e >= gate.epoch
    <3> DEFINE b == IF e > gate.epoch THEN 0 ELSE gate.binding
    <3>1. Advance(gate, e) = [gate EXCEPT !.binding = b, !.epoch = e]
      BY <1>1, <2>2 DEF Advance
    <3>2. b \in 0..MaxEpoch + 1
      BY <1>1 DEF GateRow
    <3>3. (e = gate.epoch => b = gate.binding) /\ (e > gate.epoch => b = 0)
      BY <1>1
    <3> HIDE DEF b
    <3>4. /\ Advance(gate, e) \in GateRow /\ Advance(gate, e).min = gate.min
          /\ Advance(gate, e).binding = b /\ Advance(gate, e).epoch = e
      BY <1>1, <3>1, <3>2 DEF GateRow
    <3> QED  BY <1>1, <2>2, <3>3, <3>4
  <2> QED  BY <1>1, <2>1, <2>2
<1>6. ASSUME e >= gate.epoch
      PROVE  /\ CancelTo(gate, e) \in GateRow /\ CancelTo(gate, e).epoch = e
             /\ CancelTo(gate, e).binding = 0 /\ CancelTo(gate, e).min >= gate.min
             /\ Bind(gate, e) \in GateRow /\ Bind(gate, e).epoch = e
             /\ Bind(gate, e).binding = e /\ Bind(gate, e).min = gate.min
  <2>1. /\ Advance(gate, e) \in GateRow /\ Advance(gate, e).epoch = e
        /\ Advance(gate, e).min = gate.min
    BY <1>1, <1>5, <1>6
  <2>2. e \in 0..MaxEpoch + 2 /\ 0 \in 0..MaxEpoch + 1
    BY <1>1
  <2>3. /\ Larger(gate.min, e) \in 0..MaxEpoch + 2 /\ Larger(gate.min, e) >= gate.min
    BY <1>1, <1>2, <2>2
  <2> QED  BY <1>1, <2>1, <2>2, <2>3 DEF CancelTo, Bind, GateRow
<1> QED  BY <1>1, <1>3, <1>4, <1>5, <1>6

-----------------------------------------------------------------------------
(* The page. *)

\* A step after which nothing plays and nothing is bound: what else it does to the
\* page only has to be in order.
LEMMA SilentStep ==
  ASSUME PageSound,
         gate' \in GateRow, gate'.binding = 0, gate'.epoch <= server.epoch,
         playing' = 0, newest' = newest, published' = published,
         server' \in [epoch : 0..MaxEpoch + 1, stage : {"idle", "preparing", "published", "bound"},
                      closed : BOOLEAN],
         server'.epoch = server.epoch, server'.stage \in {server.stage, "idle"}, AnswerInHand',
         log' \in Seq(EventRow), BoundOnce',
         \A i \in DOMAIN log' : \E j \in DOMAIN log : log'[i] = log[j],
         floor' \in Nat, floor' # 0 => floor' < gate'.min,
         wanted' \subseteq known', tracks' \subseteq known', known' \subseteq Epoch,
         {session', active', stopping', recovery'} \subseteq BOOLEAN,
         mic' \in {"none", "on", "off"}, sse' \in {"none", "open", "closed"},
         room' \in {"new", "connecting", "connected", "closed"},
         phase' \in {"create", "poll", "grant", "join", "unlock", "microphone", "publish", "up", "ended"},
         stopping' <=> sse' = "closed",
         phase' \in {"create", "poll", "grant"} => sse' # "open",
         controls' \in Seq(ControlRow),
         \A i \in DOMAIN controls' : (controls'[i].st = "queued") <=> (i > 1),
         controls' # <<>> => controls'[1].epoch <= server.epoch,
         Announced'
  PROVE  PageSound'
<1>1. gate'.binding = 0
      /\ gate' \in [epoch : 0..MaxEpoch + 1, binding : {0, gate'.epoch}, min : 0..MaxEpoch + 2]
  BY GateShape
<1>2. TypeOK'
  BY <1>1 DEF TypeOK, PageSound, PageShapes
<1>3. \A i \in DOMAIN log' : log'[i].epoch <= server'.epoch
  BY DEF PageSound, PageShapes
<1>4. PageShapes'
  BY <1>2, <1>3 DEF PageShapes, PageSound
<1>5. BindingsAreNew'
  <2>1. ASSUME NEW i \in DOMAIN log', log'[i].kind = "playback_binding"
        PROVE  /\ newest' < log'[i].epoch /\ gate'.binding < log'[i].epoch
               /\ server.stage \in {"preparing", "published"} => log'[i].epoch < server.epoch
    <3>1. PICK j \in DOMAIN log : log'[i] = log[j]
      OBVIOUS
    <3>2. BindingsAreNew
      BY DEF PageSound
    <3>3. log[j].kind = "playback_binding"
      BY <2>1, <3>1
    <3>4. newest < log[j].epoch /\ gate.binding < log[j].epoch
      BY <3>2, <3>3 DEF BindingsAreNew
    <3>5. server.stage \in {"preparing", "published"} => log[j].epoch < server.epoch
      BY <3>2, <3>3 DEF BindingsAreNew
    <3>6. 0 < log[j].epoch
      BY <3>4, KnownEpochs
    <3> QED  BY <1>1, <3>1, <3>4, <3>5, <3>6
  <2>2. ASSUME server'.stage \in {"preparing", "published"}
        PROVE  newest' < server'.epoch /\ gate'.binding < server'.epoch
    <3>1. server.stage \in {"preparing", "published"}
      BY <2>2
    <3>2. newest < server.epoch /\ 0 < server.epoch
      BY <3>1, KnownEpochs DEF PageSound, BindingsAreNew
    <3> QED  BY <1>1, <3>2
  <2>3. server'.stage \in {"preparing", "published"} => server.stage \in {"preparing", "published"}
    OBVIOUS
  <2> QED  BY <2>1, <2>2, <2>3 DEF BindingsAreNew
<1>6. BindingPassed' /\ OpenToHear' /\ LeftIsTold'
  BY <1>1 DEF BindingPassed, OpenToHear, LeftIsTold
<1> QED  BY <1>4, <1>5, <1>6 DEF PageSound

\* The page stops, wherever it is: the gate is blocked, the stream closed, nothing plays.
LEMMA StopKeeps ==
  ASSUME PageSound, StopSync, UNCHANGED <<server, published, roomVars, controls, floor>>,
         phase' \in {phase, "ended"}, {session', recovery'} \subseteq BOOLEAN,
         room' \in {"new", "connecting", "connected", "closed"}
  PROVE  PageSound'
<1>1. /\ gate' = Block(gate) /\ playing' = 0 /\ newest' = newest /\ sse' = "closed" /\ log' = <<>>
      /\ stopping' = TRUE /\ active' = FALSE /\ mic' \in {"none", "on", "off"}
  BY DEF StopSync, Detach, Released, PageSound, PageShapes, TypeOK
<1>2. /\ gate' \in GateRow /\ gate'.binding = 0 /\ gate'.epoch = gate.epoch /\ gate'.min >= gate.min
      /\ gate'.min \in Int
  <2>1. 0 \in 0..MaxEpoch + 1
    BY KnownEpochs
  <2>2. gate' \in GateRow /\ gate'.binding = 0 /\ gate'.epoch = gate.epoch /\ gate'.min >= gate.min
    BY <1>1, <2>1, GateMoves
  <2> QED  BY <2>2, KnownEpochs DEF GateRow
<1>3. log' \in Seq(EventRow) /\ BoundOnce' /\ DOMAIN log' = {}
  BY <1>1, LogEmpty
<1>4. Announced' /\ AnswerInHand'
  BY <1>1 DEF Announced, PageSound, AnswerInHand
<1>5. floor' \in Nat /\ (floor' # 0 => floor' < gate'.min)
  BY <1>2, KnownEpochs DEF PageSound, BindingPassed
<1>6. /\ server' \in [epoch : 0..MaxEpoch + 1, stage : {"idle", "preparing", "published", "bound"},
                      closed : BOOLEAN]
      /\ wanted' \subseteq known' /\ tracks' \subseteq known' /\ known' \subseteq Epoch
      /\ controls' \in Seq(ControlRow)
      /\ \A i \in DOMAIN controls' : (controls'[i].st = "queued") <=> (i > 1)
      /\ controls' # <<>> => controls'[1].epoch <= server.epoch
      /\ {session', active', stopping', recovery'} \subseteq BOOLEAN
      /\ phase' \in {"create", "poll", "grant", "join", "unlock", "microphone", "publish", "up", "ended"}
  BY <1>1 DEF PageSound, PageShapes, TypeOK, roomVars
<1>7. gate'.epoch <= server.epoch
  BY <1>2, KnownEpochs
<1> QED  BY <1>1, <1>2, <1>3, <1>4, <1>5, <1>6, <1>7, SilentStep

\* An await that is rejected.
LEMMA AbortKeeps ==
  ASSUME PageSound, Abort, UNCHANGED <<server, published, controls, floor>>, session' \in BOOLEAN
  PROVE  PageSound'
<1>1. recovery' \in BOOLEAN /\ room' \in {"new", "connecting", "connected", "closed"}
  BY DEF Abort, PageSound, PageShapes, TypeOK
<1> QED  BY <1>1, StopKeeps DEF Abort

\* A step that neither the gate, the element, the stream nor the log sees.
LEMMA IdleStep ==
  ASSUME PageSound,
         UNCHANGED <<server, log, published, gate, roomVars, mediaVars, controls, floor, sse,
                     stopping, recovery>>,
         {session', active'} \subseteq BOOLEAN, mic' \in {"none", "on", "off"},
         room' \in {"new", "connecting", "connected", "closed"},
         phase' \in {"create", "poll", "grant", "join", "unlock", "microphone", "publish", "up", "ended"},
         phase' \in {"create", "poll", "grant"} => phase \in {"create", "poll", "grant"}
  PROVE  PageSound'
<1> USE DEF PageSound, roomVars, mediaVars
<1>1. TypeOK'
  BY DEF TypeOK, PageShapes
<1>2. PageShapes'
  BY <1>1 DEF PageShapes
<1>3. AnswerInHand' /\ BoundOnce' /\ BindingsAreNew'
  BY DEF AnswerInHand, BoundOnce, BindingsAreNew
<1>4. BindingPassed' /\ OpenToHear'
  BY DEF BindingPassed, OpenToHear
<1>5. LeftIsTold' /\ Announced'
  BY DEF LeftIsTold, Announced, Told
<1> QED  BY <1>2, <1>3, <1>4, <1>5

\* The grant tells the page the epoch and opens its stream; nothing plays yet.
LEMMA GrantKeeps ==
  ASSUME PageSound, phase = "grant", ~stopping, gate' = Advance(gate, server.epoch),
         sse' = "open", room' = "connecting", phase' = "join",
         UNCHANGED <<server, log, published, roomVars, mediaVars, flagVars, session, mic, controls, floor>>
  PROVE  PageSound'
<1>1. sse # "open" /\ playing = 0 /\ gate.binding = 0
  BY DEF PageSound, OpenToHear, BindingPassed
<1>2. /\ gate' \in GateRow /\ gate'.binding = 0 /\ gate'.min = gate.min
      /\ gate'.epoch = server.epoch
  <2>1. server.epoch \in 0..MaxEpoch + 1 /\ gate.epoch \in 0..MaxEpoch + 1
    BY KnownEpochs
  <2> QED  BY <1>1, <2>1, KnownEpochs, GateMoves
<1>3. gate'.epoch <= server.epoch /\ gate.epoch \in Nat /\ gate'.epoch \in Nat
  BY <1>2, KnownEpochs
<1>4. Announced'
  BY <1>2, KnownEpochs DEF Announced
<1>5. /\ log' \in Seq(EventRow) /\ BoundOnce' /\ AnswerInHand'
      /\ \A i \in DOMAIN log' : log'[i] = log[i]
      /\ floor' \in Nat /\ (floor' # 0 => floor' < gate'.min)
  BY <1>2 DEF PageSound, PageShapes, BoundOnce, AnswerInHand, BindingPassed
<1>6. /\ server' \in [epoch : 0..MaxEpoch + 1, stage : {"idle", "preparing", "published", "bound"},
                      closed : BOOLEAN]
      /\ wanted' \subseteq known' /\ tracks' \subseteq known' /\ known' \subseteq Epoch
      /\ controls' \in Seq(ControlRow)
      /\ \A i \in DOMAIN controls' : (controls'[i].st = "queued") <=> (i > 1)
      /\ controls' # <<>> => controls'[1].epoch <= server.epoch
      /\ {session', active', stopping', recovery'} \subseteq BOOLEAN
      /\ mic' \in {"none", "on", "off"} /\ playing' = 0 /\ newest' = newest
  BY <1>1 DEF PageSound, PageShapes, TypeOK, roomVars, flagVars, mediaVars
<1>7. \A i \in DOMAIN log' : \E j \in DOMAIN log : log'[i] = log[j]
  BY <1>5
<1> QED  BY <1>2, <1>3, <1>4, <1>5, <1>6, <1>7, SilentStep DEF flagVars

\* connect(), await by await.
LEMMA ConnectingKeeps ==
  ASSUME PageSound, Connecting
  PROVE  PageSound'
<1> USE DEF servedVars, ctlVars
<1>1. /\ {session, active, stopping, recovery} \subseteq BOOLEAN /\ mic \in {"none", "on", "off"}
      /\ room \in {"new", "connecting", "connected", "closed"}
      /\ phase \in {"create", "poll", "grant", "join", "unlock", "microphone", "publish", "up", "ended"}
  BY DEF PageSound, PageShapes, TypeOK
<1>2. CASE Created
  <2>1. UNCHANGED <<server, published, controls, floor>> /\ session' \in BOOLEAN
    BY <1>1, <1>2 DEF Created
  <2>2. CASE Abort
    BY <2>1, <2>2, AbortKeeps
  <2>3. CASE ~Abort
    BY <1>1, <1>2, <2>1, <2>3, IdleStep DEF Created, Goes, flagVars
  <2> QED  BY <2>2, <2>3
<1>3. CASE Polled
  <2>1. UNCHANGED <<server, published, controls, floor, session>>
    BY <1>3 DEF Polled
  <2>2. CASE Abort
    BY <1>1, <2>1, <2>2, AbortKeeps
  <2>3. CASE ~Abort
    BY <1>1, <1>3, <2>1, <2>3, IdleStep DEF Polled, Goes, flagVars
  <2> QED  BY <2>2, <2>3
<1>4. CASE Granted
  <2>1. UNCHANGED <<server, published, controls, floor, session>>
    BY <1>4 DEF Granted
  <2>2. CASE Abort
    BY <1>1, <2>1, <2>2, AbortKeeps
  <2>3. CASE ~Abort
    BY <1>4, <2>1, <2>3, GrantKeeps DEF Granted, Goes
  <2> QED  BY <2>2, <2>3
<1>5. CASE Joined
  <2>1. UNCHANGED <<server, published, controls, floor, session>>
    BY <1>5 DEF Joined
  <2>2. CASE Abort
    BY <1>1, <2>1, <2>2, AbortKeeps
  <2>3. CASE ~Abort
    BY <1>1, <1>5, <2>1, <2>3, IdleStep DEF Joined
  <2> QED  BY <2>2, <2>3
<1>6. CASE Unlocked
  BY <1>1, <1>6, IdleStep DEF Unlocked, Goes, flagVars, linkVars
<1>7. CASE Captured
  <2>1. UNCHANGED <<server, published, controls, floor, session>>
    BY <1>7 DEF Captured
  <2>2. CASE Abort
    BY <1>1, <2>1, <2>2, AbortKeeps
  <2>3. CASE ~Abort
    BY <1>1, <1>7, <2>1, <2>3, IdleStep DEF Captured, Goes, flagVars
  <2> QED  BY <2>2, <2>3
<1>8. CASE Published
  <2>1. UNCHANGED <<server, published, controls, floor, session>>
    BY <1>8 DEF Published
  <2>2. CASE Abort
    BY <1>1, <2>1, <2>2, AbortKeeps
  <2>3. CASE ~Abort
    BY <1>1, <1>8, <2>1, <2>3, IdleStep DEF Published, Goes, flagVars
  <2> QED  BY <2>2, <2>3
<1> QED  BY <1>2, <1>3, <1>4, <1>5, <1>6, <1>7, <1>8 DEF Connecting

-----------------------------------------------------------------------------
(* The events. *)

\* The connection is given up: a stop, once.
LEMMA RequireReconnectKeeps ==
  ASSUME PageSound, RequireReconnect,
         UNCHANGED <<server, published, roomVars, controls, floor, phase, session, room>>
  PROVE  PageSound'
<1>1. /\ {session, active} \subseteq BOOLEAN /\ mic \in {"none", "on", "off"}
      /\ room \in {"new", "connecting", "connected", "closed"}
      /\ phase \in {"create", "poll", "grant", "join", "unlock", "microphone", "publish", "up", "ended"}
  BY DEF PageSound, PageShapes, TypeOK
<1>2. CASE recovery \/ stopping
  BY <1>1, <1>2, IdleStep DEF RequireReconnect
<1>3. CASE ~(recovery \/ stopping)
  <2>1. StopSync /\ recovery' = TRUE
    BY <1>3 DEF RequireReconnect
  <2> QED  BY <1>1, <2>1, StopKeeps
<1> QED  BY <1>2, <1>3

\* The head of the log, and what the log is once it is taken.
LEMMA HeadTaken ==
  ASSUME PageSound, log # <<>>, log' = Tail(log)
  PROVE  /\ log' \in Seq(EventRow) /\ BoundOnce'
         /\ 1 \in DOMAIN log /\ Head(log) = log[1]
         /\ log[1].epoch \in 0..MaxEpoch + 1 /\ log[1].epoch \in Nat \ {0}
         /\ log[1].epoch <= server.epoch /\ log[1].kind \in Kinds
         /\ \A i \in DOMAIN log' : i + 1 \in DOMAIN log /\ log'[i] = log[i + 1] /\ 1 < i + 1
         /\ \A i \in DOMAIN log' : \E j \in DOMAIN log : log'[i] = log[j]
         /\ \A i \in DOMAIN log : i = 1 \/ (i - 1 \in DOMAIN log' /\ log'[i - 1] = log[i] /\ 1 < i)
<1>1. log \in Seq(EventRow) /\ BoundOnce
  BY DEF PageSound, PageShapes
<1>2. /\ log' \in Seq(EventRow) /\ BoundOnce'
      /\ 1 \in DOMAIN log /\ Head(log) = log[1] /\ log[1] \in EventRow
      /\ \A i \in DOMAIN log' : i + 1 \in DOMAIN log /\ log'[i] = log[i + 1] /\ 1 < i + 1
      /\ \A i \in DOMAIN log : i = 1 \/ (i - 1 \in DOMAIN log' /\ log'[i - 1] = log[i] /\ 1 < i)
  BY <1>1, LogTaken
<1>3. /\ log[1].epoch \in Nat \ {0} /\ log[1].epoch <= server.epoch /\ log[1].kind \in Kinds
      /\ log[1].epoch \in 0..MaxEpoch + 1
  BY <1>2, KnownEpochs DEF EventRow
<1>4. \A i \in DOMAIN log' : \E j \in DOMAIN log : log'[i] = log[j]
  BY <1>2
<1> QED  BY <1>2, <1>3, <1>4

\* Taking the head forgets no announcement the gate still needs.
LEMMA HeadForgotten ==
  ASSUME PageSound, log # <<>>, log' = Tail(log), server' = server, sse' = sse,
         gate'.epoch \in Nat, gate.epoch <= gate'.epoch,
         log[1].kind = "interrupted" => log[1].epoch <= gate'.epoch
  PROVE  Announced'
<1>1. \A i \in DOMAIN log : i = 1 \/ (i - 1 \in DOMAIN log' /\ log'[i - 1] = log[i] /\ 1 < i)
  BY HeadTaken
<1>2. /\ 1 \in DOMAIN log
      /\ \A i \in DOMAIN log' : i \in Int /\ i + 1 \in DOMAIN log /\ log'[i] = log[i + 1] /\ 1 < i + 1
  <2>1. \A i \in DOMAIN log' : i \in Int
    BY HeadTaken
  <2> QED  BY <2>1, HeadTaken
<1>3. /\ \A i \in DOMAIN log : i \in Int /\ log[i].epoch \in Nat
      /\ server.epoch \in Nat /\ gate.epoch \in Nat
  BY KnownEpochs, SMTT(30) DEF PageSound, PageShapes
<1>4. server'.epoch <= gate'.epoch \/ sse' = "closed" \/ Told(server.epoch)'
  <2>1. CASE server.epoch <= gate.epoch \/ sse = "closed"
    BY <1>3, <2>1
  <2>2. CASE Told(server.epoch)
    <3>1. PICK i \in DOMAIN log : log[i].kind = "interrupted" /\ log[i].epoch >= server.epoch
      BY <2>2 DEF Told
    <3>2. CASE i = 1
      BY <1>3, <3>1, <3>2
    <3>3. CASE i # 1
      BY <1>1, <3>1, <3>3 DEF Told
    <3> QED  BY <3>2, <3>3
  <2> QED  BY <2>1, <2>2 DEF PageSound, Announced
<1>5. ASSUME NEW j \in DOMAIN log', ~(log'[j].epoch <= gate'.epoch)
      PROVE  \E i \in DOMAIN log' : i <= j /\ log'[i].kind = "interrupted" /\ log'[i].epoch = log'[j].epoch
  <2>1. j + 1 \in DOMAIN log /\ log'[j] = log[j + 1] /\ j \in Int
    BY <1>2
  <2>2. ~(log[j + 1].epoch <= gate.epoch)
    BY <1>3, <1>5, <2>1
  <2>3. PICK i \in DOMAIN log : i <= j + 1 /\ log[i].kind = "interrupted" /\ log[i].epoch = log[j + 1].epoch
    BY <2>1, <2>2 DEF PageSound, Announced
  <2>4. i # 1
    BY <1>5, <2>1, <2>3
  <2>5. i - 1 \in DOMAIN log' /\ log'[i - 1] = log[i] /\ i - 1 <= j
    BY <1>1, <1>3, <2>1, <2>3, <2>4
  <2> QED  BY <2>1, <2>3, <2>5
<1> QED  BY <1>4, <1>5 DEF Announced

\* An event older than the gate is dropped.
LEMMA DropKeeps ==
  ASSUME PageSound, log # <<>>, log' = Tail(log), log[1].epoch < gate.epoch, Drop,
         UNCHANGED <<server, published, phase, session, room, controls, floor>>
  PROVE  PageSound'
<1> USE DEF PageSound, roomVars, mediaVars, flagVars, Drop
<1>1. /\ log' \in Seq(EventRow) /\ BoundOnce' /\ log[1].epoch \in Nat
      /\ \A i \in DOMAIN log' : \E j \in DOMAIN log : log'[i] = log[j]
      /\ \A i \in DOMAIN log : i = 1 \/ (i - 1 \in DOMAIN log' /\ log'[i - 1] = log[i])
  BY HeadTaken
<1>2. gate.epoch \in Nat /\ gate' = gate
  BY KnownEpochs
<1>3. Announced'
  BY <1>1, <1>2, HeadForgotten
<1>4. TypeOK'
  BY DEF TypeOK, PageShapes
<1>5. PageShapes' /\ AnswerInHand'
  BY <1>1, <1>4 DEF PageShapes, AnswerInHand
<1>6. BindingsAreNew' /\ BindingPassed' /\ OpenToHear'
  BY <1>1 DEF BindingsAreNew, BindingPassed, OpenToHear
<1>7. LeftIsTold'
  <2>1. ASSUME Told(gate.epoch) PROVE Told(gate.epoch)'
    <3>1. PICK i \in DOMAIN log : log[i].kind = "interrupted" /\ log[i].epoch >= gate.epoch
      BY <2>1 DEF Told
    <3>2. i # 1
      BY <1>1, <1>2, <3>1
    <3>3. /\ i - 1 \in DOMAIN log' /\ log'[i - 1].kind = "interrupted"
          /\ log'[i - 1].epoch >= gate'.epoch
      BY <1>1, <1>2, <3>1, <3>2
    <3> QED  BY <3>3 DEF Told
  <2> QED  BY <2>1 DEF LeftIsTold
<1> QED  BY <1>1, <1>3, <1>5, <1>6, <1>7

\* An interruption, an error or the close of the session silences the page.
LEMMA CancelKeeps ==
  ASSUME PageSound, log # <<>>, sse = "open", log[1].epoch >= gate.epoch,
         gate' = CancelTo(gate, log[1].epoch), Detach, UpdateSubscriptions(gate'),
         UNCHANGED <<known, tracks, recovery, server, published, phase, session, room, controls, floor>>,
         \/ log' = Tail(log) /\ UNCHANGED <<active, stopping, mic, sse>>
         \/ active' = FALSE /\ stopping' = TRUE /\ mic' = Released /\ sse' = "closed" /\ log' = <<>>
  PROVE  PageSound'
<1>1. 1 \in DOMAIN log
  BY DEF PageSound, PageShapes
<1>2. log[1].epoch \in 0..MaxEpoch + 1 /\ log[1].epoch <= server.epoch
  BY <1>1, KnownEpochs DEF EventRow
<1>3. /\ gate' \in GateRow /\ gate'.binding = 0 /\ gate'.epoch = log[1].epoch /\ gate'.min >= gate.min
      /\ gate'.min \in Int /\ gate'.epoch <= server.epoch
  <2>1. gate' \in GateRow /\ gate'.binding = 0 /\ gate'.epoch = log[1].epoch /\ gate'.min >= gate.min
    BY <1>2, GateMoves
  <2> QED  BY <1>2, <2>1, KnownEpochs DEF GateRow
<1>4. playing' = 0 /\ newest' = newest /\ wanted' = {}
  BY <1>3 DEF Detach, UpdateSubscriptions, Accepted
<1>5. floor' \in Nat /\ (floor' # 0 => floor' < gate'.min)
  BY <1>3, KnownEpochs DEF PageSound, BindingPassed
<1>6. /\ server' \in [epoch : 0..MaxEpoch + 1, stage : {"idle", "preparing", "published", "bound"},
                      closed : BOOLEAN]
      /\ wanted' \subseteq known' /\ tracks' \subseteq known' /\ known' \subseteq Epoch
      /\ controls' \in Seq(ControlRow)
      /\ \A i \in DOMAIN controls' : (controls'[i].st = "queued") <=> (i > 1)
      /\ controls' # <<>> => controls'[1].epoch <= server.epoch
      /\ room' \in {"new", "connecting", "connected", "closed"}
      /\ phase' \in {"create", "poll", "grant", "join", "unlock", "microphone", "publish", "up", "ended"}
      /\ phase' \notin {"create", "poll", "grant"}
      /\ AnswerInHand'
  BY <1>4 DEF PageSound, PageShapes, TypeOK, OpenToHear, AnswerInHand
<1>7. /\ {session', active', stopping', recovery'} \subseteq BOOLEAN
      /\ mic' \in {"none", "on", "off"} /\ sse' \in {"none", "open", "closed"}
      /\ stopping' <=> sse' = "closed"
  <2>1. /\ {session, active, stopping, recovery} \subseteq BOOLEAN /\ mic \in {"none", "on", "off"}
        /\ stopping <=> sse = "closed"
    BY DEF PageSound, PageShapes, TypeOK, OpenToHear
  <2>2. Released \in {"none", "on", "off"}
    BY <2>1 DEF Released
  <2>3. CASE UNCHANGED <<active, stopping, mic, sse>>
    BY <2>1, <2>3
  <2>4. CASE active' = FALSE /\ stopping' = TRUE /\ mic' = Released /\ sse' = "closed"
    BY <2>1, <2>2, <2>4
  <2> QED  BY <2>3, <2>4
<1>8. CASE log' = Tail(log) /\ UNCHANGED <<active, stopping, mic, sse>>
  <2>1. gate'.epoch \in Nat /\ gate.epoch <= gate'.epoch
    BY <1>2, <1>3, KnownEpochs
  <2>2. Announced'
    BY <1>3, <1>8, <2>1, <1>2, HeadForgotten
  <2>3. log' \in Seq(EventRow) /\ BoundOnce' /\ \A i \in DOMAIN log' : \E j \in DOMAIN log : log'[i] = log[j]
    BY <1>8, HeadTaken
  <2> QED  BY <1>3, <1>4, <1>5, <1>6, <1>7, <2>2, <2>3, SilentStep
<1>9. CASE sse' = "closed" /\ log' = <<>>
  <2>1. log' \in Seq(EventRow) /\ BoundOnce' /\ DOMAIN log' = {}
    BY <1>9, LogEmpty
  <2>2. Announced'
    BY <1>9, <2>1 DEF Announced
  <2> QED  BY <1>3, <1>4, <1>5, <1>6, <1>7, <2>1, <2>2, SilentStep
<1> QED  BY <1>8, <1>9

\* A binding that arrives is of an epoch the gate has reached, and newer than all heard.
LEMMA BindingArrives ==
  ASSUME PageSound, log # <<>>, log[1].kind = "playback_binding", log[1].epoch >= gate.epoch
  PROVE  log[1].epoch = gate.epoch /\ newest < gate.epoch /\ gate.binding = 0
<1>1. 1 \in DOMAIN log /\ \A i \in DOMAIN log : i \in Int /\ i >= 1
  BY DEF PageSound, PageShapes
<1>2. \A i \in DOMAIN log : i <= 1 => i = 1
  BY <1>1
<1>3. log[1].epoch <= gate.epoch
  BY <1>1, <1>2 DEF PageSound, Announced
<1>4. log[1].epoch = gate.epoch
  BY <1>1, <1>3, KnownEpochs
<1> QED  BY <1>1, <1>4, KnownEpochs DEF PageSound, BindingsAreNew

\* An answer is bound: it may be heard at once, if its track is here.
LEMMA BindKeeps ==
  ASSUME PageSound, log # <<>>, sse = "open", log[1].kind = "playback_binding",
         log[1].epoch >= gate.epoch, log' = Tail(log),
         UNCHANGED <<known, tracks, flagVars, mic, sse, server, published, phase, session, room,
                     controls, floor>>,
         IF ~Binds(gate, log[1].epoch)
           THEN gate' = Advance(gate, log[1].epoch) /\ UNCHANGED <<wanted, mediaVars>>
           ELSE /\ gate' = Bind(gate, log[1].epoch) /\ UpdateSubscriptions(gate')
                /\ Attach(gate', tracks \cap {log[1].epoch})
  PROVE  PageSound'
<1> USE DEF flagVars, mediaVars
<1>1. /\ log' \in Seq(EventRow) /\ BoundOnce' /\ 1 \in DOMAIN log
      /\ log[1].epoch \in 0..MaxEpoch + 1 /\ log[1].epoch \in Nat \ {0} /\ log[1].epoch <= server.epoch
      /\ \A i \in DOMAIN log' : i + 1 \in DOMAIN log /\ log'[i] = log[i + 1] /\ 1 < i + 1
      /\ \A i \in DOMAIN log' : \E j \in DOMAIN log : log'[i] = log[j]
      /\ \A i \in DOMAIN log : i = 1 \/ (i - 1 \in DOMAIN log' /\ log'[i - 1] = log[i])
  BY HeadTaken
<1>2. log[1].epoch = gate.epoch /\ newest < gate.epoch /\ gate.binding = 0
  BY BindingArrives
<1>3. /\ gate' \in GateRow /\ gate'.epoch = gate.epoch /\ gate'.min = gate.min
      /\ gate'.binding \in {0, gate'.epoch}
      /\ ~Binds(gate, log[1].epoch) => gate'.binding = 0
      /\ Binds(gate, log[1].epoch) => gate'.binding = gate.epoch
  BY <1>1, <1>2, GateMoves
<1>4. \/ /\ gate'.binding = 0 /\ UNCHANGED <<wanted, playing, newest>>
      \/ /\ gate'.binding = gate.epoch /\ gate.min <= gate.epoch /\ gate.epoch # 0
         /\ wanted' = known \cap {gate.epoch}
         /\ \/ playing' = gate.epoch /\ gate.epoch \in tracks /\ newest' = gate.epoch
            \/ playing' = playing /\ newest' = newest
  <2>1. CASE ~Binds(gate, log[1].epoch)
    BY <1>3, <2>1
  <2>2. CASE Binds(gate, log[1].epoch)
    <3>1. gate' = Bind(gate, log[1].epoch) /\ UpdateSubscriptions(gate')
          /\ Attach(gate', tracks \cap {log[1].epoch})
      BY <2>2
    <3>2. gate'.binding = gate.epoch /\ gate.epoch # 0 /\ Accepted(gate') = {gate.epoch}
      BY <1>1, <1>2, <1>3, <2>2 DEF Accepted
    <3>3. wanted' = known \cap {gate.epoch} /\ gate.min <= gate.epoch
      BY <1>2, <2>2, <3>1, <3>2 DEF UpdateSubscriptions, Binds
    <3>4. playing <= newest
      BY KnownEpochs DEF PageSound, OpenToHear
    <3>5. \/ playing' = gate.epoch /\ gate.epoch \in tracks /\ newest' = gate.epoch
          \/ playing' = playing /\ newest' = newest
      BY <1>2, <3>1, <3>2, <3>4, KnownEpochs DEF Attach, Larger
    <3> QED  BY <3>2, <3>3, <3>5
  <2> QED  BY <2>1, <2>2
<1>5. Announced'
  <2>1. gate'.epoch \in Nat /\ gate.epoch <= gate'.epoch
    BY <1>3, KnownEpochs
  <2> QED  BY <2>1, HeadForgotten
<1>6. PageShapes'
  <2>1. gate' \in [epoch : 0..MaxEpoch + 1, binding : {0, gate'.epoch}, min : 0..MaxEpoch + 2]
    BY <1>3, GateShape
  <2>2. TypeOK'
    BY <1>4, <2>1 DEF PageSound, PageShapes, TypeOK
  <2>3. playing' \in Nat /\ newest' \in 0..server.epoch
    BY <1>4, KnownEpochs
  <2>4. \A i \in DOMAIN log' : log'[i].epoch <= server'.epoch
    BY <1>1, KnownEpochs
  <2> QED  BY <1>1, <1>3, <2>2, <2>3, <2>4 DEF PageSound, PageShapes
<1>7. AnswerInHand'
  BY DEF PageSound, AnswerInHand
<1>8. BindingsAreNew'
  <2>1. ASSUME NEW i \in DOMAIN log', log'[i].kind = "playback_binding"
        PROVE  gate.epoch < log'[i].epoch /\ newest < log'[i].epoch
    <3>1. i + 1 \in DOMAIN log /\ 1 < i + 1 /\ log'[i] = log[i + 1]
      BY <1>1
    <3>2. log[1].epoch < log[i + 1].epoch
      BY <1>1, <2>1, <3>1 DEF PageSound, BoundOnce
    <3>3. newest < log[i + 1].epoch
      BY <2>1, <3>1 DEF PageSound, BindingsAreNew
    <3> QED  BY <1>2, <3>1, <3>2, <3>3
  <2>2. \A i \in DOMAIN log' : log'[i].kind = "playback_binding" =>
          newest' < log'[i].epoch /\ gate'.binding < log'[i].epoch
    <3>1. newest' \in {newest, gate.epoch} /\ gate'.binding \in {0, gate.epoch}
      BY <1>4
    <3>2. \A i \in DOMAIN log' : 0 < log'[i].epoch
      <4>1. \A j \in DOMAIN log : 0 < log[j].epoch
        BY KnownEpochs
      <4> QED  BY <1>1, <4>1
    <3> QED  BY <2>1, <3>1, <3>2
  <2>3. ASSUME server.stage \in {"preparing", "published"}
        PROVE  /\ newest' < server.epoch /\ gate'.binding < server.epoch
               /\ \A i \in DOMAIN log' : log'[i].kind = "playback_binding" => log'[i].epoch < server.epoch
    <3>1. log[1].epoch < server.epoch /\ newest < server.epoch
      BY <1>1, <2>3 DEF PageSound, BindingsAreNew
    <3>2. \A i \in DOMAIN log' : log'[i].kind = "playback_binding" => log'[i].epoch < server.epoch
      BY <1>1, <2>3 DEF PageSound, BindingsAreNew
    <3> QED  BY <1>2, <1>4, <3>1, <3>2, KnownEpochs
  <2> QED  BY <2>2, <2>3 DEF BindingsAreNew
<1>9. BindingPassed'
  BY <1>2, <1>3, <1>4 DEF PageSound, BindingPassed
<1>10. OpenToHear'
  BY <1>4, KnownEpochs DEF PageSound, OpenToHear
<1>11. LeftIsTold'
  <2>1. ASSUME playing # 0 PROVE playing < gate.epoch /\ Told(gate.epoch)'
    <3>1. playing < gate.epoch /\ Told(gate.epoch)
      BY <1>2, <2>1 DEF PageSound, LeftIsTold
    <3>2. PICK i \in DOMAIN log : log[i].kind = "interrupted" /\ log[i].epoch >= gate.epoch
      BY <3>1 DEF Told
    <3>3. i # 1
      BY <3>2
    <3>4. i - 1 \in DOMAIN log' /\ log'[i - 1].kind = "interrupted" /\ log'[i - 1].epoch >= gate'.epoch
      BY <1>1, <1>3, <3>2, <3>3
    <3> QED  BY <3>1, <3>4 DEF Told
  <2>2. playing' # playing => playing' = gate'.binding
    BY <1>4
  <2> QED  BY <1>3, <2>1, <2>2 DEF LeftIsTold
<1> QED  BY <1>1, <1>5, <1>6, <1>7, <1>8, <1>9, <1>10, <1>11 DEF PageSound

\* onEvent(), kind by kind.
LEMMA HandleEventKeeps ==
  ASSUME PageSound, HandleEvent
  PROVE  PageSound'
<1>1. /\ sse = "open" /\ log # <<>> /\ Head(log) = log[1]
      /\ UNCHANGED <<server, published, phase, session, room, controls, floor>>
  BY DEF HandleEvent, ctlVars, PageSound, PageShapes
<1>2. CASE RequireReconnect /\ UNCHANGED roomVars
  BY <1>1, <1>2, RequireReconnectKeeps
<1>3. CASE Head(log).epoch < gate.epoch /\ Taken /\ Drop
  BY <1>1, <1>3, DropKeeps DEF Taken
<1>4. CASE /\ Head(log).kind \in {"interrupted", "error", "closed"} /\ Head(log).epoch >= gate.epoch
           /\ gate' = CancelTo(gate, Head(log).epoch) /\ Detach
           /\ UpdateSubscriptions(gate') /\ UNCHANGED <<known, tracks, recovery>>
           /\ IF Head(log).kind # "closed"
                THEN Taken /\ UNCHANGED <<active, stopping, mic, sse, teardown>>
                ELSE /\ active' = FALSE /\ stopping' = TRUE /\ mic' = Released
                     /\ sse' = "closed" /\ log' = <<>> /\ teardown' = "closing"
  <2>1. \/ log' = Tail(log) /\ UNCHANGED <<active, stopping, mic, sse>>
        \/ active' = FALSE /\ stopping' = TRUE /\ mic' = Released /\ sse' = "closed" /\ log' = <<>>
    BY <1>4 DEF Taken
  <2> QED  BY <1>1, <1>4, <2>1, CancelKeeps
<1>5. CASE /\ Head(log).kind = "playback_binding" /\ Head(log).epoch >= gate.epoch /\ Taken
           /\ UNCHANGED <<known, tracks, flagVars, mic, sse, teardown>>
           /\ IF ~Binds(gate, Head(log).epoch)
                THEN gate' = Advance(gate, Head(log).epoch) /\ UNCHANGED <<wanted, mediaVars>>
                ELSE /\ gate' = Bind(gate, Head(log).epoch) /\ UpdateSubscriptions(gate')
                     /\ Attach(gate', tracks \cap {Head(log).epoch})
  BY <1>1, <1>5, BindKeeps DEF Taken
<1> QED  BY <1>1, <1>2, <1>3, <1>4, <1>5 DEF HandleEvent

-----------------------------------------------------------------------------
(* The room and the element. *)

\* A handler of the room: it may take a track from the element, or put the bound one on.
LEMMA RoomStep ==
  ASSUME PageSound, UNCHANGED <<server, log, published, gate, phase, linkVars, flagVars, controls, floor>>,
         wanted' \subseteq known', tracks' \subseteq known', known' \subseteq Epoch,
         gate.binding # 0 => wanted' = known' \cap {gate.binding},
         playing' # 0 => playing' \in tracks',
         \/ playing' = playing /\ newest' = newest
         \/ playing' = 0 /\ newest' = newest /\ (playing = gate.binding => playing \notin published)
         \/ playing' = gate.binding /\ gate.binding # 0 /\ newest' = Larger(newest, gate.binding)
  PROVE  PageSound'
<1> USE DEF linkVars, flagVars
<1>1. /\ newest \in Nat /\ playing \in Nat /\ gate.binding \in Nat /\ gate.epoch \in Nat /\ server.epoch \in Nat
      /\ gate.binding <= server.epoch /\ newest <= server.epoch
  BY KnownEpochs
<1>2. /\ playing' \in {playing, 0, gate.binding} /\ playing' \in Nat
      /\ newest' \in {newest, gate.binding} /\ newest' \in 0..server.epoch
  BY <1>1 DEF Larger
<1>3. TypeOK'
  BY <1>2 DEF PageSound, PageShapes, TypeOK
<1>4. PageShapes'
  BY <1>2, <1>3 DEF PageSound, PageShapes
<1>5. AnswerInHand' /\ BoundOnce' /\ Announced'
  BY DEF PageSound, AnswerInHand, BoundOnce, Announced, Told
<1>6. BindingsAreNew'
  BY <1>2 DEF PageSound, BindingsAreNew
<1>7. BindingPassed'
  BY <1>1 DEF PageSound, BindingPassed
<1>8. OpenToHear'
  <2>1. playing' # 0 => sse = "open"
    BY DEF PageSound, OpenToHear, BindingPassed
  <2>2. playing' # 0 => playing' <= newest'
    BY <1>1 DEF PageSound, OpenToHear, Larger
  <2> QED  BY <2>1, <2>2 DEF PageSound, OpenToHear
<1>9. LeftIsTold'
  BY <1>2 DEF PageSound, LeftIsTold, Told
<1> QED  BY <1>4, <1>5, <1>6, <1>7, <1>8, <1>9 DEF PageSound

\* Tracks are published, subscribed, unsubscribed and unpublished.
LEMMA RoomKeeps ==
  ASSUME PageSound, Room
  PROVE  PageSound'
<1>1. /\ wanted \subseteq known /\ tracks \subseteq known /\ known \subseteq Epoch
      /\ published \subseteq Epoch /\ (playing # 0 => playing \in tracks)
      /\ (gate.binding # 0 => wanted = known \cap {gate.binding})
  BY DEF PageSound, PageShapes, TypeOK, BindingPassed
<1>2. playing <= newest /\ playing \in Nat /\ newest \in Nat /\ gate.binding \in Nat
  BY KnownEpochs DEF PageSound, OpenToHear
<1>3. CASE TrackPublished
  <2>1. PICK t \in published \ known :
          /\ known' = known \cup {t}
          /\ wanted' = IF t \in Accepted(gate) THEN wanted \cup {t} ELSE wanted \ {t}
    BY <1>3 DEF TrackPublished
  <2>2. UNCHANGED <<tracks, gate, playing, newest, server, log, published, phase, linkVars, flagVars,
                    controls, floor>>
    BY <1>3 DEF TrackPublished, roomFrame, sessionVars, mediaVars, ctlVars
  <2>3. gate.binding # 0 => wanted' = known' \cap {gate.binding}
    BY <1>1, <2>1 DEF Accepted
  <2>4. wanted' \subseteq known' /\ tracks' \subseteq known' /\ known' \subseteq Epoch
        /\ (playing' # 0 => playing' \in tracks')
    BY <1>1, <2>1, <2>2
  <2> QED  BY <2>2, <2>3, <2>4, RoomStep
<1>4. CASE TrackSubscribed
  <2>1. PICK t \in (wanted \cap published) \ tracks : tracks' = tracks \cup {t} /\ Attach(gate, {t})
    BY <1>4 DEF TrackSubscribed
  <2>2. UNCHANGED <<known, wanted, gate, server, log, published, phase, linkVars, flagVars,
                    controls, floor>>
    BY <1>4 DEF TrackSubscribed, roomFrame, sessionVars, ctlVars
  <2>3. \/ playing' = playing /\ newest' = newest
        \/ playing' = gate.binding /\ gate.binding # 0 /\ newest' = Larger(newest, gate.binding)
           /\ playing' \in tracks'
    BY <1>2, <2>1 DEF Attach, Accepted, Larger
  <2>4. wanted' \subseteq known' /\ tracks' \subseteq known' /\ known' \subseteq Epoch
        /\ (playing' # 0 => playing' \in tracks')
        /\ (gate.binding # 0 => wanted' = known' \cap {gate.binding})
    BY <1>1, <2>1, <2>2, <2>3
  <2> QED  BY <2>2, <2>3, <2>4, RoomStep
<1>5. CASE TrackUnsubscribed
  <2>1. PICK t \in tracks \ (wanted \cap published) :
          tracks' = tracks \ {t} /\ playing' = IF t = playing THEN 0 ELSE playing
    BY <1>5 DEF TrackUnsubscribed
  <2>2. UNCHANGED <<known, wanted, gate, newest, server, log, published, phase, linkVars, flagVars,
                    controls, floor>>
    BY <1>5 DEF TrackUnsubscribed, roomFrame, sessionVars, ctlVars
  <2>3. t # 0 /\ (t = gate.binding => t \notin published)
    BY <1>1, <2>1 DEF Epoch
  <2>4. wanted' \subseteq known' /\ tracks' \subseteq known' /\ known' \subseteq Epoch
        /\ (playing' # 0 => playing' \in tracks')
        /\ (gate.binding # 0 => wanted' = known' \cap {gate.binding})
    BY <1>1, <2>1, <2>2
  <2>5. \/ playing' = playing /\ newest' = newest
        \/ playing' = 0 /\ newest' = newest /\ (playing = gate.binding => playing \notin published)
    BY <2>1, <2>2, <2>3
  <2> QED  BY <2>2, <2>4, <2>5, RoomStep
<1>6. CASE TrackUnpublished
  <2>1. PICK t \in known \ (published \cup tracks) : known' = known \ {t} /\ wanted' = wanted \ {t}
    BY <1>6 DEF TrackUnpublished
  <2>2. UNCHANGED <<tracks, gate, playing, newest, server, log, published, phase, linkVars, flagVars,
                    controls, floor>>
    BY <1>6 DEF TrackUnpublished, roomFrame, sessionVars, mediaVars, ctlVars
  <2>3. wanted' \subseteq known' /\ tracks' \subseteq known' /\ known' \subseteq Epoch
        /\ (playing' # 0 => playing' \in tracks')
        /\ (gate.binding # 0 => wanted' = known' \cap {gate.binding})
    BY <1>1, <2>1, <2>2
  <2> QED  BY <2>2, <2>3, RoomStep
<1> QED  BY <1>3, <1>4, <1>5, <1>6 DEF Room

-----------------------------------------------------------------------------
(* Trouble, the controls and the end. *)

\* The gate is blocked, the sound detached, and the stream left as it was.
LEMMA BlockKeeps ==
  ASSUME PageSound, gate' = Block(gate), Detach,
         UNCHANGED <<log, published, sse, stopping, recovery, session, phase>>,
         server' = server
           \/ server' = [server EXCEPT !.closed = TRUE, !.stage = "idle"],
         wanted' \subseteq known', tracks' \subseteq known', known' \subseteq Epoch,
         mic' \in {mic, Released}, active' \in BOOLEAN,
         room' \in {"new", "connecting", "connected", "closed"},
         floor' = floor \/ floor' = Larger(floor, gate.epoch),
         controls' \in Seq(ControlRow),
         \A i \in DOMAIN controls' : (controls'[i].st = "queued") <=> (i > 1),
         controls' # <<>> => controls'[1].epoch <= server.epoch
  PROVE  PageSound'
<1>1. /\ gate' \in GateRow /\ gate'.binding = 0 /\ gate'.epoch = gate.epoch /\ gate'.min >= gate.min
      /\ gate'.min > gate.epoch /\ gate'.min \in Int /\ gate.epoch <= server.epoch
  <2>1. 0 \in 0..MaxEpoch + 1
    BY KnownEpochs
  <2>2. /\ gate' \in GateRow /\ gate'.binding = 0 /\ gate'.epoch = gate.epoch /\ gate'.min >= gate.min
        /\ gate'.min > gate.epoch
    BY <2>1, GateMoves
  <2> QED  BY <2>2, KnownEpochs DEF GateRow
<1>2. playing' = 0 /\ newest' = newest
  BY DEF Detach
<1>3. floor' \in Nat /\ (floor' # 0 => floor' < gate'.min)
  <2>1. floor' \in {floor, gate.epoch}
    BY DEF Larger
  <2>2. floor # 0 => floor < gate'.min
    BY <1>1, KnownEpochs DEF PageSound, BindingPassed
  <2> QED  BY <1>1, <2>1, <2>2, KnownEpochs
<1>4. /\ server' \in [epoch : 0..MaxEpoch + 1, stage : {"idle", "preparing", "published", "bound"},
                      closed : BOOLEAN]
      /\ server'.epoch = server.epoch /\ server'.stage \in {server.stage, "idle"} /\ AnswerInHand'
  BY DEF PageSound, PageShapes, TypeOK, AnswerInHand
<1>5. log' \in Seq(EventRow) /\ BoundOnce' /\ \A i \in DOMAIN log' : \E j \in DOMAIN log : log'[i] = log[j]
  BY DEF PageSound, PageShapes, BoundOnce
<1>6. Announced'
  BY <1>1, <1>4 DEF PageSound, Announced, Told
<1>7. /\ {session', active', stopping', recovery'} \subseteq BOOLEAN
      /\ mic' \in {"none", "on", "off"} /\ sse' \in {"none", "open", "closed"}
      /\ phase' \in {"create", "poll", "grant", "join", "unlock", "microphone", "publish", "up", "ended"}
      /\ (stopping' <=> sse' = "closed")
      /\ (phase' \in {"create", "poll", "grant"} => sse' # "open")
  BY DEF PageSound, PageShapes, TypeOK, OpenToHear, Released
<1> QED  BY <1>1, <1>2, <1>3, <1>4, <1>5, <1>6, <1>7, SilentStep

\* The room is lost, or the connection is in trouble.
LEMMA TroubleKeeps ==
  ASSUME PageSound, Trouble
  PROVE  PageSound'
<1>1. /\ controls \in Seq(ControlRow)
      /\ \A i \in DOMAIN controls : (controls[i].st = "queued") <=> (i > 1)
      /\ controls # <<>> => controls[1].epoch <= server.epoch
  BY DEF PageSound, PageShapes, TypeOK
<1>2. CASE Disconnected
  <2>1. /\ gate' = Block(gate) /\ Detach /\ mic' = Released /\ active' = FALSE
        /\ known' = {} /\ wanted' = {} /\ tracks' = {} /\ room' = "closed"
        /\ UNCHANGED <<server, log, published, sse, stopping, recovery, session, phase, controls, floor>>
    BY <1>2 DEF Disconnected, Leave, sessionVars, ctlVars
  <2>2. wanted' \subseteq known' /\ tracks' \subseteq known' /\ known' \subseteq Epoch
    BY <2>1
  <2> QED  BY <1>1, <2>1, <2>2, BlockKeeps
<1>3. CASE ConnectionTrouble
  BY <1>3, RequireReconnectKeeps DEF ConnectionTrouble, servedVars, ctlVars
<1> QED  BY <1>2, <1>3 DEF Trouble

\* A chain whose links all wait: the first is sent, or the chain is given up.
LEMMA ChainStarts ==
  ASSUME NEW q \in Seq(ControlRow), \A i \in DOMAIN q : q[i].st = "queued",
         NEW g \in GateRow, NEW live \in BOOLEAN
  PROVE  /\ Chained(q, g, live) \in Seq(ControlRow)
         /\ \A i \in DOMAIN Chained(q, g, live) : (Chained(q, g, live)[i].st = "queued") <=> (i > 1)
         /\ Chained(q, g, live) # <<>> => Chained(q, g, live)[1].epoch = g.epoch
<1>1. CASE q = <<>>
  BY <1>1 DEF Chained
<1>2. CASE q # <<>> /\ ~live
  BY <1>2 DEF Chained
<1>3. CASE q # <<>> /\ live
  <2> DEFINE r == [q[1] EXCEPT !.st = "sent", !.epoch = g.epoch]
             c == [q EXCEPT ![1] = r]
  <2>1. 1 \in DOMAIN q /\ q[1] \in ControlRow /\ \A i \in DOMAIN q : i \in Int /\ i >= 1
    BY <1>3
  <2>2. r \in ControlRow /\ r.st = "sent" /\ r.epoch = g.epoch
    BY <2>1 DEF ControlRow, GateRow
  <2>3. Chained(q, g, live) = c
    BY <1>3 DEF Chained
  <2> HIDE DEF r
  <2>4. c \in Seq(ControlRow) /\ DOMAIN c = DOMAIN q /\ c[1] = r
        /\ \A i \in DOMAIN q : i # 1 => c[i] = q[i]
    BY <2>1, <2>2
  <2>5. \A i \in DOMAIN c : (c[i].st = "queued") <=> (i > 1)
    BY <2>1, <2>2, <2>4
  <2> QED  BY <2>2, <2>3, <2>4, <2>5
<1> QED  BY <1>1, <1>2, <1>3

\* What is left of the chain once its head has settled waits.
LEMMA RestWaits ==
  ASSUME PageSound, controls # <<>>
  PROVE  /\ Tail(controls) \in Seq(ControlRow)
         /\ \A i \in DOMAIN Tail(controls) : Tail(controls)[i].st = "queued"
         /\ controls[1].epoch \in 0..MaxEpoch + 1 /\ controls[1].epoch <= server.epoch
<1>1. /\ controls \in Seq(ControlRow) /\ Len(controls) >= 1
      /\ \A i \in DOMAIN controls : (controls[i].st = "queued") <=> (i > 1)
      /\ controls[1].epoch <= server.epoch
  BY DEF PageSound, PageShapes, TypeOK
<1>2. controls[1] \in ControlRow
  BY <1>1
<1>3. \A i \in DOMAIN Tail(controls) : i + 1 \in DOMAIN controls /\ i + 1 > 1
                                      /\ Tail(controls)[i] = controls[i + 1]
  BY <1>1
<1> QED  BY <1>1, <1>2, <1>3 DEF ControlRow

\* The user speaks up: the gate is blocked before the request leaves.
LEMMA ControlKeeps ==
  ASSUME PageSound, Control
  PROVE  PageSound'
<1>1. PICK kind \in {"interrupt", "text"} :
        LET c == [kind |-> kind, st |-> "queued", epoch |-> 0]
        IN  controls' = IF controls = <<>> THEN Chained(<<c>>, gate', TRUE) ELSE Append(controls, c)
  BY DEF Control
<1>2. PICK c \in ControlRow : c = [kind |-> kind, st |-> "queued", epoch |-> 0]
  <2>1. 0 \in 0..MaxEpoch + 1
    BY KnownEpochs
  <2> QED  BY <2>1 DEF ControlRow
<1>3. /\ controls' = IF controls = <<>> THEN Chained(<<c>>, gate', TRUE) ELSE Append(controls, c)
      /\ c.st = "queued"
  BY <1>1, <1>2
<1>4. gate' = Block(gate) /\ gate' \in GateRow /\ gate'.epoch = gate.epoch
  <2>1. 0 \in 0..MaxEpoch + 1
    BY KnownEpochs
  <2> QED  BY <2>1, GateMoves DEF Control
<1>5. /\ controls \in Seq(ControlRow)
      /\ \A i \in DOMAIN controls : (controls[i].st = "queued") <=> (i > 1)
      /\ controls # <<>> => controls[1].epoch <= server.epoch
      /\ wanted \subseteq known /\ tracks \subseteq known /\ known \subseteq Epoch
      /\ active \in BOOLEAN /\ room \in {"new", "connecting", "connected", "closed"}
  BY DEF PageSound, PageShapes, TypeOK
<1>6. /\ controls' \in Seq(ControlRow)
      /\ \A i \in DOMAIN controls' : (controls'[i].st = "queued") <=> (i > 1)
      /\ controls' # <<>> => controls'[1].epoch <= server.epoch
  <2>1. CASE controls = <<>>
    <3>1. <<c>> \in Seq(ControlRow) /\ \A i \in DOMAIN <<c>> : <<c>>[i].st = "queued"
      BY <1>3
    <3>2. PICK q \in Seq(ControlRow) : q = <<c>>
      BY <3>1
    <3>3. PICK g \in GateRow : g = gate' /\ g.epoch = gate.epoch
      BY <1>4
    <3>4. controls' = Chained(q, g, TRUE)
      BY <1>3, <2>1, <3>2, <3>3
    <3>5. /\ Chained(q, g, TRUE) \in Seq(ControlRow)
          /\ \A i \in DOMAIN Chained(q, g, TRUE) : (Chained(q, g, TRUE)[i].st = "queued") <=> (i > 1)
          /\ Chained(q, g, TRUE) # <<>> => Chained(q, g, TRUE)[1].epoch = g.epoch
      BY <3>1, <3>2, ChainStarts
    <3>6. gate.epoch <= server.epoch
      BY KnownEpochs
    <3> QED  BY <3>3, <3>4, <3>5, <3>6
  <2>2. CASE controls # <<>>
    <3>1. /\ controls' = Append(controls, c) /\ controls' \in Seq(ControlRow)
          /\ Len(controls) \in Nat /\ Len(controls) >= 1
          /\ DOMAIN controls' = 1..Len(controls) + 1 /\ DOMAIN controls = 1..Len(controls)
          /\ \A i \in DOMAIN controls : controls'[i] = controls[i]
          /\ controls'[Len(controls) + 1] = c
      BY <1>3, <1>5, <2>2
    <3>2. \A i \in DOMAIN controls' : i \in DOMAIN controls \/ i = Len(controls) + 1
      BY <3>1
    <3> QED  BY <1>3, <1>5, <2>2, <3>1, <3>2
  <2> QED  BY <2>1, <2>2
<1>7. /\ Detach /\ floor' = Larger(floor, gate.epoch) /\ server' = server
      /\ UNCHANGED <<log, published, sse, stopping, recovery, session, phase, wanted, tracks, known,
                     mic, active, room>>
  BY DEF Control, sessionVars, roomVars, linkVars, flagVars
<1> QED  BY <1>4, <1>5, <1>6, <1>7, BlockKeeps

\* The answer of a control advances the gate; the next control leaves.
LEMMA ControlSettles ==
  ASSUME PageSound, ControlAnswered \/ ControlFailed
  PROVE  PageSound'
<1>1. /\ controls # <<>> /\ UNCHANGED <<server, log, published, roomVars, mediaVars, phase, linkVars,
                                       flagVars, floor>>
      /\ controls' = Chained(Tail(controls), gate', active)
      /\ gate' = gate \/ gate' = Advance(gate, controls[1].epoch)
  BY DEF ControlAnswered, ControlFailed, sessionVars, pageVars
<1> USE DEF roomVars, mediaVars, linkVars, flagVars
<1>2. /\ controls[1].epoch \in 0..MaxEpoch + 1 /\ controls[1].epoch \in Nat /\ controls[1].epoch <= server.epoch
      /\ Tail(controls) \in Seq(ControlRow)
      /\ \A i \in DOMAIN Tail(controls) : Tail(controls)[i].st = "queued"
  BY <1>1, RestWaits
<1>3. /\ gate' \in GateRow /\ gate'.min = gate.min
      /\ \/ gate'.epoch = gate.epoch /\ gate'.binding = gate.binding
         \/ gate'.epoch = controls[1].epoch /\ gate'.epoch > gate.epoch /\ gate'.binding = 0
  BY <1>1, <1>2, GateMoves, KnownEpochs, SMTT(30)
<1>4. /\ gate'.epoch \in Nat /\ gate.epoch <= gate'.epoch /\ gate'.epoch <= server.epoch
      /\ gate'.binding \in {0, gate'.epoch} /\ gate'.binding \in {0, gate.binding}
  BY <1>2, <1>3, KnownEpochs, SMTT(30)
<1>5. /\ controls' \in Seq(ControlRow)
      /\ \A i \in DOMAIN controls' : (controls'[i].st = "queued") <=> (i > 1)
      /\ controls' # <<>> => controls'[1].epoch = gate'.epoch
  <2>1. active \in BOOLEAN
    BY DEF PageSound, PageShapes, TypeOK
  <2> QED  BY <1>1, <1>2, <1>3, <2>1, ChainStarts
<1>6. gate' \in [epoch : 0..MaxEpoch + 1, binding : {0, gate'.epoch}, min : 0..MaxEpoch + 2]
  BY <1>3, <1>4, GateShape
<1>7. TypeOK'
  BY <1>1, <1>5, <1>6 DEF PageSound, PageShapes, TypeOK
<1>8. PageShapes'
  BY <1>1, <1>4, <1>5, <1>7 DEF PageSound, PageShapes
<1>9. AnswerInHand' /\ BoundOnce' /\ OpenToHear'
  BY <1>1 DEF PageSound, AnswerInHand, BoundOnce, OpenToHear
<1>10. BindingsAreNew'
  <2>1. \A i \in DOMAIN log : 0 < log[i].epoch
    BY KnownEpochs
  <2>2. server.stage \in {"preparing", "published"} => 0 < server.epoch
    BY KnownEpochs DEF PageSound, BindingsAreNew
  <2> QED  BY <1>1, <1>4, <2>1, <2>2 DEF PageSound, BindingsAreNew
<1>11. BindingPassed'
  BY <1>1, <1>3, <1>4 DEF PageSound, BindingPassed
<1>12. Announced'
  <2>1. \A i \in DOMAIN log : log[i].epoch \in Nat
    BY KnownEpochs
  <2>2. gate.epoch \in Nat /\ server.epoch \in Nat
    BY KnownEpochs
  <2> QED  BY <1>1, <1>4, <2>1, <2>2 DEF PageSound, Announced, Told
<1>13. LeftIsTold'
  <2>1. CASE gate'.epoch = gate.epoch /\ gate'.binding = gate.binding
    BY <1>1, <2>1 DEF PageSound, LeftIsTold, Told
  <2>2. CASE gate'.epoch = controls[1].epoch /\ gate'.epoch > gate.epoch
    <3>1. ASSUME playing # 0 PROVE playing < gate'.epoch /\ Told(gate.epoch)'
      <4>1. playing <= gate.epoch /\ sse # "closed"
        BY <3>1, KnownEpochs DEF PageSound, LeftIsTold, OpenToHear
      <4>2. PICK i \in DOMAIN log : log[i].kind = "interrupted" /\ log[i].epoch >= server.epoch
        BY <1>4, <2>2, <4>1, KnownEpochs DEF PageSound, Announced, Told
      <4>3. log[i].epoch >= gate'.epoch
        BY <1>4, <4>2, KnownEpochs
      <4>4. i \in DOMAIN log' /\ log'[i].kind = "interrupted" /\ log'[i].epoch >= gate'.epoch
        BY <1>1, <4>2, <4>3
      <4>5. playing < gate'.epoch
        BY <1>4, <2>2, <4>1, KnownEpochs
      <4> QED  BY <4>4, <4>5 DEF Told
    <3> QED  BY <1>1, <3>1 DEF LeftIsTold
  <2> QED  BY <1>3, <2>1, <2>2
<1> QED  BY <1>8, <1>9, <1>10, <1>11, <1>12, <1>13 DEF PageSound

\* The user ends; stop() comes to its end.
LEMMA EndKeeps ==
  ASSUME PageSound, UserEnds \/ TearDown
  PROVE  PageSound'
<1>1. /\ {session, active, recovery} \subseteq BOOLEAN /\ room \in {"new", "connecting", "connected", "closed"}
      /\ wanted \subseteq known /\ tracks \subseteq known /\ known \subseteq Epoch
      /\ controls \in Seq(ControlRow)
      /\ \A i \in DOMAIN controls : (controls[i].st = "queued") <=> (i > 1)
      /\ controls # <<>> => controls[1].epoch <= server.epoch
  BY DEF PageSound, PageShapes, TypeOK
<1>2. CASE UserEnds
  BY <1>1, <1>2, StopKeeps DEF UserEnds, servedVars, ctlVars
<1>3. CASE TearDown
  <2>1. /\ gate' = Block(gate) /\ Detach /\ mic' \in {mic, Released}
        /\ server' = server \/ server' = [server EXCEPT !.closed = TRUE, !.stage = "idle"]
        /\ UNCHANGED <<log, published, phase, session, sse, active, stopping, recovery, controls, floor>>
        /\ Leave \/ UNCHANGED <<room, roomVars>>
    BY <1>3 DEF TearDown, flagVars, ctlVars
  <2>2. /\ wanted' \subseteq known' /\ tracks' \subseteq known' /\ known' \subseteq Epoch
        /\ room' \in {"new", "connecting", "connected", "closed"}
    BY <1>1, <2>1 DEF Leave, roomVars
  <2> QED  BY <1>1, <2>1, <2>2, BlockKeeps
<1> QED  BY <1>2, <1>3

\* Every step of the page and of its session.
LEMMA PageStep ==
  ASSUME PageSound, [Next]_vars
  PROVE  PageSound'
<1>1. CASE Session
  <2>1. ASSUME PublishAnswer \/ RetireTracks PROVE PageSound'
    <3>1. UNCHANGED <<log, pageVars>>
      BY <2>1 DEF PublishAnswer, RetireTracks
    <3> QED  BY <2>1, <3>1, QuietStep
  <2> QED  BY <1>1, <2>1, VoiceTurnKeeps, AnswerEventKeeps, CloseSessionKeeps DEF Session
<1>2. CASE Request
  <2>1. ASSUME AnswerControl PROVE PageSound'
    <3>1. UNCHANGED <<log, pageVars>>
      BY <2>1 DEF AnswerControl, sessionVars
    <3> QED  BY <2>1, <3>1, QuietStep
  <2> QED  BY <1>2, <2>1, ServeControlKeeps, ControlSettles DEF Request
<1>3. CASE UNCHANGED vars
  <2>1. /\ {session, active} \subseteq BOOLEAN /\ mic \in {"none", "on", "off"}
        /\ room \in {"new", "connecting", "connected", "closed"}
        /\ phase \in {"create", "poll", "grant", "join", "unlock", "microphone", "publish", "up", "ended"}
    BY DEF PageSound, PageShapes, TypeOK
  <2> QED  BY <1>3, <2>1, IdleStep DEF vars, roomVars, mediaVars, linkVars, flagVars, ctlVars
<1> QED  BY <1>1, <1>2, <1>3, ConnectingKeeps, HandleEventKeeps, RoomKeeps, TroubleKeeps,
            ControlKeeps, EndKeeps DEF Next

\* The invariant, for every reachable state.
THEOREM PageIsSound == Spec => []PageSound
<1>1. Init => PageSound
  BY PageOpens
<1>2. PageSound /\ [Next]_vars => PageSound'
  BY PageStep
<1> QED  BY <1>1, <1>2, PTL DEF Spec

\* What a person hears is what the gate authorizes, up to an interruption that is on its
\* way: for any number of epochs, controls and faults (PlaybackGate, onEvent, control).
THEOREM AudibleIsAlwaysAuthorized == Spec => []AudibleIsAuthorized
<1>1. PageSound => AudibleIsAuthorized
  <2> SUFFICES ASSUME PageSound, playing # 0, gate.binding # playing
               PROVE  /\ playing < gate.epoch /\ sse = "open"
                      /\ \E i \in DOMAIN log : log[i].kind = "interrupted" /\ log[i].epoch > playing
    BY DEF PageSound, PageShapes, AudibleIsAuthorized
  <2>1. playing < gate.epoch /\ Told(gate.epoch) /\ sse = "open"
    BY DEF PageSound, LeftIsTold, OpenToHear
  <2>2. PICK i \in DOMAIN log : log[i].kind = "interrupted" /\ log[i].epoch >= gate.epoch
    BY <2>1 DEF Told
  <2>3. log[i].epoch > playing
    BY <2>1, <2>2, KnownEpochs
  <2> QED  BY <2>1, <2>2, <2>3
<1> QED  BY <1>1, PageIsSound, PTL

-----------------------------------------------------------------------------
(* The page implements the listener's promise. *)

Promised == [Promise!Next]_(Promise!vars)

\* What is put on the element is newer than all that was heard, and than the last barge-in.
LEMMA HearingIsNew ==
  ASSUME PageSound, sse = "open", playing' \in Nat, playing' > newest, playing' > floor,
         newest' = playing', UNCHANGED <<floor, stopping>>
  PROVE  Promised
<1>1. ~stopping
  BY DEF PageSound, OpenToHear
<1>2. Promise!Hear
  BY <1>1 DEF Promise!Hear
<1> QED  BY <1>2 DEF Promised, Promise!Next

\* Nothing is heard, and nothing else moves.
LEMMA SilencePromised ==
  ASSUME playing' \in {0, playing}, newest' = newest, UNCHANGED <<floor, stopping>>
  PROVE  Promised
BY DEF Promised, Promise!Next, Promise!Silence, Promise!vars

\* The page stops.
LEMMA EndPromised ==
  ASSUME playing' = 0, newest' = newest, floor' = floor, stopping' = TRUE
  PROVE  Promised
BY DEF Promised, Promise!Next, Promise!End

\* A stop of the page, and what asks for one.
LEMMA StopPromised ==
  ASSUME StopSync \/ Abort \/ RequireReconnect, floor' = floor
  PROVE  Promised
<1>1. CASE StopSync
  BY <1>1, EndPromised DEF StopSync, Detach
<1>2. CASE UNCHANGED <<stopping, mediaVars>>
  BY <1>2, SilencePromised DEF mediaVars
<1> QED  BY <1>1, <1>2 DEF Abort, RequireReconnect

\* A track that arrives is put on the element only if it was never heard.
LEMMA SubscribedPromised ==
  ASSUME PageSound, TrackSubscribed
  PROVE  Promised
<1>1. PICK t \in (wanted \cap published) \ tracks : Attach(gate, {t})
  BY DEF TrackSubscribed
<1>2. UNCHANGED <<floor, stopping>>
  BY DEF TrackSubscribed, roomFrame, flagVars
<1>3. /\ playing <= newest /\ playing \in Nat /\ newest \in Nat /\ gate.binding \in Nat /\ floor \in Nat
      /\ gate.min \in Nat
  BY KnownEpochs DEF PageSound, OpenToHear
<1>4. CASE {t} \cap Accepted(gate) = {}
  BY <1>1, <1>2, <1>3, <1>4, SilencePromised DEF Attach, Larger
<1>5. CASE {t} \cap Accepted(gate) # {}
  <2>1. t = gate.binding /\ gate.binding # 0 /\ gate.binding \in published /\ playing' = gate.binding
    BY <1>1, <1>5 DEF Attach, Accepted
  <2>2. /\ sse = "open" /\ gate.binding > floor
        /\ playing # gate.binding => newest < gate.binding
    BY <1>3, <2>1 DEF PageSound, BindingPassed
  <2>3. CASE playing = gate.binding
    BY <1>1, <1>2, <1>3, <2>1, <2>3, SilencePromised DEF Attach, Larger
  <2>4. CASE playing # gate.binding
    <3>1. newest' = playing' /\ playing' > newest /\ playing' > floor /\ playing' \in Nat
      BY <1>1, <1>3, <2>1, <2>2, <2>4 DEF Attach, Larger
    <3> QED  BY <1>2, <2>2, <3>1, HearingIsNew
  <2> QED  BY <2>3, <2>4
<1> QED  BY <1>4, <1>5

\* A binding whose track is here is of an answer that was never heard.
LEMMA BindingPromised ==
  ASSUME PageSound, log # <<>>, sse = "open", log[1].kind = "playback_binding",
         log[1].epoch >= gate.epoch, UNCHANGED <<stopping, floor>>,
         IF ~Binds(gate, log[1].epoch)
           THEN gate' = Advance(gate, log[1].epoch) /\ UNCHANGED <<wanted, mediaVars>>
           ELSE /\ gate' = Bind(gate, log[1].epoch) /\ UpdateSubscriptions(gate')
                /\ Attach(gate', tracks \cap {log[1].epoch})
  PROVE  Promised
<1>1. log[1].epoch = gate.epoch /\ newest < gate.epoch
  BY BindingArrives
<1>2. /\ playing <= newest /\ playing \in Nat /\ newest \in Nat /\ floor \in Nat /\ gate.min \in Nat
      /\ gate.epoch \in Nat /\ gate.epoch \in 0..MaxEpoch + 1
  BY KnownEpochs DEF PageSound, OpenToHear
<1>3. CASE ~Binds(gate, log[1].epoch)
  BY <1>3, SilencePromised DEF mediaVars
<1>4. CASE Binds(gate, log[1].epoch)
  <2>1. Attach(gate', tracks \cap {gate.epoch}) /\ gate'.binding = gate.epoch /\ gate.min <= gate.epoch
    BY <1>1, <1>2, <1>4, GateMoves DEF Binds
  <2>2. CASE gate.epoch \in tracks
    <3>1. playing' = gate.epoch
      BY <1>1, <1>2, <2>1, <2>2 DEF Attach, Accepted
    <3>2. newest' = playing' /\ playing' > newest
      BY <1>1, <1>2, <2>1, <3>1 DEF Attach, Larger
    <3>3. playing' > floor
      BY <1>1, <1>2, <2>1, <3>1 DEF PageSound, BindingPassed
    <3> QED  BY <1>2, <3>1, <3>2, <3>3, HearingIsNew
  <2>3. CASE gate.epoch \notin tracks
    <3>1. playing' = playing /\ newest' = newest
      BY <1>2, <2>1, <2>3 DEF Attach, Larger
    <3> QED  BY <3>1, SilencePromised
  <2> QED  BY <2>2, <2>3
<1> QED  BY <1>3, <1>4

\* onEvent() keeps the promise.
LEMMA EventPromised ==
  ASSUME PageSound, HandleEvent
  PROVE  Promised
<1>1. /\ sse = "open" /\ log # <<>> /\ Head(log) = log[1] /\ floor' = floor
  BY DEF HandleEvent, PageSound, PageShapes
<1>2. CASE RequireReconnect
  BY <1>1, <1>2, StopPromised
<1>3. CASE Drop
  BY <1>1, <1>3, SilencePromised DEF Drop, mediaVars, flagVars
<1>4. CASE Detach /\ (stopping' = stopping \/ stopping' = TRUE)
  BY <1>1, <1>4, SilencePromised, EndPromised DEF Detach
<1>5. CASE /\ Head(log).kind = "playback_binding" /\ Head(log).epoch >= gate.epoch
           /\ UNCHANGED <<known, tracks, flagVars, mic, sse, teardown>>
           /\ IF ~Binds(gate, Head(log).epoch)
                THEN gate' = Advance(gate, Head(log).epoch) /\ UNCHANGED <<wanted, mediaVars>>
                ELSE /\ gate' = Bind(gate, Head(log).epoch) /\ UpdateSubscriptions(gate')
                     /\ Attach(gate', tracks \cap {Head(log).epoch})
  BY <1>1, <1>5, BindingPromised DEF flagVars
<1> QED  BY <1>1, <1>2, <1>3, <1>4, <1>5 DEF HandleEvent

\* connect() keeps it: it aborts, or leaves the element alone.
LEMMA ConnectingPromised ==
  ASSUME PageSound, Connecting
  PROVE  Promised
<1> SUFFICES ASSUME ~Abort PROVE Promised
  <2>1. floor' = floor
    BY DEF Connecting, Created, Polled, Granted, Joined, Unlocked, Captured, Published
  <2> QED  BY <2>1, StopPromised
<1>1. UNCHANGED <<playing, newest, floor, stopping>>
  BY DEF Connecting, Created, Polled, Granted, Joined, Unlocked, Captured, Published, Goes,
         mediaVars, flagVars
<1> QED  BY <1>1, SilencePromised

\* Every step of the page is a step of the promise, or none.
LEMMA StepPromised ==
  ASSUME PageSound, [Next]_vars
  PROVE  Promised
<1>1. CASE Session
  BY <1>1, SilencePromised
     DEF Session, VoiceTurn, PublishAnswer, BindAnswer, FailAnswer, RetireTracks, CloseSession,
         pageVars, mediaVars, flagVars
<1>2. CASE Room
  <2>1. CASE TrackSubscribed
    BY <2>1, SubscribedPromised
  <2>2. CASE TrackUnsubscribed
    BY <2>2, SilencePromised DEF TrackUnsubscribed, roomFrame, flagVars
  <2>3. CASE TrackPublished \/ TrackUnpublished
    BY <2>3, SilencePromised DEF TrackPublished, TrackUnpublished, roomFrame, mediaVars, flagVars
  <2> QED  BY <1>2, <2>1, <2>2, <2>3 DEF Room
<1>3. CASE Trouble
  BY <1>3, SilencePromised, StopPromised DEF Trouble, Disconnected, ConnectionTrouble, Detach
<1>4. CASE Control
  <2>1. /\ playing' = 0 /\ newest' = newest /\ stopping' = stopping
        /\ floor' = Larger(floor, gate.epoch)
    BY <1>4 DEF Control, Detach, flagVars
  <2>2. floor' \in Nat /\ floor' >= floor
    BY <2>1, KnownEpochs DEF Larger
  <2>3. Promise!BargeIn
    BY <2>1, <2>2 DEF Promise!BargeIn
  <2> QED  BY <2>3 DEF Promised, Promise!Next
<1>5. CASE Request
  BY <1>5, SilencePromised
     DEF Request, ServeControl, AnswerControl, ControlAnswered, ControlFailed, pageVars, mediaVars, flagVars
<1>6. CASE UserEnds
  BY <1>6, StopPromised DEF UserEnds
<1>7. CASE TearDown
  BY <1>7, SilencePromised DEF TearDown, Detach, flagVars
<1>8. CASE UNCHANGED vars
  BY <1>8, SilencePromised DEF vars, mediaVars, flagVars
<1> QED  BY <1>1, <1>2, <1>3, <1>4, <1>5, <1>6, <1>7, <1>8, ConnectingPromised, EventPromised DEF Next

\* The page implements ListenerPromise for any number of epochs, controls and faults: answers
\* only get newer, none known at a barge-in is heard after it, nothing is heard after the end.
THEOREM PageKeepsPromise == Spec => PromiseSpec
<1>1. Init => Promise!Init
  BY DEF Init, Promise!Init
<1>2. PageSound /\ [Next]_vars => [Promise!Next]_(Promise!vars)
  BY StepPromised DEF Promised
<1> QED  BY <1>1, <1>2, PageIsSound, PTL DEF Spec, PromiseSpec, Promise!Spec
=============================================================================
