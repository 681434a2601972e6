----------------------------- MODULE ProbeTrace -----------------------------
(***************************************************************************)
(* The evidence of a probe run: what the session worker's GPU owner and    *)
(* the SDK's trace record, the part of it that reaches the log, and the    *)
(* readers of publish_probe.py and qualify_claire_session_worker.py.       *)
(*                                                                         *)
(* A position is a source frame (1600 samples).  A bit rate is a small     *)
(* number; what matters is its order relative to the floor of 100000 and   *)
(* the two ceilings.                                                       *)
(***************************************************************************)
EXTENDS Integers, Sequences, FiniteSetsExt, SequencesExt

CONSTANTS
  DownAt, UpAt,        \* positions at which the ceiling falls and rises (144000, 288000)
  LastPosition,        \* bound: positions of a turn, what is sent behind the speech included
  Floor, Low, Initial, \* bit rates: 100000, 300000 and the initial ceiling
  Requests,            \* bit rates the SDK asks for
  ProbeFrames,         \* bound: frames, those before and behind the speech included
  ProbeRows,           \* settings of the rate the owner has room for (256)
  StageRoom            \* events the SDK's trace has room for (16384)

ASSUME ProbeAssumption ==
  /\ {DownAt, UpAt, LastPosition, Floor, Low, Initial, ProbeFrames, ProbeRows, StageRoom} \subseteq Nat \ {0}
  /\ Requests \subseteq Nat \ {0}
  /\ DownAt < UpAt /\ Floor < Low /\ Low < Initial

VARIABLES
  scheduled,  \* the ceiling falls and rises; or it stays
  part,       \* of the stream: before the speech, the speech, behind it
  position,   \* the next source frame; 0 also before the speech
  ceiling,    \* active_ceiling
  requested,  \* last_requested
  rate,       \* the encoder's
  rates, captures, stageRows,  \* the three records
  overflow,   \* the last one had no room for something
  stage,      \* the stage each captured frame has reached in the SDK; their ids count from 0
  phases,     \* history: under the schedule, phases the loop has been in
  whole,      \* history: all that was written reached the log
  accepted    \* "none", "yes", "no"

probeVars == <<scheduled, part, position, ceiling, requested, rate, rates, captures, stageRows, overflow,
               stage, phases, whole, accepted>>

Unidentified == -1
PhaseOf(p) == CASE p < DownAt -> 0 [] p < UpAt /\ p >= DownAt -> 1 [] OTHER -> 2
CeilingAt(p) == IF scheduled /\ PhaseOf(p) = 1 THEN Low ELSE Initial
Applied(wanted, limit) == Min({Max({wanted, Floor}), limit})
Row(p, wanted, given, why) == [kind |-> "rate", p |-> p, wanted |-> wanted, given |-> given, why |-> why]

ProbeInit ==
  /\ scheduled \in BOOLEAN
  /\ part = "before" /\ position = 0 /\ ceiling = Initial /\ requested = Initial /\ rate = Initial
  /\ rates = IF scheduled THEN <<Row(0, Initial, Initial, "initial")>> ELSE <<>>
  /\ captures = <<>> /\ stageRows = <<>> /\ overflow = FALSE /\ stage = <<>> /\ phases = {0}
  /\ whole = FALSE /\ accepted = "none"

-----------------------------------------------------------------------------
(* One pass of the owner's loop at position p: feedback of the SDK, if     *)
(* there is any, and the ceiling decide the rate; the encoder may return   *)
(* nothing yet.                                                            *)

\* MUTANT: the ceiling is applied when the SDK asks for something.
Regulate_OnDemand(p, wanted) ==
  IF wanted = 0 THEN UNCHANGED <<ceiling, requested, rate, rates>>
  ELSE /\ ceiling' = CeilingAt(p) /\ requested' = wanted /\ rate' = Applied(wanted, ceiling')
       /\ rates' = Append(rates, Row(p, wanted, rate', IF ceiling' # ceiling THEN "ceiling" ELSE "feedback"))

\* No ceiling exceeds 2400000, so that the clamp to 8000000 before it never shows.
Regulate(p, wanted) ==
  IF wanted = 0 /\ CeilingAt(p) = ceiling THEN UNCHANGED <<ceiling, requested, rate, rates>>
  ELSE /\ ceiling' = CeilingAt(p) /\ requested' = (IF wanted > 0 THEN wanted ELSE requested)
       /\ rate' = Applied(requested', ceiling') /\ Len(rates) < ProbeRows
       /\ rates' = Append(rates, Row(p, requested', rate', IF ceiling' # ceiling THEN "ceiling" ELSE "feedback"))

\* Before the speech the position is 0; nothing is behind a speech of which there was no frame.
Looks(p, now) ==
  CASE now = "before" -> part = "before" /\ p = 0
    [] now = "speech" -> part # "behind"
    [] now = "behind" -> position > 0

Pass(p, now) ==
  /\ accepted = "none" /\ Looks(p, now) /\ part' = now
  /\ phases' = IF scheduled THEN phases \cup {PhaseOf(p)} ELSE phases
  /\ \E wanted \in Requests \cup {0} : Regulate(p, wanted)

\* Every frame carries an id; only one of the speech is a source frame and recorded.
Captures ==
  /\ Len(stage) < ProbeFrames
  /\ \E p \in position..LastPosition, now \in {"before", "speech", "behind"} :
       /\ Pass(p, now) /\ stage' = Append(stage, 0)
       /\ captures' = IF now # "speech" THEN captures
                      ELSE Append(captures, [kind |-> "capture", id |-> Len(stage), p |-> p, rate |-> rate'])
       /\ position' = IF now = "before" THEN 0 ELSE p + 1
  /\ UNCHANGED <<scheduled, stageRows, overflow, whole, accepted>>

NothingRendered ==
  /\ \E p \in position..LastPosition, now \in {"before", "speech", "behind"} : Pass(p, now) /\ position' = p
  /\ UNCHANGED <<scheduled, captures, stageRows, overflow, stage, whole, accepted>>

\* The GPU fails, the SDK refuses a frame, or a record has no room left: the owner writes
\* nothing, and the worker's exit says so.
OwnerFails ==
  /\ accepted = "none" /\ accepted' = "no"
  /\ UNCHANGED <<scheduled, part, position, ceiling, requested, rate, rates, captures, stageRows, overflow,
                 stage, phases, whole>>

\* The SDK takes a frame to the encoder, out of it, to the packets, or drops it on the way,
\* none past another that is still under way; and each time tells the trace, with its id or
\* without.
Reaches ==
  /\ accepted = "none"
  /\ \E f \in DOMAIN stage : \E id \in {f - 1, Unidentified} :
       /\ stage[f] < 3 /\ \A g \in f+1..Len(stage) : stage[g] <= stage[f]
       /\ stage' = [stage EXCEPT ![f] = @ + 1]
       /\ IF Len(stageRows) < StageRoom
          THEN /\ stageRows' = Append(stageRows, [kind |-> "stage", stage |-> stage[f] + 1, id |-> id])
               /\ UNCHANGED overflow
          ELSE overflow' = TRUE /\ UNCHANGED stageRows
  /\ UNCHANGED <<scheduled, part, position, ceiling, requested, rate, rates, captures, phases, whole, accepted>>

-----------------------------------------------------------------------------
(* What the worker writes when it ends, and the readers.                   *)

Written ==
  captures \o <<[kind |-> "rate bound", n |-> Len(rates)]>> \o rates
    \o <<[kind |-> "stage bound", n |-> Len(stageRows), lost |-> overflow]>> \o stageRows

Of(kind, lines) == SelectSeq(lines, LAMBDA line : line.kind = kind)

CaptureTrace(lines, expected) ==
  LET rows == Of("capture", lines)
  IN /\ Len(rows) = expected /\ expected > 0
     /\ \A i \in 2..Len(rows) : rows[i].id > rows[i-1].id /\ rows[i].p > rows[i-1].p

Bounded(lines, bound, rows) == Len(bound) = 1 /\ bound[1].n = Len(rows) /\ rows # <<>>

RateProbe(lines) ==
  LET rows == Of("rate", lines)
  IN /\ Bounded(lines, Of("rate bound", lines), rows)
     /\ \A i \in DOMAIN rows : rows[i].given = Applied(rows[i].wanted, Initial)

ScheduledRateProbe(lines) ==
  LET rows == Of("rate", lines)
      PhaseAt(i) == PhaseOf(rows[i].p)
  IN /\ Bounded(lines, Of("rate bound", lines), rows)
     /\ rows[1] = Row(0, Initial, Initial, "initial")
     /\ \A i \in DOMAIN rows : rows[i].given = Applied(rows[i].wanted, IF PhaseAt(i) = 1 THEN Low ELSE Initial)
     /\ \A i \in 2..Len(rows) :
          /\ rows[i].p >= rows[i-1].p /\ rows[i].why # "initial"
          /\ PhaseAt(i) \in {PhaseAt(i-1), PhaseAt(i-1) + 1}
          /\ (rows[i].why = "ceiling") = (PhaseAt(i) # PhaseAt(i-1))
     /\ PhaseAt(Len(rows)) = 2

\* The source frames of the log that were seen at a stage.
Seen(lines, at) ==
  {line.id : line \in {l \in ToSet(Of("stage", lines)) : l.stage = at}}
    \cap {row.id : row \in ToSet(Of("capture", lines))}

StageTrace(lines) ==
  LET bound == Of("stage bound", lines)
      rows == Of("stage", lines)
  IN /\ Bounded(lines, bound, rows) /\ ~bound[1].lost
     /\ \A i, j \in DOMAIN rows :
          rows[i] = rows[j] /\ rows[i].id \in {row.id : row \in ToSet(Of("capture", lines))} => i = j
     /\ Seen(lines, 1) = {row.id : row \in ToSet(Of("capture", lines))}
     /\ Seen(lines, 3) \subseteq Seen(lines, 2)

Passes(lines) ==
  /\ CaptureTrace(lines, Len(captures)) /\ StageTrace(lines)
  /\ IF scheduled THEN ScheduledRateProbe(lines) ELSE RateProbe(lines)

\* The owner writes when its loop has ended, the SDK's trace is sealed and written after that.
\* The log may end anywhere, as when its device is full: a stream that has failed writes no more.
Judge ==
  /\ accepted = "none"
  /\ \E n \in 0..Len(Written) :
       /\ whole' = (n = Len(Written))
       /\ accepted' = IF Passes(SubSeq(Written, 1, n)) THEN "yes" ELSE "no"
  /\ UNCHANGED <<scheduled, part, position, ceiling, requested, rate, rates, captures, stageRows, overflow,
                 stage, phases>>

ProbeNext == Captures \/ NothingRendered \/ OwnerFails \/ Reaches \/ Judge

-----------------------------------------------------------------------------
Silently(s) == \E i \in DOMAIN stageRows : stageRows[i].stage = s /\ stageRows[i].id = Unidentified

\* The evidence is neither more nor less than what happened.  Evidence that is accepted is
\* all there is: no line was lost, the frames it misses at a stage are those that did not
\* reach it before the trace was sealed, unless the SDK named no frame there, and under the
\* schedule each frame between the two positions was captured at no more than the lower
\* ceiling.  A run of which everything was written is accepted if it has been in all phases
\* in turn, and every source frame came as far as the encoder under its name.
EvidenceIsWhole ==
  /\ accepted = "yes" =>
       /\ whole /\ ~overflow
       /\ \A c \in ToSet(captures) :
            /\ \A s \in 1..3 : /\ c.id \in Seen(Written, s) => stage[c.id + 1] >= s
                              /\ stage[c.id + 1] >= s => c.id \in Seen(Written, s) \/ Silently(s)
            /\ scheduled /\ PhaseOf(c.p) = 1 => c.rate <= Low
       /\ scheduled => phases = 0..2
  /\ accepted = "no" /\ whole /\ ~overflow =>
       \/ captures = <<>> \/ rates = <<>>
       \/ \E c \in ToSet(captures) : stage[c.id + 1] = 0
       \/ \E s \in {1, 2} : Silently(s)
       \/ scheduled /\ phases # 0..2
=============================================================================
