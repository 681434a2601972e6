----------------------------- MODULE MediaProofs -----------------------------
(***************************************************************************)
(* Media that leave the service, and the programs that qualify it, for any *)
(* number of answers, tracks, cases, processes and faults:                 *)
(*   - the native publisher owns whatever it starts, announces an answer as *)
(*     complete only when it was played whole (AnswerSafe), and gives no    *)
(*     packet to a worker after a fence (FenceSafe);                        *)
(*   - the raw publisher lets no frame of a cancelled answer out but the   *)
(*     one that was on its way (RawMediaSafe);                             *)
(*   - the qualification of the session worker owns what it starts and     *)
(*     reports only what it saw (RunSafe);                                 *)
(*   - a matrix lets a case go only when nobody it has seen of its group   *)
(*     is left (GroupsSafe);                                               *)
(*   - a program that drives two turns on the local device never mixes     *)
(*     them (TurnsSafe).                                                   *)
(* Each part states an inductive invariant as a conjunction of named       *)
(* parts, and shows that it holds at first, that every step keeps every    *)
(* part, and that it implies the property.                                 *)
(***************************************************************************)
EXTENDS Publisher, RawMedia, Qualifier, OwnedRuns, LocalTurns, SequenceTheorems, TLAPS

-----------------------------------------------------------------------------
(* The native publisher: whatever start() leaves behind is reached from    *)
(* self.state.                                                             *)

\* Where a caller holds the lock, and where the response has a state of its own.
InRetire == {"retire", "exit", "reader"}
Owning == {"geometry", "launch", "ready"} \cup Speaking
AtCancel(c) == pc[c] \in {"lock"} \cup InRetire
RespPlaces == {"idle", "open", "orphan", "quit", "lock"} \cup Owning \cup InRetire
CtlPlaces == {"idle", "left", "tts", "gather", "lock"} \cup InRetire
\* The response has not yet been given its state.
Before == pc[Resp] = "open" \/ (AtCancel(Resp) /\ resp.after = "begin")

EventKinds == {"ready", "eof", "error"}
StartedState ==
  [key : Nat, dir : BOOLEAN, opening : {"none", "pending", "done", "failed"}, recorded : BOOLEAN,
   child : {"none", "joining", "live", "ended", "dead"}, term : BOOLEAN,
   reader : {"none", "reading", "done", "cancelled"},
   ready : {"open", "set", "failed"}, eof : {"open", "set", "failed"},
   wrote : 0..MaxPackets, sent : 0..MaxPackets, heard : 0..MaxPackets, final : BOOLEAN,
   out : Seq(EventKinds)]

PublisherShapes ==
  /\ config \in {"none", "ok", "refused"} /\ epoch \in 0..MaxInterrupts + 1
  /\ {blocked, cancelled, closing, cut} \subseteq BOOLEAN
  /\ cur \in 0..MaxStarts /\ used \in 0..MaxStarts /\ faults \in 0..MaxFaults
  /\ lock \in Caller \cup {Free}
  /\ pc \in [Caller -> RespPlaces \cup CtlPlaces] /\ pc[Resp] \in RespPlaces
       /\ pc[Ctl] \in CtlPlaces
  /\ resp \in [epoch : Nat, mine : 0..MaxStarts, after : {"begin", "end"}, doomed : BOOLEAN]
  /\ st \in [Start -> StartedState]

\* One caller at a time retires, and the actor only when the response is over.
OneRetires ==
  /\ \A c \in Caller : lock = c <=> pc[c] \in InRetire
  /\ pc[Ctl] \in {"left", "lock"} \cup InRetire => pc[Resp] = "idle"
  /\ \A c \in Caller : pc[c] \in {"exit", "reader"} => cur # 0 /\ st[cur].opening = "done"
  /\ \A c \in Caller : pc[c] = "reader" => st[cur].child = "dead"

\* Whatever the system runs or keeps for the publisher is the current state's.
ChildIsReached ==
  /\ \A n \in Start : st[n].child # "none" => st[n].opening = "done"
  /\ \A n \in Start : st[n].child \in Alive \/ st[n].opening = "pending" \/ st[n].dir => cur = n
  /\ pc[Ctl] = "left" => cur = 0
  /\ pc[Resp] \in Owning => cur # 0 /\ cur = mine
  /\ pc[Resp] = "geometry" => st[mine].opening = "none"
  /\ pc[Resp] = "orphan" => resp.after = "end"
  /\ Before => used < MaxStarts

\* The fence tells no response but one whose epoch is over, or whose asset is revoked; and
\* it tells each of those that has given its worker something.
FenceTells ==
  /\ resp.epoch <= epoch /\ (~closing => epoch <= MaxInterrupts)
  /\ blocked => cancelled
  /\ pc[Resp] \in Owning => (cancelled => blocked \/ resp.epoch # epoch)
  /\ pc[Resp] \in {"drain", "eof"} => (resp.epoch # epoch => cancelled)
  /\ pc[Resp] = "quit" => blocked \/ resp.epoch # epoch
  /\ cut => blocked

\* Packets are counted once, and for the answer whose state it is.
PacketsAreCounted ==
  /\ \A n \in Start : st[n].heard <= st[n].wrote /\ st[n].sent <= st[n].wrote
  /\ pc[Resp] \in Owning => st[mine].key = resp.epoch
  /\ pc[Resp] \in {"geometry", "launch", "ready", "submit"} => ~st[mine].final
       /\ st[mine].wrote < MaxPackets
  /\ pc[Resp] = "drain" => st[mine].sent < st[mine].wrote
       /\ (~st[mine].final => st[mine].wrote < MaxPackets)

PublisherIInv == PublisherShapes /\ OneRetires /\ ChildIsReached /\ FenceTells /\ PacketsAreCounted

\* What the invariant reads of a state, and that it is as it was in all of them, or but for one.
LooksLike(a, b) ==
  /\ b.opening = a.opening /\ b.child = a.child /\ b.dir = a.dir /\ b.key = a.key
       /\ b.final = a.final
  /\ b.wrote = a.wrote /\ b.sent = a.sent /\ b.heard = a.heard
Alike(s, t) == \A n \in Start : LooksLike(s[n], t[n])
StKept == st' \in [Start -> StartedState] /\ Alike(st, st')
StBut(n) == st' \in [Start -> StartedState] /\ \A m \in Start : m # n => LooksLike(st[m], st'[m])

\* What _retire() leaves: states that nothing runs for.
LeavesNothing(s) ==
  /\ s \in [Start -> StartedState]
  /\ \A n \in Start :
       /\ s[n].child \notin Alive /\ s[n].opening # "pending" /\ s[n].dir = FALSE
       /\ s[n].child # "none" => s[n].opening = "done"
       /\ s[n].heard <= s[n].wrote /\ s[n].sent <= s[n].wrote
       /\ s[n].wrote <= st[n].wrote /\ s[n].sent <= st[n].sent

\* The constants as the steps need them.
LEMMA PublisherConstants ==
  /\ Resp # Ctl /\ Free \notin Caller /\ MaxStarts \in Nat /\ MaxInterrupts \in Nat
       /\ MaxPackets \in Nat
  /\ MaxStarts >= 1 /\ MaxInterrupts >= 1 /\ MaxPackets >= 1 /\ MaxFaults \in Nat
       /\ Start \subseteq Nat
  /\ Resp \in Caller /\ Ctl \in Caller
  BY PublisherAssumption DEF Caller, Start

\* A state has its fields, and the one that start() makes is one of them.
LEMMA StartedFields ==
  ASSUME NEW r \in StartedState
  PROVE  /\ r.key \in Nat /\ r.dir \in BOOLEAN
              /\ r.opening \in {"none", "pending", "done", "failed"}
         /\ r.recorded \in BOOLEAN /\ r.child \in {"none", "joining", "live", "ended", "dead"}
         /\ r.reader \in {"none", "reading", "done", "cancelled"}
         /\ r.ready \in {"open", "set", "failed"} /\ r.eof \in {"open", "set", "failed"}
         /\ r.wrote \in 0..MaxPackets /\ r.sent \in 0..MaxPackets /\ r.heard \in 0..MaxPackets
         /\ r.final \in BOOLEAN /\ r.out \in Seq(EventKinds)
  BY DEF StartedState

LEMMA FreshIsStarted == Fresh \in StartedState
  BY PublisherConstants DEF Fresh, StartedState

\* The signal changes nothing else.
LEMMA SignalledIs ==
  ASSUME NEW s \in [Start -> StartedState], NEW n \in 0..MaxStarts
  PROVE  Signalled(s, n) \in [Start -> StartedState] /\ Alike(s, Signalled(s, n))
<1>1. CASE Signalled(s, n) = s
  BY <1>1 DEF Alike, LooksLike
<1>2. CASE n # 0 /\ Signalled(s, n) = [s EXCEPT ![n].term = TRUE]
  <2>1. n \in Start /\ s[n] \in StartedState
    BY <1>2, PublisherConstants DEF Start
  <2>2. PICK r : r = [s[n] EXCEPT !.term = TRUE]
    OBVIOUS
  <2>3. r \in StartedState /\ LooksLike(s[n], r)
    BY <2>1, <2>2 DEF StartedState, LooksLike
  <2>4. Signalled(s, n) = [s EXCEPT ![n] = r]
    BY <1>2, <2>2
  <2> QED
    BY <2>1, <2>3, <2>4 DEF Alike, LooksLike
<1> QED
  BY <1>1, <1>2 DEF Signalled

\* Of a state that nothing runs for nothing is left.
LEMMA ClearedIs ==
  ASSUME st \in [Start -> StartedState], cur \in Start, st[cur].opening # "pending",
    st[cur].child \notin Alive
  PROVE  Cleared = [st EXCEPT ![cur] = Fresh]
<1>1. PICK f : f = Fresh
  OBVIOUS
<1>2. [f EXCEPT !.opening = @, !.child = @] = f
  BY <1>1 DEF Fresh
<1> QED
  BY <1>1, <1>2 DEF Cleared

LEMMA EditIs ==
  ASSUME st \in [Start -> StartedState], NEW n \in Start, NEW r \in StartedState,
    st' = [st EXCEPT ![n] = r]
  PROVE  StBut(n) /\ st'[n] = r
  BY DEF StBut, LooksLike

\* The process is dead, and nothing else has changed.
LEMMA KillIs ==
  ASSUME PublisherShapes, NEW c \in Caller, Kill(c), cur # 0
  PROVE  /\ StBut(cur)
         /\ st'[cur].opening = st[cur].opening
         /\ st'[cur].child = "dead"
         /\ st'[cur].dir = st[cur].dir
         /\ st'[cur].key = st[cur].key
         /\ st'[cur].final = st[cur].final
         /\ st'[cur].wrote = st[cur].wrote
         /\ st'[cur].sent = st[cur].sent
         /\ st'[cur].heard = st[cur].heard
<1>0. cur \in Start /\ st[cur] \in StartedState /\ st \in [Start -> StartedState]
  BY PublisherConstants DEF PublisherShapes, Start, mine
<1>1. PICK r : r = [st[cur] EXCEPT !.child = "dead"]
  OBVIOUS
<1>2. /\ r \in StartedState
      /\ r.opening = st[cur].opening
      /\ r.child = "dead"
      /\ r.dir = st[cur].dir
      /\ r.key = st[cur].key
      /\ r.final = st[cur].final
      /\ r.wrote = st[cur].wrote
      /\ r.sent = st[cur].sent
      /\ r.heard = st[cur].heard
  BY <1>0, <1>1, PublisherConstants DEF StartedState, Alive
<1>3. st' = [st EXCEPT ![cur] = r]
  BY <1>0, <1>1 DEF Kill
<1> QED
  BY <1>0, <1>2, <1>3, EditIs

\* And when it dies by itself.
LEMMA DiesIs ==
  ASSUME PublisherShapes, NEW n \in Start, Dies(n)
  PROVE  /\ StBut(n)
         /\ st'[n].opening = st[n].opening
         /\ st'[n].child = "dead"
         /\ st'[n].dir = st[n].dir
         /\ st'[n].key = st[n].key
         /\ st'[n].final = st[n].final
         /\ st'[n].wrote = st[n].wrote
         /\ st'[n].sent = st[n].sent
         /\ st'[n].heard = st[n].heard
<1>0. n \in Start /\ st[n] \in StartedState /\ st \in [Start -> StartedState]
  BY PublisherConstants DEF PublisherShapes, Start, mine
<1>1. PICK r : r = [st[n] EXCEPT !.child = "dead"]
  OBVIOUS
<1>2. /\ r \in StartedState
      /\ r.opening = st[n].opening
      /\ r.child = "dead"
      /\ r.dir = st[n].dir
      /\ r.key = st[n].key
      /\ r.final = st[n].final
      /\ r.wrote = st[n].wrote
      /\ r.sent = st[n].sent
      /\ r.heard = st[n].heard
  BY <1>0, <1>1, PublisherConstants DEF StartedState, Alive
<1>3. st' = [st EXCEPT ![n] = r]
  BY <1>0, <1>1 DEF Dies
<1> QED
  BY <1>0, <1>2, <1>3, EditIs

\* A launch has begun.
LEMMA StagedIs ==
  ASSUME PublisherShapes, st' = [st EXCEPT ![mine].opening = "pending"], mine # 0
  PROVE  /\ StBut(mine)
         /\ st'[mine].opening = "pending"
         /\ st'[mine].child = st[mine].child
         /\ st'[mine].dir = st[mine].dir
         /\ st'[mine].key = st[mine].key
         /\ st'[mine].final = st[mine].final
         /\ st'[mine].wrote = st[mine].wrote
         /\ st'[mine].sent = st[mine].sent
         /\ st'[mine].heard = st[mine].heard
<1>0. mine \in Start /\ st[mine] \in StartedState /\ st \in [Start -> StartedState]
  BY PublisherConstants DEF PublisherShapes, Start, mine
<1>1. PICK r : r = [st[mine] EXCEPT !.opening = "pending"]
  OBVIOUS
<1>2. /\ r \in StartedState
      /\ r.opening = "pending"
      /\ r.child = st[mine].child
      /\ r.dir = st[mine].dir
      /\ r.key = st[mine].key
      /\ r.final = st[mine].final
      /\ r.wrote = st[mine].wrote
      /\ r.sent = st[mine].sent
      /\ r.heard = st[mine].heard
  BY <1>0, <1>1, PublisherConstants DEF StartedState, Alive
<1>3. st' = [st EXCEPT ![mine] = r]
  BY <1>0, <1>1 DEF mine
<1> QED
  BY <1>0, <1>2, <1>3, EditIs

\* The process is live.
LEMMA PublishesIs ==
  ASSUME PublisherShapes, NEW n \in Start, Publishes(n)
  PROVE  /\ StBut(n)
         /\ st'[n].opening = st[n].opening
         /\ st'[n].child = "live"
         /\ st'[n].dir = st[n].dir
         /\ st'[n].key = st[n].key
         /\ st'[n].final = st[n].final
         /\ st'[n].wrote = st[n].wrote
         /\ st'[n].sent = st[n].sent
         /\ st'[n].heard = st[n].heard
<1>0. n \in Start /\ st[n] \in StartedState /\ st \in [Start -> StartedState]
  BY PublisherConstants DEF PublisherShapes, Start, mine
<1>5. \A q \in Seq(EventKinds), w \in EventKinds : Append(q, w) \in Seq(EventKinds)
  OBVIOUS
<1>6. "ready" \in EventKinds /\ "eof" \in EventKinds
  BY DEF EventKinds
<1>1. PICK r : r = [st[n] EXCEPT !.child = "live", !.out = Append(st[n].out, "ready")]
  OBVIOUS
<1>2. /\ r \in StartedState
      /\ r.opening = st[n].opening
      /\ r.child = "live"
      /\ r.dir = st[n].dir
      /\ r.key = st[n].key
      /\ r.final = st[n].final
      /\ r.wrote = st[n].wrote
      /\ r.sent = st[n].sent
      /\ r.heard = st[n].heard
  BY <1>0, <1>1, <1>5, <1>6, PublisherConstants DEF StartedState, Alive
<1>3. st' = [st EXCEPT ![n] = r]
  BY <1>0, <1>1 DEF Publishes
<1> QED
  BY <1>0, <1>2, <1>3, EditIs

\* The process was created.
LEMMA CreatedIs ==
  ASSUME PublisherShapes, NEW n \in Start, st' = [st EXCEPT ![n].opening = "done",
    ![n].child = "joining"]
  PROVE  /\ StBut(n)
         /\ st'[n].opening = "done"
         /\ st'[n].child = "joining"
         /\ st'[n].dir = st[n].dir
         /\ st'[n].key = st[n].key
         /\ st'[n].final = st[n].final
         /\ st'[n].wrote = st[n].wrote
         /\ st'[n].sent = st[n].sent
         /\ st'[n].heard = st[n].heard
<1>0. n \in Start /\ st[n] \in StartedState /\ st \in [Start -> StartedState]
  BY PublisherConstants DEF PublisherShapes, Start, mine
<1>1. PICK r : r = [st[n] EXCEPT !.opening = "done", !.child = "joining"]
  OBVIOUS
<1>2. /\ r \in StartedState
      /\ r.opening = "done"
      /\ r.child = "joining"
      /\ r.dir = st[n].dir
      /\ r.key = st[n].key
      /\ r.final = st[n].final
      /\ r.wrote = st[n].wrote
      /\ r.sent = st[n].sent
      /\ r.heard = st[n].heard
  BY <1>0, <1>1, PublisherConstants DEF StartedState, Alive
<1>3. st' = [st EXCEPT ![n] = r]
  BY <1>0, <1>1 DEF StBut
<1> QED
  BY <1>0, <1>2, <1>3, EditIs

\* Or it was not.
LEMMA NotCreatedIs ==
  ASSUME PublisherShapes, NEW n \in Start, st' = [st EXCEPT ![n].opening = "failed"]
  PROVE  /\ StBut(n)
         /\ st'[n].opening = "failed"
         /\ st'[n].child = st[n].child
         /\ st'[n].dir = st[n].dir
         /\ st'[n].key = st[n].key
         /\ st'[n].final = st[n].final
         /\ st'[n].wrote = st[n].wrote
         /\ st'[n].sent = st[n].sent
         /\ st'[n].heard = st[n].heard
<1>0. n \in Start /\ st[n] \in StartedState /\ st \in [Start -> StartedState]
  BY PublisherConstants DEF PublisherShapes, Start, mine
<1>1. PICK r : r = [st[n] EXCEPT !.opening = "failed"]
  OBVIOUS
<1>2. /\ r \in StartedState
      /\ r.opening = "failed"
      /\ r.child = st[n].child
      /\ r.dir = st[n].dir
      /\ r.key = st[n].key
      /\ r.final = st[n].final
      /\ r.wrote = st[n].wrote
      /\ r.sent = st[n].sent
      /\ r.heard = st[n].heard
  BY <1>0, <1>1, PublisherConstants DEF StartedState, Alive
<1>3. st' = [st EXCEPT ![n] = r]
  BY <1>0, <1>1 DEF StBut
<1> QED
  BY <1>0, <1>2, <1>3, EditIs

\* A packet is written.
LEMMA SubmitIs ==
  ASSUME PublisherShapes, NEW last \in BOOLEAN, st' = [st EXCEPT ![mine].wrote = @ + 1,
    ![mine].final = last], mine # 0, st[mine].wrote < MaxPackets
  PROVE  /\ StBut(mine)
         /\ st'[mine].opening = st[mine].opening
         /\ st'[mine].child = st[mine].child
         /\ st'[mine].dir = st[mine].dir
         /\ st'[mine].key = st[mine].key
         /\ st'[mine].final = last
         /\ st'[mine].wrote = st[mine].wrote + 1
         /\ st'[mine].sent = st[mine].sent
         /\ st'[mine].heard = st[mine].heard
<1>0. mine \in Start /\ st[mine] \in StartedState /\ st \in [Start -> StartedState]
  BY PublisherConstants DEF PublisherShapes, Start, mine
<1>7. st[mine].wrote \in 0..MaxPackets /\ st[mine].sent \in 0..MaxPackets
        /\ st[mine].heard \in 0..MaxPackets
  BY <1>0, StartedFields
<1>1. PICK r : r = [st[mine] EXCEPT !.wrote = st[mine].wrote + 1, !.final = last]
  OBVIOUS
<1>8. st[mine].wrote + 1 \in 0..MaxPackets
  BY <1>7, PublisherConstants
<1>2. /\ r \in StartedState
      /\ r.opening = st[mine].opening
      /\ r.child = st[mine].child
      /\ r.dir = st[mine].dir
      /\ r.key = st[mine].key
      /\ r.final = last
      /\ r.wrote = st[mine].wrote + 1
      /\ r.sent = st[mine].sent
      /\ r.heard = st[mine].heard
  BY <1>0, <1>1, <1>8, PublisherConstants DEF StartedState, Alive
<1>3. st' = [st EXCEPT ![mine] = r]
  BY <1>0, <1>1 DEF mine
<1> QED
  BY <1>0, <1>2, <1>3, EditIs

\* A packet is counted.
LEMMA CountedIs ==
  ASSUME PublisherShapes, st' = [st EXCEPT ![mine].sent = @ + 1], mine # 0,
    st[mine].sent < st[mine].wrote
  PROVE  /\ StBut(mine)
         /\ st'[mine].opening = st[mine].opening
         /\ st'[mine].child = st[mine].child
         /\ st'[mine].dir = st[mine].dir
         /\ st'[mine].key = st[mine].key
         /\ st'[mine].final = st[mine].final
         /\ st'[mine].wrote = st[mine].wrote
         /\ st'[mine].sent = st[mine].sent + 1
         /\ st'[mine].heard = st[mine].heard
<1>0. mine \in Start /\ st[mine] \in StartedState /\ st \in [Start -> StartedState]
  BY PublisherConstants DEF PublisherShapes, Start, mine
<1>7. st[mine].wrote \in 0..MaxPackets /\ st[mine].sent \in 0..MaxPackets
        /\ st[mine].heard \in 0..MaxPackets
  BY <1>0, StartedFields
<1>1. PICK r : r = [st[mine] EXCEPT !.sent = st[mine].sent + 1]
  OBVIOUS
<1>8. st[mine].sent + 1 \in 0..MaxPackets
  BY <1>7, PublisherConstants
<1>2. /\ r \in StartedState
      /\ r.opening = st[mine].opening
      /\ r.child = st[mine].child
      /\ r.dir = st[mine].dir
      /\ r.key = st[mine].key
      /\ r.final = st[mine].final
      /\ r.wrote = st[mine].wrote
      /\ r.sent = st[mine].sent + 1
      /\ r.heard = st[mine].heard
  BY <1>0, <1>1, <1>8, PublisherConstants DEF StartedState, Alive
<1>3. st' = [st EXCEPT ![mine] = r]
  BY <1>0, <1>1 DEF mine
<1> QED
  BY <1>0, <1>2, <1>3, EditIs

\* The worker plays a packet.
LEMMA PlaysIs ==
  ASSUME PublisherShapes, NEW n \in Start, Plays(n), st[n].heard < st[n].wrote
  PROVE  /\ StBut(n)
         /\ st'[n].opening = st[n].opening
         /\ st'[n].child = IF st[n].final
              /\ st[n].heard + 1 = st[n].wrote THEN "ended" ELSE st[n].child
         /\ st'[n].dir = st[n].dir
         /\ st'[n].key = st[n].key
         /\ st'[n].final = st[n].final
         /\ st'[n].wrote = st[n].wrote
         /\ st'[n].sent = st[n].sent
         /\ st'[n].heard = st[n].heard + 1
<1>0. n \in Start /\ st[n] \in StartedState /\ st \in [Start -> StartedState]
  BY PublisherConstants DEF PublisherShapes, Start, mine
<1>5. \A q \in Seq(EventKinds), w \in EventKinds : Append(q, w) \in Seq(EventKinds)
  OBVIOUS
<1>6. "ready" \in EventKinds /\ "eof" \in EventKinds
  BY DEF EventKinds
<1>7. st[n].wrote \in 0..MaxPackets /\ st[n].sent \in 0..MaxPackets /\ st[n].heard \in 0..MaxPackets
  BY <1>0, StartedFields
<1>1. PICK r : r = [st[n] EXCEPT !.heard = st[n].heard + 1, !.child = IF st[n].final
        /\ st[n].heard + 1 = st[n].wrote THEN "ended" ELSE st[n].child, !.out = IF st[n].final
             /\ st[n].heard + 1 = st[n].wrote THEN Append(st[n].out, "eof") ELSE st[n].out]
  OBVIOUS
<1>8. st[n].heard + 1 \in 0..MaxPackets
  BY <1>7, PublisherConstants
<1>2. /\ r \in StartedState
      /\ r.opening = st[n].opening
      /\ r.child = IF st[n].final /\ st[n].heard + 1 = st[n].wrote THEN "ended" ELSE st[n].child
      /\ r.dir = st[n].dir
      /\ r.key = st[n].key
      /\ r.final = st[n].final
      /\ r.wrote = st[n].wrote
      /\ r.sent = st[n].sent
      /\ r.heard = st[n].heard + 1
  BY <1>0, <1>1, <1>5, <1>6, <1>8, PublisherConstants DEF StartedState, Alive
<1>3. st' = [st EXCEPT ![n] = r]
  BY <1>0, <1>1 DEF Plays
<1> QED
  BY <1>0, <1>2, <1>3, EditIs

\* What the invariant does not read may change.
LEMMA QuietIs ==
  ASSUME NEW s \in [Start -> StartedState], NEW n \in Start, NEW r \in StartedState,
    LooksLike(s[n], r)
  PROVE  [s EXCEPT ![n] = r] \in [Start -> StartedState] /\ Alike(s, [s EXCEPT ![n] = r])
  BY DEF Alike, LooksLike

LEMMA AlikeAgain ==
  ASSUME NEW s, NEW t, NEW u, Alike(s, t), Alike(t, u)
  PROVE  Alike(s, u)
  BY DEF Alike, LooksLike

LEMMA RecordedIs ==
  ASSUME NEW s \in [Start -> StartedState], NEW n \in Start, NEW b \in BOOLEAN
  PROVE  /\ [s EXCEPT ![n].recorded = b] \in [Start -> StartedState]
         /\ Alike(s, [s EXCEPT ![n].recorded = b])
<1>0. s[n] \in StartedState
  OBVIOUS
<1>1. PICK r : r = [s[n] EXCEPT !.recorded = b]
  OBVIOUS
<1>2. r \in StartedState /\ LooksLike(s[n], r)
  BY <1>0, <1>1 DEF StartedState, LooksLike
<1>3. [s EXCEPT ![n].recorded = b] = [s EXCEPT ![n] = r]
  BY <1>1
<1> QED
  BY <1>2, <1>3, QuietIs

LEMMA ReadingIs ==
  ASSUME NEW s \in [Start -> StartedState], NEW n \in Start, NEW x \in {"reading", "done",
    "cancelled"}
  PROVE  /\ [s EXCEPT ![n].reader = x] \in [Start -> StartedState]
         /\ Alike(s, [s EXCEPT ![n].reader = x])
<1>0. s[n] \in StartedState
  OBVIOUS
<1>1. PICK r : r = [s[n] EXCEPT !.reader = x]
  OBVIOUS
<1>2. r \in StartedState /\ LooksLike(s[n], r)
  BY <1>0, <1>1 DEF StartedState, LooksLike
<1>3. [s EXCEPT ![n].reader = x] = [s EXCEPT ![n] = r]
  BY <1>1
<1> QED
  BY <1>2, <1>3, QuietIs

\* A fence changes nothing of what was started, whatever it comes after.
LEMMA FenceKeeps ==
  ASSUME PublisherShapes, NEW s \in [Start -> StartedState], Alike(st, s), Fence(s)
  PROVE  StKept /\ cancelled' = TRUE
<1>1. cur \in 0..MaxStarts
  BY DEF PublisherShapes
<1>2. Signalled(s, cur) \in [Start -> StartedState] /\ Alike(s, Signalled(s, cur))
  BY <1>1, SignalledIs
<1>3. Alike(st, Signalled(s, cur))
  BY <1>2, AlikeAgain
<1>4. st' = Signalled(s, cur) /\ cancelled' = TRUE
  BY DEF Fence
<1> QED
  BY <1>2, <1>3, <1>4 DEF StKept

LEMMA StIsKept ==
  ASSUME PublisherShapes, UNCHANGED st
  PROVE  StKept
  BY DEF PublisherShapes, StKept, Alike, LooksLike

\* The same of every fence: it is of st, or of st with its process recorded.
LEMMA CancelKeeps ==
  ASSUME PublisherShapes, Fence(st)
  PROVE  StKept /\ cancelled' = TRUE
<1>1. st \in [Start -> StartedState] /\ Alike(st, st)
  BY DEF PublisherShapes, Alike, LooksLike
<1> QED
  BY <1>1, FenceKeeps

\* The reader and the reports of the worker touch nothing of it.
LEMMA ReaderKeeps ==
  ASSUME PublisherShapes, NEW n \in Start, ReaderStep(n)
  PROVE  StKept
<1>0. st \in [Start -> StartedState] /\ st[n] \in StartedState /\ n \in 0..MaxStarts
  BY PublisherConstants DEF PublisherShapes, Start
<1>1. st[n].out \in Seq(EventKinds)
  BY <1>0, StartedFields
<1>2. \A q \in Seq(EventKinds) : q # <<>> => Tail(q) \in Seq(EventKinds)
  OBVIOUS
<1>3. CASE st[n].out # <<>> /\ st' = [st EXCEPT ![n].ready = "set", ![n].out = Tail(@)]
  <2>1. PICK r : r = [st[n] EXCEPT !.ready = "set", !.out = Tail(@)]
    OBVIOUS
  <2>2. r \in StartedState /\ LooksLike(st[n], r)
    BY <1>0, <1>1, <1>2, <1>3, <2>1 DEF StartedState, LooksLike
  <2>3. st' = [st EXCEPT ![n] = r]
    BY <1>3, <2>1
  <2> QED
    BY <1>0, <2>2, <2>3, QuietIs DEF StKept
<1>4. CASE st[n].out # <<>> /\ st' = [st EXCEPT ![n].eof = "set", ![n].out = Tail(@)]
  <2>1. PICK r : r = [st[n] EXCEPT !.eof = "set", !.out = Tail(@)]
    OBVIOUS
  <2>2. r \in StartedState /\ LooksLike(st[n], r)
    BY <1>0, <1>1, <1>2, <1>4, <2>1 DEF StartedState, LooksLike
  <2>3. st' = [st EXCEPT ![n] = r]
    BY <1>4, <2>1
  <2> QED
    BY <1>0, <2>2, <2>3, QuietIs DEF StKept
<1>5. CASE ReaderFails(n)
  <2>1. PICK r : r = [st[n] EXCEPT !.reader = "done", !.ready = Failed(@), !.eof = Failed(@),
          !.out = <<>>]
    OBVIOUS
  <2>2. /\ Failed(st[n].ready) \in {"open", "set", "failed"}
             /\ Failed(st[n].eof) \in {"open", "set", "failed"}
        /\ <<>> \in Seq(EventKinds)
    BY <1>0, StartedFields DEF Failed
  <2>3. r \in StartedState /\ LooksLike(st[n], r)
    BY <1>0, <2>1, <2>2 DEF StartedState, LooksLike
  <2>4. PICK s : s = [st EXCEPT ![n] = r]
    OBVIOUS
  <2>5. s \in [Start -> StartedState] /\ Alike(st, s)
    BY <1>0, <2>3, <2>4, QuietIs
  <2>6. st' = Signalled(s, n)
    BY <1>5, <2>1, <2>4 DEF ReaderFails
  <2> QED
    BY <1>0, <2>5, <2>6, SignalledIs, AlikeAgain DEF StKept
<1>6. CASE st' = [st EXCEPT ![n].reader = "done"]
  BY <1>0, <1>6, ReadingIs DEF StKept
<1> QED
  BY <1>3, <1>4, <1>5, <1>6 DEF ReaderStep

LEMMA ReportKeeps ==
  ASSUME PublisherShapes, NEW n \in Start, Reports(n)
  PROVE  StKept
<1>0. st \in [Start -> StartedState] /\ st[n] \in StartedState
  BY DEF PublisherShapes
<1>1. Append(st[n].out, "error") \in Seq(EventKinds)
  <2>1. st[n].out \in Seq(EventKinds) /\ "error" \in EventKinds
    BY <1>0, StartedFields DEF EventKinds
  <2> QED
    BY <2>1
<1>2. PICK r : r = [st[n] EXCEPT !.out = Append(@, "error")]
  OBVIOUS
<1>3. r \in StartedState /\ LooksLike(st[n], r)
  BY <1>0, <1>1, <1>2 DEF StartedState, LooksLike
<1>4. st' = [st EXCEPT ![n] = r]
  BY <1>2 DEF Reports
<1> QED
  BY <1>0, <1>3, <1>4, QuietIs DEF StKept

\* The ways a step can go on, as the invariant sees them: the response moves, the actor moves, or
\* neither.
RespKind == [epoch : Nat, mine : 0..MaxStarts, after : {"begin", "end"}, doomed : BOOLEAN]
RespAt(w) == /\ pc' \in [Caller -> RespPlaces \cup CtlPlaces] /\ pc'[Resp] = w /\ pc'[Ctl] = pc[Ctl]
CtlAt(w) == /\ pc' \in [Caller -> RespPlaces \cup CtlPlaces] /\ pc'[Ctl] = w /\ pc'[Resp] = pc[Resp]
Still == UNCHANGED <<config, epoch, blocked, closing, cur, used>>

Opening ==
  /\ pc[Resp] = "open" /\ ~resp.doomed /\ RespAt("lock") /\ cancelled' = TRUE
  /\ resp' \in RespKind /\ resp'.epoch = resp.epoch /\ resp'.doomed = FALSE
  /\ StKept /\ Still /\ UNCHANGED <<lock, cut, faults>>
Leaving ==
  /\ pc[Resp] \in Owning \cup {"orphan", "quit"} /\ RespAt("lock") /\ cancelled' = TRUE
  /\ resp' \in RespKind /\ resp'.epoch = resp.epoch /\ resp'.after = "end"
  /\ StKept /\ Still /\ UNCHANGED <<lock, cut>> /\ faults' \in 0..MaxFaults
Idling ==
  /\ pc[Resp] # "idle" /\ RespAt("idle") /\ resp' = NoResp
  /\ lock' = (IF lock = Resp THEN Free ELSE lock) /\ cut' \in BOOLEAN /\ (cut' => blocked)
  /\ StKept /\ Still /\ UNCHANGED <<cancelled, faults>>
Orphaning ==
  /\ pc[Resp] = "launch" /\ RespAt("orphan")
  /\ resp' \in RespKind /\ resp'.epoch = resp.epoch /\ resp'.after = "end"
  /\ Still /\ UNCHANGED <<st, cancelled, lock, cut, faults>>
Staging ==
  /\ pc[Resp] = "geometry" /\ ~cancelled /\ RespAt("launch")
  /\ st' = [st EXCEPT ![mine].opening = "pending"]
  /\ Still /\ UNCHANGED <<cancelled, resp, lock, cut, faults>>
Readying ==
  /\ pc[Resp] = "launch" /\ RespAt("ready") /\ StKept
  /\ Still /\ UNCHANGED <<cancelled, resp, lock, cut, faults>>
Admitting ==
  /\ pc[Resp] = "ready" /\ RespAt("submit")
  /\ Still /\ UNCHANGED <<cancelled, resp, st, lock, cut, faults>>
Quitting ==
  /\ pc[Resp] \in Speaking /\ RespAt("quit") /\ (resp.epoch # epoch \/ Stale)
  /\ Still /\ UNCHANGED <<cancelled, resp, st, lock, cut, faults>>
Writing ==
  /\ pc[Resp] = "submit" /\ RespAt("drain") /\ resp.epoch = epoch /\ ~Stale
  /\ \E last \in BOOLEAN :
       /\ ~last => st[mine].wrote + 1 < MaxPackets
       /\ st' = [st EXCEPT ![mine].wrote = @ + 1, ![mine].final = last]
  /\ Still /\ UNCHANGED <<cancelled, resp, lock, cut, faults>>
Counting ==
  /\ pc[Resp] = "drain" /\ ~Stale /\ RespAt(IF st[mine].final THEN "eof" ELSE "submit")
  /\ st' = [st EXCEPT ![mine].sent = @ + 1]
  /\ Still /\ UNCHANGED <<cancelled, resp, lock, cut, faults>>

\* What a step does to the places.
LEMMA ToIs ==
  ASSUME PublisherShapes, NEW c \in Caller, NEW w \in RespPlaces \cup CtlPlaces, To(c, w)
  PROVE  (c = Resp => RespAt(w)) /\ (c = Ctl => CtlAt(w))
  BY PublisherConstants DEF PublisherShapes, To, RespAt, CtlAt, Caller

LEMMA PlacesAre ==
  /\ \A w \in {"idle", "open", "orphan", "quit", "lock", "geometry", "launch", "ready", "submit",
               "drain", "eof", "retire", "exit", "reader"} : w \in RespPlaces
                 /\ w \in RespPlaces \cup CtlPlaces
  /\ \A w \in {"idle", "left", "tts", "gather", "lock", "retire", "exit", "reader"} :
       w \in CtlPlaces /\ w \in RespPlaces \cup CtlPlaces
  BY DEF RespPlaces, CtlPlaces, Owning, Speaking, InRetire

\* And to what the response knows.
LEMMA RespIs ==
  ASSUME PublisherShapes
  PROVE  /\ resp \in RespKind
         /\ \A a \in {"begin", "end"} :
              /\ [resp EXCEPT !.after = a] \in RespKind
                   /\ [resp EXCEPT !.after = a].epoch = resp.epoch
              /\ [resp EXCEPT !.after = a].doomed = resp.doomed
                   /\ [resp EXCEPT !.after = a].after = a
         /\ [resp EXCEPT !.after = "end", !.doomed = FALSE] \in RespKind
         /\ [resp EXCEPT !.after = "end", !.doomed = FALSE].epoch = resp.epoch
         /\ [resp EXCEPT !.after = "end", !.doomed = FALSE].after = "end"
  BY DEF PublisherShapes, RespKind

\* What cancel() begins with, and the errors that end in it.
LEMMA CancelOfIs ==
  ASSUME PublisherShapes, CancelOf(Resp, st)
  PROVE  StKept /\ cancelled' = TRUE /\ RespAt("lock")
<1>1. Fence(st) /\ To(Resp, "lock")
  BY DEF CancelOf
<1> QED
  BY <1>1, CancelKeeps, ToIs, PlacesAre, PublisherConstants

LEMMA FaultIs ==
  ASSUME PublisherShapes
  PROVE  faults \in 0..MaxFaults /\ (Fault => faults' \in 0..MaxFaults)
  BY PublisherConstants DEF PublisherShapes, Fault

LEMMA AbandonsIs ==
  ASSUME PublisherShapes, Abandons, Steady, UNCHANGED <<cur, used, cut>>, faults' \in 0..MaxFaults,
         pc[Resp] \in Owning \cup {"orphan", "quit"}
  PROVE  Leaving
<1>1. CancelOf(Resp, st) /\ resp' = [resp EXCEPT !.after = "end", !.doomed = FALSE]
  BY DEF Abandons
<1> QED
  BY <1>1, CancelOfIs, RespIs DEF Leaving, Steady, Still

LEMMA FallsIs ==
  ASSUME PublisherShapes, FenceTells, Falls, Steady, UNCHANGED <<cur, used, cut, faults>>,
         pc[Resp] \in Owning \cup {"quit"}, lock # Resp
  PROVE  Leaving \/ Idling
<1>1. CASE CancelOf(Resp, st) /\ resp' = [resp EXCEPT !.after = "end"]
  BY <1>1, CancelOfIs, RespIs, FaultIs DEF Leaving, Steady, Still
<1>2. CASE Idles /\ UNCHANGED <<cancelled, st>>
  <2>1. RespAt("idle") /\ resp' = NoResp
    BY <1>2, ToIs, PlacesAre, PublisherConstants DEF Idles
  <2>2. pc[Resp] # "idle" /\ cut \in BOOLEAN /\ (cut => blocked)
    BY DEF Owning, Speaking, PublisherShapes, FenceTells
  <2> QED
    BY <1>2, <2>1, <2>2, StIsKept DEF Idling, Steady, Still
<1> QED
  BY <1>1, <1>2 DEF Falls

\* What each step of the response comes to.
LEMMA OpenIs ==
  ASSUME PublisherShapes, Open
  PROVE  Opening
<1>1. CancelOf(Resp, st) /\ resp' = [resp EXCEPT !.after = "begin"] /\ ~resp.doomed
        /\ pc[Resp] = "open"
  BY DEF Open
<1>2. resp.doomed \in BOOLEAN
  BY DEF PublisherShapes
<1> QED
  BY <1>1, <1>2, CancelOfIs, RespIs DEF Opening, Open, Steady, Still

LEMMA GeometryIs ==
  ASSUME PublisherShapes, Geometry
  PROVE  Leaving \/ Staging
<1>0. pc[Resp] \in Owning /\ Steady /\ UNCHANGED <<cur, used, cut>>
  BY DEF Geometry, Owning
<1>1. CASE Abandons /\ (UNCHANGED faults \/ Fault)
  BY <1>0, <1>1, FaultIs, AbandonsIs
<1>2. CASE /\ ~cancelled /\ st' = [st EXCEPT ![mine].opening = "pending"]
           /\ To(Resp, "launch") /\ UNCHANGED <<cancelled, resp, faults>>
  <2>1. RespAt("launch")
    BY <1>2, ToIs, PlacesAre, PublisherConstants
  <2> QED
    BY <1>0, <1>2, <2>1 DEF Staging, Geometry, Steady, Still
<1> QED
  BY <1>1, <1>2 DEF Geometry

LEMMA LaunchedIs ==
  ASSUME PublisherShapes, ChildIsReached, Launched
  PROVE  Leaving \/ Readying
<1>0. pc[Resp] = "launch" /\ pc[Resp] \in Owning /\ Steady /\ UNCHANGED <<cur, used, cut, faults>>
  BY DEF Launched, Owning
<1>1. mine \in Start /\ st \in [Start -> StartedState]
  BY <1>0, PublisherConstants DEF ChildIsReached, PublisherShapes, Start, mine
<1>2. PICK s : s = [st EXCEPT ![mine].recorded = TRUE]
  OBVIOUS
<1>3. s \in [Start -> StartedState] /\ Alike(st, s)
  BY <1>1, <1>2, RecordedIs
<1>4. CASE Abandons
  BY <1>0, <1>4, FaultIs, AbandonsIs
<1>5. CASE CancelOf(Resp, s) /\ resp' = [resp EXCEPT !.after = "end"]
  <2>1. Fence(s) /\ To(Resp, "lock")
    BY <1>5 DEF CancelOf
  <2>2. StKept /\ cancelled' = TRUE /\ RespAt("lock")
    BY <1>3, <2>1, FenceKeeps, ToIs, PlacesAre, PublisherConstants
  <2> QED
    BY <1>0, <1>5, <2>2, RespIs, FaultIs DEF Leaving, Steady, Still
<1>6. CASE /\ st' = [s EXCEPT ![mine].reader = "reading"]
           /\ To(Resp, "ready") /\ UNCHANGED <<cancelled, resp>>
  <2>1. StKept
    BY <1>1, <1>3, <1>6, ReadingIs, AlikeAgain DEF StKept
  <2>2. RespAt("ready")
    BY <1>6, ToIs, PlacesAre, PublisherConstants
  <2> QED
    BY <1>0, <1>6, <2>1, <2>2 DEF Readying, Steady, Still
<1> QED
  BY <1>2, <1>4, <1>5, <1>6 DEF Launched

LEMMA OrphanedIs ==
  ASSUME PublisherShapes, ChildIsReached, Orphaned
  PROVE  Leaving
<1>0. pc[Resp] = "orphan" /\ Steady /\ UNCHANGED <<cur, used, cut, faults, resp>>
        /\ resp.after = "end"
  BY DEF Orphaned, ChildIsReached
<1>1. PICK b \in BOOLEAN : b = (st[mine].opening = "done")
  OBVIOUS
<1>2. PICK s : s = [st EXCEPT ![mine].recorded = b]
  OBVIOUS
<1>3. s \in [Start -> StartedState] /\ Alike(st, s)
  <2>1. CASE mine \in Start
    BY <1>2, <2>1, RecordedIs DEF PublisherShapes
  <2>2. CASE mine \notin Start
    BY <1>2, <2>2 DEF PublisherShapes, Alike, LooksLike
  <2> QED
    BY <2>1, <2>2
<1>4. Fence(s) /\ To(Resp, "lock")
  BY <1>1, <1>2 DEF Orphaned, CancelOf
<1>5. StKept /\ cancelled' = TRUE /\ RespAt("lock")
  BY <1>3, <1>4, FenceKeeps, ToIs, PlacesAre, PublisherConstants
<1> QED
  BY <1>0, <1>5, RespIs, FaultIs DEF Leaving, Steady, Still

LEMMA ReadyIs ==
  ASSUME PublisherShapes, Ready
  PROVE  Admitting \/ Leaving
<1>0. pc[Resp] = "ready" /\ pc[Resp] \in Owning /\ Steady /\ UNCHANGED <<cur, used, cut, faults>>
  BY DEF Ready, Owning
<1>1. CASE Abandons
  BY <1>0, <1>1, FaultIs, AbandonsIs
<1>2. CASE To(Resp, "submit") /\ UNCHANGED <<cancelled, st, resp>>
  BY <1>0, <1>2, ToIs, PlacesAre, PublisherConstants DEF Admitting, Steady, Still
<1> QED
  BY <1>1, <1>2 DEF Ready

LEMMA SubmitGoes ==
  ASSUME PublisherShapes, Submit
  PROVE  Quitting \/ Writing
<1>0. /\ pc[Resp] = "submit" /\ pc[Resp] \in Speaking /\ Steady
      /\ UNCHANGED <<cancelled, cur, used, resp, cut, faults>>
  BY DEF Submit, Speaking
<1>1. CASE (resp.epoch # epoch \/ Stale) /\ To(Resp, "quit") /\ UNCHANGED st
  BY <1>0, <1>1, ToIs, PlacesAre, PublisherConstants DEF Quitting, Steady, Still
<1>2. CASE /\ resp.epoch = epoch /\ ~Stale
           /\ \E last \in BOOLEAN :
                /\ ~last => st[mine].wrote + 1 < MaxPackets
                /\ st' = [st EXCEPT ![mine].wrote = @ + 1, ![mine].final = last]
           /\ To(Resp, "drain")
  BY <1>0, <1>2, ToIs, PlacesAre, PublisherConstants DEF Writing, Steady, Still
<1> QED
  BY <1>1, <1>2 DEF Submit

LEMMA DrainedIs ==
  ASSUME PublisherShapes, OneRetires, FenceTells, Drained
  PROVE  Leaving \/ Idling \/ Quitting \/ Counting
<1>0. /\ pc[Resp] = "drain" /\ pc[Resp] \in Speaking /\ pc[Resp] \in Owning /\ Steady
      /\ UNCHANGED <<cur, used, cut, faults>> /\ lock # Resp
  BY PublisherConstants DEF Drained, Speaking, Owning, OneRetires, InRetire
<1>1. CASE Falls
  BY <1>0, <1>1, FallsIs
<1>2. CASE Stale /\ To(Resp, "quit") /\ UNCHANGED <<st, cancelled, resp>>
  BY <1>0, <1>2, ToIs, PlacesAre, PublisherConstants DEF Quitting, Steady, Still
<1>3. CASE /\ ~Stale /\ st' = [st EXCEPT ![mine].sent = @ + 1]
           /\ To(Resp, IF st[mine].final THEN "eof" ELSE "submit")
           /\ UNCHANGED <<cancelled, resp>>
  <2>1. RespAt(IF st[mine].final THEN "eof" ELSE "submit")
    BY <1>3, ToIs, PlacesAre, PublisherConstants
  <2> QED
    BY <1>0, <1>3, <2>1 DEF Counting, Steady, Still
<1> QED
  BY <1>1, <1>2, <1>3 DEF Drained

LEMMA EndedIs ==
  ASSUME PublisherShapes, OneRetires, FenceTells, Ended
  PROVE  Leaving \/ Idling \/ Quitting
<1>0. /\ pc[Resp] = "eof" /\ pc[Resp] \in Speaking /\ pc[Resp] \in Owning /\ Steady
      /\ UNCHANGED <<cur, used, faults>> /\ lock # Resp
      /\ cut \in BOOLEAN /\ (cut => blocked) /\ pc[Resp] # "idle"
  BY PublisherConstants
  DEF Ended, Speaking, Owning, OneRetires, InRetire, FenceTells, PublisherShapes
<1>1. CASE Falls /\ UNCHANGED cut
  BY <1>0, <1>1, FallsIs
<1>2. CASE Stale /\ To(Resp, "quit") /\ UNCHANGED <<st, cancelled, resp, cut>>
  BY <1>0, <1>2, ToIs, PlacesAre, PublisherConstants DEF Quitting, Steady, Still
<1>3. CASE Idles /\ Announce(TRUE) /\ UNCHANGED <<cancelled, st>>
  <2>1. RespAt("idle") /\ resp' = NoResp
    BY <1>3, ToIs, PlacesAre, PublisherConstants DEF Idles
  <2>2. cut' \in BOOLEAN /\ (cut' => blocked)
    BY <1>0, <1>3 DEF Announce
  <2> QED
    BY <1>0, <1>3, <2>1, <2>2, StIsKept DEF Idling, Steady, Still
<1> QED
  BY <1>1, <1>2, <1>3 DEF Ended

LEMMA QuitsIs ==
  ASSUME PublisherShapes, OneRetires, FenceTells, Quits
  PROVE  Leaving \/ Idling
<1>0. /\ pc[Resp] = "quit" /\ Steady /\ UNCHANGED <<cur, used, faults>> /\ lock # Resp
      /\ cut \in BOOLEAN /\ (cut => blocked) /\ (blocked \/ resp.epoch # epoch)
  BY PublisherConstants DEF Quits, OneRetires, InRetire, FenceTells, PublisherShapes
<1>1. CASE Falls /\ UNCHANGED cut
  BY <1>0, <1>1, FallsIs
<1>2. CASE Idles /\ Announce(FALSE) /\ UNCHANGED <<cancelled, st>>
  <2>1. RespAt("idle") /\ resp' = NoResp
    BY <1>2, ToIs, PlacesAre, PublisherConstants DEF Idles
  <2>2. cut' \in BOOLEAN /\ (cut' => blocked)
    BY <1>0, <1>2 DEF Announce
  <2> QED
    BY <1>0, <1>2, <2>1, <2>2, StIsKept DEF Idling, Steady, Still
<1> QED
  BY <1>1, <1>2 DEF Quits

LEMMA DoomedIs ==
  ASSUME PublisherShapes, OneRetires, FenceTells, Doomed
  PROVE  Leaving \/ Orphaning \/ Idling
<1>0. /\ UNCHANGED <<config, epoch, blocked, closing, cur, used, cut, faults>>
      /\ cut \in BOOLEAN /\ (cut => blocked)
  BY DEF Doomed, FenceTells, PublisherShapes
<1>1. CASE pc[Resp] \in {"geometry", "ready"} /\ Abandons /\ UNCHANGED lock
  <2>1. pc[Resp] \in Owning
    BY <1>1 DEF Owning
  <2> QED
    BY <1>0, <1>1, <2>1, FaultIs, AbandonsIs DEF Steady
<1>2. CASE /\ pc[Resp] = "launch" /\ To(Resp, "orphan")
           /\ resp' = [resp EXCEPT !.after = "end", !.doomed = FALSE]
           /\ UNCHANGED <<cancelled, st, lock>>
  BY <1>0, <1>2, ToIs, PlacesAre, PublisherConstants, RespIs DEF Orphaning, Still
<1>3. CASE /\ pc[Resp] \in {"lock", "retire", "exit", "reader"}
           /\ lock' = (IF lock = Resp THEN Free ELSE lock)
           /\ st' = IF pc[Resp] = "reader" /\ st[cur].reader = "reading"
                    THEN [st EXCEPT ![cur].reader = "cancelled"] ELSE st
           /\ Idles /\ UNCHANGED cancelled
  <2>1. RespAt("idle") /\ resp' = NoResp /\ pc[Resp] # "idle"
    BY <1>3, ToIs, PlacesAre, PublisherConstants DEF Idles
  <2>2. StKept
    <3>1. CASE UNCHANGED st
      BY <3>1, StIsKept
    <3>2. CASE pc[Resp] = "reader" /\ st' = [st EXCEPT ![cur].reader = "cancelled"]
      <4>1. cur \in Start /\ st \in [Start -> StartedState]
        BY <3>2, PublisherConstants DEF OneRetires, PublisherShapes, Start
      <4> QED
        BY <3>2, <4>1, ReadingIs DEF StKept
    <3> QED
      BY <1>3, <3>1, <3>2
  <2> QED
    BY <1>0, <1>3, <2>1, <2>2 DEF Idling, Still
<1>4. CASE /\ pc[Resp] \in Speaking \cup {"open", "quit"}
           /\ Idles /\ UNCHANGED <<cancelled, st, lock>>
  <2>1. RespAt("idle") /\ resp' = NoResp /\ pc[Resp] # "idle" /\ lock # Resp
    BY <1>4, ToIs, PlacesAre, PublisherConstants DEF Idles, Speaking, OneRetires, InRetire
  <2> QED
    BY <1>0, <1>4, <2>1, StIsKept DEF Idling, Still
<1> QED
  BY <1>1, <1>2, <1>3, <1>4 DEF Doomed

\* The actor: its outcomes, and those of cancel().
Revoking ==
  /\ ~blocked /\ blocked' = TRUE /\ cancelled' = TRUE /\ StKept
  /\ UNCHANGED <<config, epoch, cur, used, callVars, cut, faults>>
Moving(last) ==
  /\ pc[Ctl] \in {"idle", "left"} /\ ~closing /\ closing' = last /\ (last \/ epoch < MaxInterrupts)
  /\ epoch' = epoch + 1 /\ cancelled' = TRUE /\ StKept
  /\ CtlAt(IF pc[Resp] = "idle" THEN "lock" ELSE "tts")
  /\ UNCHANGED <<config, blocked, cur, used, lock, resp, cut, faults>>
Gathering ==
  /\ pc[Ctl] = "gather" /\ pc[Resp] = "idle" /\ CtlAt("lock") /\ cancelled' = TRUE /\ StKept
  /\ UNCHANGED <<config, epoch, blocked, cur, used, lock, resp, closing, cut, faults>>
Dooming ==
  /\ pc[Ctl] = "tts" /\ CtlAt("gather")
  /\ resp' \in RespKind /\ resp'.epoch = resp.epoch /\ resp'.mine = resp.mine
  /\ resp'.after = resp.after /\ resp'.doomed = (pc[Resp] # "idle")
  /\ UNCHANGED <<flagVars, cur, used, st, lock, closing, cut, faults>>
Answering ==
  /\ used < MaxStarts /\ pc[Resp] = "idle" /\ pc[Ctl] = "left"
  /\ pc' \in [Caller -> RespPlaces \cup CtlPlaces] /\ pc'[Resp] = "open" /\ pc'[Ctl] = "idle"
  /\ resp' \in RespKind /\ resp'.epoch = epoch
  /\ UNCHANGED <<flagVars, cur, used, st, lock, closing, cut, faults>>
Reading == StKept /\ UNCHANGED <<flagVars, cur, used, callVars, cut>> /\ faults' \in 0..MaxFaults

\* cancel() of either caller.
At(c, w) == (c = Resp => RespAt(w)) /\ (c = Ctl => CtlAt(w))
Locking(c) ==
  /\ pc[c] = "lock" /\ lock = Free /\ lock' = c /\ At(c, "retire")
  /\ UNCHANGED <<flagVars, cur, used, st, resp, closing, cut, faults>>
Telling(c) ==
  /\ pc[c] = "retire" /\ cur # 0 /\ st[cur].opening = "done" /\ cancelled' = TRUE /\ StKept
  /\ At(c, "exit")
       /\ UNCHANGED <<config, epoch, blocked, closing, cut, cur, used, lock, resp, faults>>
Awaiting(c) ==
  /\ pc[c] = "exit" /\ st[cur].child = "dead" /\ At(c, "reader")
  /\ UNCHANGED <<flagVars, cur, used, st, lock, resp, closing, cut, faults>>
Failing(c) ==
  /\ pc[c] = "reader" /\ lock' = Free /\ At(c, "idle")
  /\ resp' = (IF c = Resp THEN NoResp ELSE resp)
  /\ UNCHANGED <<flagVars, cur, used, st, closing, cut, faults>>
Parting == UNCHANGED <<config, epoch, blocked, closing, cut>> /\ lock' = Free
ReturningActor ==
  /\ pc[Ctl] \in InRetire /\ CtlAt("left") /\ cur' = 0 /\ LeavesNothing(st')
  /\ Parting /\ UNCHANGED <<cancelled, used, resp, faults>>
ReturningLast ==
  /\ pc[Resp] \in InRetire /\ RespAt("idle") /\ resp' = NoResp /\ cur' = 0 /\ LeavesNothing(st')
  /\ Parting /\ UNCHANGED <<used>> /\ cancelled' \in BOOLEAN /\ (blocked => cancelled')
       /\ faults' \in 0..MaxFaults
ReturningFirst ==
  /\ pc[Resp] \in InRetire /\ resp.after = "begin" /\ ~resp.doomed /\ ~blocked
  /\ RespAt("geometry") /\ cancelled' = FALSE /\ used < MaxStarts /\ used' = used + 1
       /\ cur' = used'
  /\ resp' \in RespKind /\ resp'.epoch = resp.epoch /\ resp'.mine = used' /\ resp'.doomed = FALSE
  /\ \E s : /\ LeavesNothing(s)
            /\ st' = [s EXCEPT ![used'] = [Fresh EXCEPT !.key = resp.epoch, !.dir = TRUE]]
  /\ Parting /\ UNCHANGED faults

\* What each step of the actor comes to.
LEMMA RevokeIs ==
  ASSUME PublisherShapes, Revoke
  PROVE  Revoking
  BY CancelKeeps DEF Revoke, Revoking

LEMMA InterruptIs ==
  ASSUME PublisherShapes, NEW last \in BOOLEAN, Interrupt(last)
  PROVE  Moving(last)
<1>1. StKept /\ cancelled' = TRUE
  BY CancelKeeps DEF Interrupt
<1>2. \A w \in {"lock", "tts"} : To(Ctl, w) => CtlAt(w)
  BY ToIs, PlacesAre, PublisherConstants
<1> QED
  BY <1>1, <1>2 DEF Interrupt, Moving

LEMMA GatheredIs ==
  ASSUME PublisherShapes, Gathered
  PROVE  Gathering
<1>1. Fence(st) /\ To(Ctl, "lock")
  BY DEF Gathered, CancelOf
<1>2. StKept /\ cancelled' = TRUE /\ CtlAt("lock")
  BY <1>1, CancelKeeps, ToIs, PlacesAre, PublisherConstants
<1> QED
  BY <1>2 DEF Gathered, Gathering

LEMMA CancelsIs ==
  ASSUME PublisherShapes, Cancels
  PROVE  Dooming
<1>1. CtlAt("gather")
  BY ToIs, PlacesAre, PublisherConstants DEF Cancels
<1>2. PICK b \in BOOLEAN : b = (pc[Resp] # "idle")
  OBVIOUS
<1>3. /\ [resp EXCEPT !.doomed = b] \in RespKind /\ [resp EXCEPT !.doomed = b].epoch = resp.epoch
      /\ [resp EXCEPT !.doomed = b].mine = resp.mine
           /\ [resp EXCEPT !.doomed = b].after = resp.after
      /\ [resp EXCEPT !.doomed = b].doomed = b
  BY RespIs DEF RespKind
<1>4. resp' = [resp EXCEPT !.doomed = b]
  BY <1>2 DEF Cancels
<1> QED
  BY <1>1, <1>2, <1>3, <1>4 DEF Cancels, Dooming

LEMMA AnswerIs ==
  ASSUME PublisherShapes, Answer
  PROVE  Answering
<1>1. /\ pc' \in [Caller -> RespPlaces \cup CtlPlaces] /\ pc'[Resp] = "open" /\ pc'[Ctl] = "idle"
  BY PublisherConstants, PlacesAre DEF Answer, PublisherShapes, Caller
<1>2. resp' \in RespKind /\ resp'.epoch = epoch
  <2>1. epoch \in Nat /\ 0 \in 0..MaxStarts
    BY PublisherConstants DEF PublisherShapes
  <2>2. resp' = [NoResp EXCEPT !.epoch = epoch]
    BY DEF Answer
  <2> QED
    BY <2>1, <2>2 DEF NoResp, RespKind
<1> QED
  BY <1>1, <1>2 DEF Answer, Answering

LEMMA ReadsIs ==
  ASSUME PublisherShapes, NEW n \in Start, Reports(n) \/ ReaderStep(n)
  PROVE  Reading
<1>1. StKept
  BY ReportKeeps, ReaderKeeps
<1> QED
  BY <1>1, FaultIs DEF Reading, Reports, ReaderStep

\* A cancel() that has found nothing, a launch that failed, or a process that has ended.
LEMMA NothingLeft ==
  ASSUME PublisherShapes, OneRetires, ChildIsReached, PacketsAreCounted
  PROVE  /\ cur = 0 => LeavesNothing(st)
         /\ cur # 0 /\ st[cur].opening # "pending"
              /\ st[cur].child \notin Alive => LeavesNothing(Cleared)
<1>0. \A n \in Start : st[n].wrote \in Nat /\ st[n].sent \in Nat
  BY StartedFields DEF PublisherShapes
<1>1. CASE cur = 0
  <2>1. \A n \in Start : n # 0
    BY PublisherConstants DEF Start
  <2>2. \A n \in Start : st[n].dir \in BOOLEAN
    BY StartedFields DEF PublisherShapes
  <2> QED
    BY <1>0, <1>1, <2>1, <2>2 DEF LeavesNothing, ChildIsReached, PacketsAreCounted, PublisherShapes
<1>2. CASE cur # 0 /\ st[cur].opening # "pending" /\ st[cur].child \notin Alive
  <2>1. cur \in Start /\ st \in [Start -> StartedState]
    BY <1>2, PublisherConstants DEF PublisherShapes, Start
  <2>2. PICK f : f = Fresh
    OBVIOUS
  <2>3. /\ f \in StartedState /\ f.child = "none" /\ f.opening = "none" /\ f.dir = FALSE
        /\ f.heard <= f.wrote /\ f.sent <= f.wrote /\ f.wrote = 0 /\ f.sent = 0
    BY <2>2, FreshIsStarted DEF Fresh
  <2>4. Cleared = [st EXCEPT ![cur] = f]
    BY <1>2, <2>1, <2>2, ClearedIs
  <2>5. \A n \in Start : st[n].dir \in BOOLEAN
    BY StartedFields DEF PublisherShapes
  <2>6. PICK s : s = Cleared
    OBVIOUS
  <2>7. s \in [Start -> StartedState] /\ s[cur] = f /\ \A n \in Start : n # cur => s[n] = st[n]
    BY <2>1, <2>3, <2>4, <2>6
  <2>8. "none" \notin Alive
    BY DEF Alive
  <2>9. LeavesNothing(s)
    BY <1>0, <2>1, <2>3, <2>5, <2>7, <2>8 DEF LeavesNothing, ChildIsReached, PacketsAreCounted
  <2> QED
    BY <1>2, <2>1, <2>6, <2>9, PublisherConstants DEF Start
<1> QED
  BY <1>1, <1>2

\* How cancel() returns.
LEMMA ReturnIs ==
  ASSUME PublisherShapes, ChildIsReached, FenceTells, NEW c \in Caller, NEW s, LeavesNothing(s),
    Return(c, s),
         pc[c] \in InRetire, UNCHANGED <<config, epoch, blocked, closing, cut>>, c = Resp
           => ~resp.doomed
  PROVE  ReturningActor \/ ReturningLast \/ ReturningFirst
<1>0. Parting
  BY DEF Parting, Return
<1>1. CASE c = Ctl /\ To(Ctl, "left") /\ st' = s /\ cur' = 0
        /\ UNCHANGED <<cancelled, used, resp, faults>>
  BY <1>0, <1>1, ToIs, PlacesAre, PublisherConstants DEF ReturningActor
<1>2. ASSUME c = Resp, To(Resp, "idle"), resp' = NoResp, st' = s, cur' = 0,
        UNCHANGED <<cancelled, used>>,
             faults' \in 0..MaxFaults
      PROVE  ReturningLast
  <2>1. RespAt("idle")
    BY <1>2, ToIs, PlacesAre, PublisherConstants
  <2> QED
    BY <1>0, <1>2, <2>1 DEF ReturningLast, PublisherShapes, FenceTells
<1>3. CASE c = Resp /\ resp.after = "begin" /\ Begin(s)
  <2>1. CASE /\ blocked /\ To(Resp, "idle") /\ resp' = NoResp
             /\ UNCHANGED <<cancelled, used, faults>> /\ st' = s /\ cur' = 0
    BY <1>2, <1>3, <2>1, FaultIs
  <2>2. CASE /\ ~blocked /\ cancelled' = FALSE /\ Fault /\ st' = s /\ cur' = 0 /\ To(Resp, "idle")
             /\ resp' = NoResp /\ UNCHANGED used
    <3>1. RespAt("idle") /\ faults' \in 0..MaxFaults
      BY <2>2, FaultIs, ToIs, PlacesAre, PublisherConstants
    <3> QED
      BY <1>0, <1>3, <2>2, <3>1 DEF ReturningLast
  <2>3. CASE /\ ~blocked /\ cancelled' = FALSE /\ used' = used + 1 /\ cur' = used'
             /\ st' = [s EXCEPT ![used'] = [Fresh EXCEPT !.key = resp.epoch, !.dir = TRUE]]
             /\ resp' = [resp EXCEPT !.mine = used'] /\ To(Resp, "geometry")
             /\ UNCHANGED faults
    <3>1. RespAt("geometry")
      BY <2>3, ToIs, PlacesAre, PublisherConstants
    <3>2. used < MaxStarts
      BY <1>3 DEF ChildIsReached, Before, AtCancel
    <3>3. used + 1 \in 0..MaxStarts
      BY <3>2, PublisherConstants DEF PublisherShapes
    <3>4. resp' \in RespKind /\ resp'.epoch = resp.epoch /\ resp'.mine = used'
            /\ resp'.doomed = resp.doomed
      BY <2>3, <3>3, RespIs DEF RespKind
    <3>5. resp.doomed = FALSE
      BY <1>3 DEF PublisherShapes
    <3> QED
      BY <1>0, <1>3, <2>3, <3>1, <3>2, <3>4, <3>5 DEF ReturningFirst
  <2> QED
    BY <1>3, <2>1, <2>2, <2>3 DEF Begin
<1>4. CASE /\ c = Resp /\ To(Resp, "idle") /\ resp' = NoResp /\ st' = s /\ cur' = 0
           /\ UNCHANGED <<cancelled, used, faults>>
  BY <1>2, <1>4, FaultIs
<1> QED
  BY <1>1, <1>3, <1>4 DEF Return

\* A step of cancel() is one of these.
CancelGoes(c) ==
  \/ Locking(c) \/ Telling(c) \/ Awaiting(c) \/ Failing(c) \/ (Kill(c) /\ cur # 0)
  \/ ReturningActor \/ ReturningLast \/ ReturningFirst

LEMMA CancelStepIs ==
  ASSUME PublisherIInv, NEW c \in Caller, CancelStep(c), c = Resp => ~resp.doomed
  PROVE  CancelGoes(c)
<1> USE DEF PublisherIInv
<1>0. \A w \in {"retire", "exit", "reader", "idle"} : To(c, w) => At(c, w)
  BY ToIs, PlacesAre DEF At
<1>1. CASE Lock(c)
  BY <1>0, <1>1 DEF Lock, Locking, CancelGoes
<1>2. CASE Retire(c)
  <2>0. pc[c] \in InRetire /\ UNCHANGED <<config, epoch, blocked, closing, cut>>
    BY <1>2 DEF Retire, InRetire
  <2>1. CASE cur = 0 /\ Return(c, st)
    BY <2>0, <2>1, NothingLeft, ReturnIs DEF CancelGoes
  <2>2. CASE cur # 0 /\ st[cur].opening \in {"none", "failed"} /\ Return(c, Cleared)
    <3>1. cur \in Start
      BY <2>2, PublisherConstants DEF PublisherShapes, Start
    <3>2. st[cur].child = "none"
      BY <2>2, <3>1 DEF ChildIsReached
    <3>3. st[cur].opening # "pending" /\ st[cur].child \notin Alive
      BY <2>2, <3>2 DEF Alive
    <3> QED
      BY <2>0, <2>2, <3>3, NothingLeft, ReturnIs DEF CancelGoes
  <2>3. CASE /\ cur # 0 /\ st[cur].opening = "done"
             /\ Fence([st EXCEPT ![cur].recorded = TRUE]) /\ To(c, "exit")
             /\ UNCHANGED <<cur, used, lock, resp, faults>>
    <3>1. cur \in Start /\ st \in [Start -> StartedState]
      BY <2>3, PublisherConstants DEF PublisherShapes, Start
    <3>2. PICK s : s = [st EXCEPT ![cur].recorded = TRUE]
      OBVIOUS
    <3>3. s \in [Start -> StartedState] /\ Alike(st, s)
      BY <3>1, <3>2, RecordedIs
    <3>4. StKept /\ cancelled' = TRUE
      BY <2>3, <3>2, <3>3, FenceKeeps
    <3> QED
      BY <1>0, <1>2, <2>0, <2>3, <3>4 DEF Telling, CancelGoes, Retire
  <2> QED
    BY <1>2, <2>1, <2>2, <2>3 DEF Retire
<1>3. ASSUME pc[c] \in {"exit", "reader"}, st[cur].child = "dead", Return(c, Cleared),
             UNCHANGED <<config, epoch, blocked, closing, cut>>
      PROVE  CancelGoes(c)
  <2>1. cur # 0 /\ st[cur].opening # "pending" /\ st[cur].child \notin Alive
    BY <1>3 DEF OneRetires, Alive
  <2> QED
    BY <1>3, <2>1, NothingLeft, ReturnIs DEF CancelGoes, InRetire
<1>4. CASE Exited(c)
  <2>1. CASE st[cur].reader = "none" /\ Return(c, Cleared)
    BY <1>3, <1>4, <2>1 DEF Exited
  <2>2. CASE st[cur].reader # "none" /\ To(c, "reader")
             /\ UNCHANGED <<cancelled, cur, used, st, lock, resp, faults>>
    BY <1>0, <1>4, <2>2 DEF Exited, Awaiting, CancelGoes, flagVars
  <2> QED
    BY <1>4, <2>1, <2>2 DEF Exited
<1>5. CASE Kill(c)
  BY <1>5 DEF Kill, OneRetires, CancelGoes
<1>6. CASE Joined(c)
  BY <1>3, <1>6 DEF Joined, OneRetires
<1>7. CASE Poisoned(c)
  BY <1>0, <1>7 DEF Poisoned, Failing, CancelGoes
<1> QED
  BY <1>1, <1>2, <1>4, <1>5, <1>6, <1>7 DEF CancelStep

\* The steps that change what a state is: which one, and to what.
Became(n, opening, child, wrote, sent, heard, final) ==
  /\ n \in Start /\ StBut(n) /\ st'[n].dir = st[n].dir /\ st'[n].key = st[n].key
  /\ st'[n].opening = opening /\ st'[n].child = child /\ st'[n].final = final
  /\ st'[n].wrote = wrote /\ st'[n].sent = sent /\ st'[n].heard = heard
Staged ==
  /\ pc[Resp] = "geometry" /\ ~cancelled /\ RespAt("launch") /\ cur = mine
  /\ Became(mine, "pending", st[mine].child, st[mine].wrote, st[mine].sent, st[mine].heard,
       st[mine].final)
  /\ Still /\ UNCHANGED <<cancelled, resp, lock, cut, faults>>
Written ==
  /\ pc[Resp] = "submit" /\ RespAt("drain") /\ resp.epoch = epoch /\ ~cancelled /\ cur = mine
  /\ \E last \in BOOLEAN :
       /\ ~last => st[mine].wrote + 1 < MaxPackets
       /\ Became(mine, st[mine].opening, st[mine].child, st[mine].wrote + 1, st[mine].sent,
            st[mine].heard, last)
  /\ Still /\ UNCHANGED <<cancelled, resp, lock, cut, faults>>
Counted ==
  /\ pc[Resp] = "drain" /\ ~cancelled /\ cur = mine
       /\ RespAt(IF st[mine].final THEN "eof" ELSE "submit")
  /\ Became(mine, st[mine].opening, st[mine].child, st[mine].wrote, st[mine].sent + 1,
       st[mine].heard, st[mine].final)
  /\ Still /\ UNCHANGED <<cancelled, resp, lock, cut, faults>>
Alone == UNCHANGED <<flagVars, cur, used, callVars, cut>> /\ faults' \in 0..MaxFaults
Created(n) ==
  /\ st[n].opening = "pending" /\ Alone
  /\ Became(n, "done", "joining", st[n].wrote, st[n].sent, st[n].heard, st[n].final)
NotCreated(n) ==
  /\ st[n].opening = "pending" /\ Alone
  /\ Became(n, "failed", st[n].child, st[n].wrote, st[n].sent, st[n].heard, st[n].final)
Showing(n) ==
  /\ st[n].child = "joining" /\ Alone
  /\ Became(n, st[n].opening, "live", st[n].wrote, st[n].sent, st[n].heard, st[n].final)
Played(n) ==
  /\ st[n].child = "live" /\ st[n].heard < st[n].wrote /\ Alone
  /\ \E child \in {"live", "ended"} :
       Became(n, st[n].opening, child, st[n].wrote, st[n].sent, st[n].heard + 1, st[n].final)
Dead(n) ==
  /\ st[n].child \in Alive /\ Alone
  /\ Became(n, st[n].opening, "dead", st[n].wrote, st[n].sent, st[n].heard, st[n].final)

\* Whose state a step changes: the one the response owns, or that of a process.
LEMMA StagingGoes ==
  ASSUME PublisherIInv, Staging
  PROVE  Staged
<1>1. PublisherShapes /\ cur = mine /\ mine # 0 /\ mine \in Start
  BY PublisherConstants DEF PublisherIInv, ChildIsReached, PublisherShapes, Start, Owning,
    Staging, mine
<1> QED
  BY <1>1, StagedIs DEF Staging, Staged, Became

LEMMA WritingGoes ==
  ASSUME PublisherIInv, Writing
  PROVE  Written
<1>1. PublisherShapes /\ cur = mine /\ mine # 0 /\ mine \in Start
        /\ st[mine].wrote < MaxPackets /\ ~cancelled
  BY PublisherConstants
  DEF PublisherIInv, ChildIsReached, PacketsAreCounted, PublisherShapes, Start, Owning, Speaking,
    Writing, mine, Stale
<1>2. PICK last \in BOOLEAN :
        /\ ~last => st[mine].wrote + 1 < MaxPackets
        /\ st' = [st EXCEPT ![mine].wrote = @ + 1, ![mine].final = last]
  BY DEF Writing
<1>3. Became(mine, st[mine].opening, st[mine].child, st[mine].wrote + 1, st[mine].sent,
        st[mine].heard, last)
  BY <1>1, <1>2, SubmitIs DEF Became
<1> QED
  BY <1>1, <1>2, <1>3 DEF Writing, Written

LEMMA CountingGoes ==
  ASSUME PublisherIInv, Counting
  PROVE  Counted
<1>1. PublisherShapes /\ cur = mine /\ mine # 0 /\ mine \in Start
        /\ st[mine].sent < st[mine].wrote /\ ~cancelled
  BY PublisherConstants
  DEF PublisherIInv, ChildIsReached, PacketsAreCounted, PublisherShapes, Start, Owning, Speaking,
    Counting, mine, Stale
<1> QED
  BY <1>1, CountedIs DEF Counting, Counted, Became

LEMMA SpawnGoes ==
  ASSUME PublisherShapes, NEW n \in Start, Spawn(n)
  PROVE  Created(n) \/ NotCreated(n)
<1>1. Alone /\ st[n].opening = "pending"
  BY FaultIs DEF Spawn, Alone
<1>2. CASE st' = [st EXCEPT ![n].opening = "done", ![n].child = "joining"]
  BY <1>1, <1>2, CreatedIs DEF Created, Became
<1>3. CASE st' = [st EXCEPT ![n].opening = "failed"]
  BY <1>1, <1>3, NotCreatedIs DEF NotCreated, Became
<1> QED
  BY <1>2, <1>3 DEF Spawn

LEMMA ChildGoes ==
  ASSUME PublisherShapes, NEW n \in Start, Publishes(n) \/ Plays(n) \/ Dies(n)
  PROVE  Showing(n) \/ Played(n) \/ Dead(n)
<1>1. CASE Publishes(n)
  BY <1>1, FaultIs, PublishesIs DEF Publishes, Showing, Alone, Became
<1>2. CASE Plays(n)
  <2>1. st[n].child = "live" /\ st[n].heard < st[n].wrote /\ Alone
    BY <1>2, FaultIs DEF Plays, Alone
  <2>2. PICK child \in {"live", "ended"} :
          child = IF st[n].final /\ st[n].heard + 1 = st[n].wrote THEN "ended" ELSE st[n].child
    BY <2>1
  <2>3. Became(n, st[n].opening, child, st[n].wrote, st[n].sent, st[n].heard + 1, st[n].final)
    BY <1>2, <2>1, <2>2, PlaysIs DEF Became
  <2> QED
    BY <2>1, <2>3 DEF Played
<1>3. CASE Dies(n)
  BY <1>3, FaultIs, DiesIs DEF Dies, Dead, Alone, Became
<1> QED
  BY <1>1, <1>2, <1>3

LEMMA KillGoes ==
  ASSUME PublisherShapes, NEW c \in Caller, Kill(c), cur # 0
  PROVE  Dead(cur)
<1>1. cur \in Start
  BY PublisherConstants DEF PublisherShapes, Start
<1> QED
  BY <1>1, FaultIs, KillIs DEF Kill, Dead, Alone, Became

\* Every step is one of these.
PublisherGoes ==
  \/ Connect \/ Revoking \/ Answering \/ (\E last \in BOOLEAN : Moving(last)) \/ Dooming
       \/ Gathering
  \/ Opening \/ Leaving \/ Idling \/ Orphaning \/ Staged \/ Readying \/ Admitting \/ Quitting
  \/ Written \/ Counted \/ ReturningActor \/ ReturningLast \/ ReturningFirst
  \/ Locking(Resp) \/ Telling(Resp) \/ Awaiting(Resp) \/ Failing(Resp)
  \/ Locking(Ctl) \/ Telling(Ctl) \/ Awaiting(Ctl) \/ Failing(Ctl)
  \/ \E n \in Start : Created(n) \/ NotCreated(n) \/ Showing(n) \/ Played(n) \/ Dead(n)
  \/ Reading \/ UNCHANGED vars

\* And every step of the publisher is one of them.
LEMMA PublisherNext ==
  ASSUME PublisherIInv, [Next]_vars
  PROVE  PublisherGoes
<1> USE DEF PublisherIInv
<1>1. CASE Connect \/ Revoke \/ Answer \/ UNCHANGED vars
  BY <1>1, RevokeIs, AnswerIs DEF PublisherGoes
<1>2. CASE Interrupt(FALSE) \/ Interrupt(TRUE)
  BY <1>2, InterruptIs DEF PublisherGoes
<1>3. CASE Submit
  BY <1>3, SubmitGoes, WritingGoes DEF PublisherGoes
<1>4. CASE RespStep
  <2>1. CASE ~resp.doomed /\ CancelStep(Resp)
    <3>1. CancelGoes(Resp)
      BY <2>1, CancelStepIs, PublisherConstants
    <3>2. CASE Kill(Resp) /\ cur # 0
      BY <3>2, KillGoes, PublisherConstants DEF PublisherGoes, Dead, Became
    <3> QED
      BY <3>1, <3>2, PublisherConstants DEF CancelGoes, PublisherGoes
  <2>2. CASE Open \/ Geometry \/ Launched \/ Orphaned \/ Ready
    BY <2>2, OpenIs, GeometryIs, LaunchedIs, OrphanedIs, ReadyIs, StagingGoes DEF PublisherGoes
  <2>3. CASE Drained \/ Ended \/ Quits \/ Doomed
    BY <2>3, DrainedIs, EndedIs, QuitsIs, DoomedIs, CountingGoes DEF PublisherGoes
  <2> QED
    BY <1>4, <2>1, <2>2, <2>3 DEF RespStep
<1>5. CASE CtlStep
  <2>1. CASE CancelStep(Ctl)
    <3>1. CancelGoes(Ctl)
      BY <2>1, CancelStepIs, PublisherConstants
    <3>2. CASE Kill(Ctl) /\ cur # 0
      BY <3>2, KillGoes, PublisherConstants DEF PublisherGoes, Dead, Became
    <3> QED
      BY <3>1, <3>2, PublisherConstants DEF CancelGoes, PublisherGoes
  <2> QED
    BY <1>5, <2>1, CancelsIs, GatheredIs DEF CtlStep, PublisherGoes
<1>6. ASSUME NEW n \in Start, Spawn(n) \/ ChildStep(n) \/ ReaderStep(n) PROVE PublisherGoes
  BY <1>6, SpawnGoes, ChildGoes, ReadsIs DEF PublisherGoes, ChildStep
<1> QED
  BY <1>1, <1>2, <1>3, <1>4, <1>5, <1>6 DEF Next

\* What the parts of the invariant read of a state that is as it was.
LEMMA KeptIs ==
  ASSUME StKept
  PROVE  /\ st' \in [Start -> StartedState]
         /\ \A n \in Start : st'[n].opening = st[n].opening /\ st'[n].child = st[n].child
         /\ \A n \in Start : st'[n].dir = st[n].dir /\ st'[n].key = st[n].key
              /\ st'[n].final = st[n].final
         /\ \A n \in Start : /\ st'[n].wrote = st[n].wrote /\ st'[n].sent = st[n].sent
                             /\ st'[n].heard = st[n].heard
  BY DEF StKept, Alike, LooksLike

LEMMA ButIs ==
  ASSUME NEW n, StBut(n)
  PROVE  /\ st' \in [Start -> StartedState]
         /\ \A m \in Start : m # n =>
              /\ st'[m].opening = st[m].opening /\ st'[m].child = st[m].child
              /\ st'[m].dir = st[m].dir /\ st'[m].key = st[m].key /\ st'[m].final = st[m].final
              /\ st'[m].wrote = st[m].wrote /\ st'[m].sent = st[m].sent
                   /\ st'[m].heard = st[m].heard
  BY DEF StBut, LooksLike

\* The state of the response, and the numbers of it.
LEMMA OwnIs ==
  ASSUME PublisherIInv
  PROVE  /\ cur # 0 => cur \in Start
         /\ pc[Resp] \in Owning => cur = mine /\ mine \in Start
         /\ \A n \in Start : st[n].wrote \in Nat /\ st[n].sent \in Nat /\ st[n].heard \in Nat
         /\ \A n \in Start : st[n].final \in BOOLEAN
<1>1. cur # 0 => cur \in Start
  BY PublisherConstants DEF PublisherIInv, PublisherShapes, Start
<1>2. pc[Resp] \in Owning => cur = mine /\ mine \in Start
  BY <1>1 DEF PublisherIInv, ChildIsReached
<1>3. \A n \in Start : st[n] \in StartedState
  BY DEF PublisherIInv, PublisherShapes
<1>4. \A n \in Start : /\ st[n].wrote \in 0..MaxPackets /\ st[n].sent \in 0..MaxPackets
                       /\ st[n].heard \in 0..MaxPackets /\ st[n].final \in BOOLEAN
  BY <1>3, StartedFields
<1> QED
  BY <1>1, <1>2, <1>4

\* The response has been given its state.
LEMMA BegunIs ==
  ASSUME PublisherShapes, ReturningFirst
  PROVE  /\ cur' \in Start /\ st' \in [Start -> StartedState]
         /\ st'[cur'].opening = "none" /\ st'[cur'].child = "none" /\ st'[cur'].key = resp.epoch
         /\ st'[cur'].final = FALSE /\ st'[cur'].wrote = 0 /\ st'[cur'].sent = 0
              /\ st'[cur'].heard = 0
         /\ \A n \in Start : n # cur' =>
              /\ st'[n].child \notin Alive /\ st'[n].opening # "pending" /\ st'[n].dir = FALSE
              /\ st'[n].child # "none" => st'[n].opening = "done"
              /\ st'[n].heard <= st'[n].wrote /\ st'[n].sent <= st'[n].wrote
              /\ st'[n].wrote <= st[n].wrote /\ st'[n].sent <= st[n].sent
<1>1. PICK s : /\ LeavesNothing(s)
               /\ st' = [s EXCEPT ![used'] = [Fresh EXCEPT !.key = resp.epoch, !.dir = TRUE]]
  BY DEF ReturningFirst
<1>2. cur' \in Start /\ cur' = used'
  BY PublisherConstants DEF ReturningFirst, PublisherShapes, Start
<1>3. PICK r : r = [Fresh EXCEPT !.key = resp.epoch, !.dir = TRUE]
  OBVIOUS
<1>4. /\ r \in StartedState /\ r.opening = "none" /\ r.child = "none" /\ r.key = resp.epoch
           /\ r.final = FALSE
      /\ r.wrote = 0 /\ r.sent = 0 /\ r.heard = 0
  <2>1. resp.epoch \in Nat /\ <<>> \in Seq(EventKinds) /\ 0 \in 0..MaxPackets
    BY PublisherConstants DEF PublisherShapes
  <2> QED
    BY <1>3, <2>1 DEF Fresh, StartedState
<1>5. st' = [s EXCEPT ![cur'] = r]
  BY <1>1, <1>2, <1>3
<1>6. s \in [Start -> StartedState]
  BY <1>1 DEF LeavesNothing
<1>7. st' \in [Start -> StartedState] /\ st'[cur'] = r /\ \A n \in Start : n # cur' => st'[n] = s[n]
  BY <1>2, <1>4, <1>5, <1>6
<1> QED
  BY <1>1, <1>2, <1>4, <1>7 DEF LeavesNothing

\* Every step keeps every part of the invariant: one lemma per part, one step per outcome.
LEMMA PublisherShapesKept == PublisherIInv /\ PublisherGoes => PublisherShapes'
<1> SUFFICES ASSUME PublisherIInv, PublisherGoes PROVE PublisherShapes'
  OBVIOUS
<1>0. /\ cur # 0 => cur \in Start
      /\ pc[Resp] \in Owning => cur = mine /\ mine \in Start
  BY OwnIs
<1>n. /\ \A n \in Start : st[n].wrote \in Nat /\ st[n].sent \in Nat /\ st[n].heard \in Nat
      /\ \A n \in Start : st[n].final \in BOOLEAN
  BY OwnIs
<1> USE DEF PublisherIInv
<1>1. ASSUME Connect PROVE PublisherShapes'
  BY <1>1, <1>0, PublisherConstants DEF Connect, Load, callVars, PublisherShapes, RespKind,
    InRetire, Owning, Speaking, RespPlaces, CtlPlaces
<1>2. ASSUME Revoking PROVE PublisherShapes'
  BY <1>2, <1>0, KeptIs, PublisherConstants DEF Revoking, callVars, PublisherShapes, RespKind,
    InRetire, Owning, Speaking, RespPlaces, CtlPlaces
<1>3. ASSUME Answering PROVE PublisherShapes'
  BY <1>3, <1>0, PublisherConstants DEF Answering, flagVars, PublisherShapes, RespKind, InRetire,
    Owning, Speaking, RespPlaces, CtlPlaces
<1>4. ASSUME NEW last \in BOOLEAN, Moving(last) PROVE PublisherShapes'
  <2>1. epoch \in Nat /\ MaxInterrupts \in Nat /\ epoch <= MaxInterrupts
    BY <1>4, PublisherConstants DEF Moving, PublisherShapes, FenceTells
  <2>2. epoch + 1 \in 0..MaxInterrupts + 1
    BY <2>1
  <2>3. st' \in [Start -> StartedState] /\ resp \in RespKind
    BY <1>4, KeptIs, RespIs DEF Moving
  <2>4. /\ pc' \in [Caller -> RespPlaces \cup CtlPlaces] /\ pc'[Resp] = pc[Resp]
             /\ pc'[Ctl] \in CtlPlaces
        /\ resp' \in RespKind
    BY <1>4, <2>3, PlacesAre DEF Moving, CtlAt
  <2>5. /\ epoch' = epoch + 1 /\ closing' \in BOOLEAN /\ cancelled' = TRUE
        /\ UNCHANGED <<config, blocked, cur, used, lock, cut, faults>>
    BY <1>4 DEF Moving
  <2> QED
    BY <2>2, <2>3, <2>4, <2>5 DEF PublisherShapes, RespKind
<1>5. ASSUME Dooming PROVE PublisherShapes'
  BY <1>5, <1>0, PublisherConstants DEF Dooming, flagVars, CtlAt, PublisherShapes, RespKind,
    InRetire, Owning, Speaking, RespPlaces, CtlPlaces
<1>6. ASSUME Gathering PROVE PublisherShapes'
  BY <1>6, <1>0, KeptIs, PublisherConstants DEF Gathering, CtlAt, PublisherShapes, RespKind,
    InRetire, Owning, Speaking, RespPlaces, CtlPlaces
<1>7. ASSUME Opening PROVE PublisherShapes'
  BY <1>7, <1>0, KeptIs, PublisherConstants DEF Opening, Still, RespAt, PublisherShapes, RespKind,
    InRetire, Owning, Speaking, RespPlaces, CtlPlaces
<1>8. ASSUME Leaving PROVE PublisherShapes'
  BY <1>8, <1>0, KeptIs, PublisherConstants DEF Leaving, Still, RespAt, PublisherShapes, RespKind,
    InRetire, Owning, Speaking, RespPlaces, CtlPlaces
<1>9. ASSUME Idling PROVE PublisherShapes'
  BY <1>9, <1>0, KeptIs, PublisherConstants DEF Idling, Still, RespAt, NoResp, PublisherShapes,
    RespKind, InRetire, Owning, Speaking, RespPlaces, CtlPlaces
<1>10. ASSUME Orphaning PROVE PublisherShapes'
  BY <1>10, <1>0, PublisherConstants DEF Orphaning, Still, RespAt, PublisherShapes, RespKind,
    InRetire, Owning, Speaking, RespPlaces, CtlPlaces
<1>11. ASSUME Staged PROVE PublisherShapes'
  BY <1>11, <1>0, ButIs, PublisherConstants DEF Staged, Still, RespAt, Became, PublisherShapes,
    RespKind, InRetire, Owning, Speaking, RespPlaces, CtlPlaces
<1>12. ASSUME Readying PROVE PublisherShapes'
  BY <1>12, <1>0, KeptIs, PublisherConstants DEF Readying, Still, RespAt, PublisherShapes,
    RespKind, InRetire, Owning, Speaking, RespPlaces, CtlPlaces
<1>13. ASSUME Admitting PROVE PublisherShapes'
  BY <1>13, <1>0, PublisherConstants DEF Admitting, Still, RespAt, PublisherShapes, RespKind,
    InRetire, Owning, Speaking, RespPlaces, CtlPlaces
<1>14. ASSUME Quitting PROVE PublisherShapes'
  BY <1>14, <1>0, PublisherConstants DEF Quitting, Still, RespAt, Stale, PublisherShapes,
    RespKind, InRetire, Owning, Speaking, RespPlaces, CtlPlaces
<1>15. ASSUME Written PROVE PublisherShapes'
  BY <1>15, <1>0, ButIs, PublisherConstants DEF Written, Still, RespAt, Became, PublisherShapes,
    RespKind, InRetire, Owning, Speaking, RespPlaces, CtlPlaces
<1>16. ASSUME Counted PROVE PublisherShapes'
  BY <1>16, <1>0, ButIs, PublisherConstants DEF Counted, Still, RespAt, Became, PublisherShapes,
    RespKind, InRetire, Owning, Speaking, RespPlaces, CtlPlaces
<1>17. ASSUME ReturningActor PROVE PublisherShapes'
  BY <1>17, <1>0, PublisherConstants DEF ReturningActor, Parting, CtlAt, LeavesNothing,
    PublisherShapes, RespKind, InRetire, Owning, Speaking, RespPlaces, CtlPlaces
<1>18. ASSUME ReturningLast PROVE PublisherShapes'
  BY <1>18, <1>0, PublisherConstants DEF ReturningLast, Parting, RespAt, NoResp, LeavesNothing,
    PublisherShapes, RespKind, InRetire, Owning, Speaking, RespPlaces, CtlPlaces
<1>19. ASSUME ReturningFirst PROVE PublisherShapes'
  BY <1>19, <1>0, BegunIs, PublisherConstants DEF ReturningFirst, Parting, RespAt,
    PublisherShapes, RespKind, InRetire, Owning, Speaking, RespPlaces, CtlPlaces
<1>20. ASSUME Locking(Resp) PROVE PublisherShapes'
  BY <1>20, <1>0, PublisherConstants DEF Locking, flagVars, At, RespAt, PublisherShapes, RespKind,
    InRetire, Owning, Speaking, RespPlaces, CtlPlaces
<1>21. ASSUME Telling(Resp) PROVE PublisherShapes'
  BY <1>21, <1>0, KeptIs, PublisherConstants DEF Telling, At, RespAt, PublisherShapes, RespKind,
    InRetire, Owning, Speaking, RespPlaces, CtlPlaces
<1>22. ASSUME Awaiting(Resp) PROVE PublisherShapes'
  BY <1>22, <1>0, PublisherConstants DEF Awaiting, flagVars, At, RespAt, PublisherShapes,
    RespKind, InRetire, Owning, Speaking, RespPlaces, CtlPlaces
<1>23. ASSUME Failing(Resp) PROVE PublisherShapes'
  BY <1>23, <1>0, PublisherConstants DEF Failing, flagVars, At, RespAt, NoResp, PublisherShapes,
    RespKind, InRetire, Owning, Speaking, RespPlaces, CtlPlaces
<1>24. ASSUME Locking(Ctl) PROVE PublisherShapes'
  BY <1>24, <1>0, PublisherConstants DEF Locking, flagVars, At, CtlAt, PublisherShapes, RespKind,
    InRetire, Owning, Speaking, RespPlaces, CtlPlaces
<1>25. ASSUME Telling(Ctl) PROVE PublisherShapes'
  BY <1>25, <1>0, KeptIs, PublisherConstants DEF Telling, At, CtlAt, PublisherShapes, RespKind,
    InRetire, Owning, Speaking, RespPlaces, CtlPlaces
<1>26. ASSUME Awaiting(Ctl) PROVE PublisherShapes'
  BY <1>26, <1>0, PublisherConstants DEF Awaiting, flagVars, At, CtlAt, PublisherShapes, RespKind,
    InRetire, Owning, Speaking, RespPlaces, CtlPlaces
<1>27. ASSUME Failing(Ctl) PROVE PublisherShapes'
  BY <1>27, <1>0, PublisherConstants DEF Failing, flagVars, At, CtlAt, NoResp, PublisherShapes,
    RespKind, InRetire, Owning, Speaking, RespPlaces, CtlPlaces
<1>28. ASSUME NEW n \in Start, Created(n) PROVE PublisherShapes'
  BY <1>28, <1>0, ButIs, PublisherConstants DEF Created, Alone, Became, flagVars, callVars,
    PublisherShapes, RespKind, InRetire, Owning, Speaking, RespPlaces, CtlPlaces
<1>29. ASSUME NEW n \in Start, NotCreated(n) PROVE PublisherShapes'
  BY <1>29, <1>0, ButIs, PublisherConstants DEF NotCreated, Alone, Became, flagVars, callVars,
    PublisherShapes, RespKind, InRetire, Owning, Speaking, RespPlaces, CtlPlaces
<1>30. ASSUME NEW n \in Start, Showing(n) PROVE PublisherShapes'
  BY <1>30, <1>0, ButIs, PublisherConstants DEF Showing, Alone, Became, flagVars, callVars,
    PublisherShapes, RespKind, InRetire, Owning, Speaking, RespPlaces, CtlPlaces
<1>31. ASSUME NEW n \in Start, Played(n) PROVE PublisherShapes'
  BY <1>31, <1>0, ButIs, PublisherConstants DEF Played, Alone, Became, flagVars, callVars,
    PublisherShapes, RespKind, InRetire, Owning, Speaking, RespPlaces, CtlPlaces
<1>32. ASSUME NEW n \in Start, Dead(n) PROVE PublisherShapes'
  BY <1>32, <1>0, ButIs, PublisherConstants DEF Dead, Alone, Became, flagVars, callVars,
    PublisherShapes, RespKind, InRetire, Owning, Speaking, RespPlaces, CtlPlaces
<1>33. ASSUME Reading PROVE PublisherShapes'
  BY <1>33, <1>0, KeptIs, PublisherConstants DEF Reading, flagVars, callVars, PublisherShapes,
    RespKind, InRetire, Owning, Speaking, RespPlaces, CtlPlaces
<1>34. ASSUME UNCHANGED vars PROVE PublisherShapes'
  BY <1>34, <1>0, PublisherConstants DEF vars, flagVars, callVars, PublisherShapes, RespKind,
    InRetire, Owning, Speaking, RespPlaces, CtlPlaces
<1> QED
  BY <1>1, <1>2, <1>3, <1>4, <1>5, <1>6, <1>7, <1>8, <1>9, <1>10, <1>11, <1>12, <1>13, <1>14,
    <1>15, <1>16, <1>17, <1>18, <1>19, <1>20, <1>21, <1>22, <1>23, <1>24, <1>25, <1>26, <1>27,
    <1>28, <1>29, <1>30, <1>31, <1>32, <1>33, <1>34 DEF PublisherGoes

LEMMA OneRetiresKept == PublisherIInv /\ PublisherGoes => OneRetires'
<1> SUFFICES ASSUME PublisherIInv, PublisherGoes PROVE OneRetires'
  OBVIOUS
<1>0. /\ cur # 0 => cur \in Start
      /\ pc[Resp] \in Owning => cur = mine /\ mine \in Start
  BY OwnIs
<1>n. /\ \A n \in Start : st[n].wrote \in Nat /\ st[n].sent \in Nat /\ st[n].heard \in Nat
      /\ \A n \in Start : st[n].final \in BOOLEAN
  BY OwnIs
<1> USE DEF PublisherIInv
<1>1. ASSUME Connect PROVE OneRetires'
  BY <1>1, <1>0, PublisherConstants DEF Connect, Load, callVars, OneRetires, InRetire, Owning,
    Speaking, Caller, Start
<1>2. ASSUME Revoking PROVE OneRetires'
  BY <1>2, <1>0, KeptIs, PublisherConstants DEF Revoking, callVars, OneRetires, InRetire, Owning,
    Speaking, Caller, Start
<1>3. ASSUME Answering PROVE OneRetires'
  BY <1>3, <1>0, PublisherConstants DEF Answering, flagVars, OneRetires, InRetire, Owning,
    Speaking, Caller, Start
<1>4. ASSUME NEW last \in BOOLEAN, Moving(last) PROVE OneRetires'
  BY <1>4, <1>0, KeptIs, PublisherConstants DEF Moving, CtlAt, OneRetires, InRetire, Owning,
    Speaking, Caller, Start
<1>5. ASSUME Dooming PROVE OneRetires'
  BY <1>5, <1>0, PublisherConstants DEF Dooming, flagVars, CtlAt, OneRetires, InRetire, Owning,
    Speaking, Caller, Start
<1>6. ASSUME Gathering PROVE OneRetires'
  BY <1>6, <1>0, KeptIs, PublisherConstants DEF Gathering, CtlAt, OneRetires, InRetire, Owning,
    Speaking, Caller, Start
<1>7. ASSUME Opening PROVE OneRetires'
  BY <1>7, <1>0, KeptIs, PublisherConstants DEF Opening, Still, RespAt, OneRetires, InRetire,
    Owning, Speaking, Caller, Start
<1>8. ASSUME Leaving PROVE OneRetires'
  BY <1>8, <1>0, KeptIs, PublisherConstants DEF Leaving, Still, RespAt, OneRetires, InRetire,
    Owning, Speaking, Caller, Start
<1>9. ASSUME Idling PROVE OneRetires'
  BY <1>9, <1>0, KeptIs, PublisherConstants DEF Idling, Still, RespAt, NoResp, OneRetires,
    InRetire, Owning, Speaking, Caller, Start
<1>10. ASSUME Orphaning PROVE OneRetires'
  BY <1>10, <1>0, PublisherConstants DEF Orphaning, Still, RespAt, OneRetires, InRetire, Owning,
    Speaking, Caller, Start
<1>11. ASSUME Staged PROVE OneRetires'
  BY <1>11, <1>0, ButIs, PublisherConstants DEF Staged, Still, RespAt, Became, OneRetires,
    InRetire, Owning, Speaking, Caller, Start
<1>12. ASSUME Readying PROVE OneRetires'
  BY <1>12, <1>0, KeptIs, PublisherConstants DEF Readying, Still, RespAt, OneRetires, InRetire,
    Owning, Speaking, Caller, Start
<1>13. ASSUME Admitting PROVE OneRetires'
  BY <1>13, <1>0, PublisherConstants DEF Admitting, Still, RespAt, OneRetires, InRetire, Owning,
    Speaking, Caller, Start
<1>14. ASSUME Quitting PROVE OneRetires'
  BY <1>14, <1>0, PublisherConstants DEF Quitting, Still, RespAt, Stale, OneRetires, InRetire,
    Owning, Speaking, Caller, Start
<1>15. ASSUME Written PROVE OneRetires'
  BY <1>15, <1>0, ButIs, PublisherConstants DEF Written, Still, RespAt, Became, OneRetires,
    InRetire, Owning, Speaking, Caller, Start
<1>16. ASSUME Counted PROVE OneRetires'
  BY <1>16, <1>0, ButIs, PublisherConstants DEF Counted, Still, RespAt, Became, OneRetires,
    InRetire, Owning, Speaking, Caller, Start
<1>17. ASSUME ReturningActor PROVE OneRetires'
  BY <1>17, <1>0, PublisherConstants DEF ReturningActor, Parting, CtlAt, LeavesNothing,
    OneRetires, InRetire, Owning, Speaking, Caller, Start
<1>18. ASSUME ReturningLast PROVE OneRetires'
  BY <1>18, <1>0, PublisherConstants DEF ReturningLast, Parting, RespAt, NoResp, LeavesNothing,
    OneRetires, InRetire, Owning, Speaking, Caller, Start
<1>19. ASSUME ReturningFirst PROVE OneRetires'
  BY <1>19, <1>0, BegunIs, PublisherConstants DEF ReturningFirst, Parting, RespAt, OneRetires,
    InRetire, Owning, Speaking, Caller, Start
<1>20. ASSUME Locking(Resp) PROVE OneRetires'
  BY <1>20, <1>0, PublisherConstants DEF Locking, flagVars, At, RespAt, OneRetires, InRetire,
    Owning, Speaking, Caller, Start
<1>21. ASSUME Telling(Resp) PROVE OneRetires'
  BY <1>21, <1>0, KeptIs, PublisherConstants DEF Telling, At, RespAt, OneRetires, InRetire,
    Owning, Speaking, Caller, Start
<1>22. ASSUME Awaiting(Resp) PROVE OneRetires'
  BY <1>22, <1>0, PublisherConstants DEF Awaiting, flagVars, At, RespAt, OneRetires, InRetire,
    Owning, Speaking, Caller, Start
<1>23. ASSUME Failing(Resp) PROVE OneRetires'
  BY <1>23, <1>0, PublisherConstants DEF Failing, flagVars, At, RespAt, NoResp, OneRetires,
    InRetire, Owning, Speaking, Caller, Start
<1>24. ASSUME Locking(Ctl) PROVE OneRetires'
  BY <1>24, <1>0, PublisherConstants DEF Locking, flagVars, At, CtlAt, OneRetires, InRetire,
    Owning, Speaking, Caller, Start
<1>25. ASSUME Telling(Ctl) PROVE OneRetires'
  BY <1>25, <1>0, KeptIs, PublisherConstants DEF Telling, At, CtlAt, OneRetires, InRetire, Owning,
    Speaking, Caller, Start
<1>26. ASSUME Awaiting(Ctl) PROVE OneRetires'
  BY <1>26, <1>0, PublisherConstants DEF Awaiting, flagVars, At, CtlAt, OneRetires, InRetire,
    Owning, Speaking, Caller, Start
<1>27. ASSUME Failing(Ctl) PROVE OneRetires'
  BY <1>27, <1>0, PublisherConstants DEF Failing, flagVars, At, CtlAt, NoResp, OneRetires,
    InRetire, Owning, Speaking, Caller, Start
<1>28. ASSUME NEW n \in Start, Created(n) PROVE OneRetires'
  BY <1>28, <1>0, ButIs, PublisherConstants DEF Created, Alone, Became, flagVars, callVars,
    OneRetires, InRetire, Owning, Speaking, Caller, Start
<1>29. ASSUME NEW n \in Start, NotCreated(n) PROVE OneRetires'
  BY <1>29, <1>0, ButIs, PublisherConstants DEF NotCreated, Alone, Became, flagVars, callVars,
    OneRetires, InRetire, Owning, Speaking, Caller, Start
<1>30. ASSUME NEW n \in Start, Showing(n) PROVE OneRetires'
  BY <1>30, <1>0, ButIs, PublisherConstants DEF Showing, Alone, Became, flagVars, callVars,
    OneRetires, InRetire, Owning, Speaking, Caller, Start
<1>31. ASSUME NEW n \in Start, Played(n) PROVE OneRetires'
  BY <1>31, <1>0, ButIs, PublisherConstants DEF Played, Alone, Became, flagVars, callVars,
    OneRetires, InRetire, Owning, Speaking, Caller, Start
<1>32. ASSUME NEW n \in Start, Dead(n) PROVE OneRetires'
  BY <1>32, <1>0, ButIs, PublisherConstants DEF Dead, Alone, Became, flagVars, callVars,
    OneRetires, InRetire, Owning, Speaking, Caller, Start
<1>33. ASSUME Reading PROVE OneRetires'
  BY <1>33, <1>0, KeptIs, PublisherConstants DEF Reading, flagVars, callVars, OneRetires,
    InRetire, Owning, Speaking, Caller, Start
<1>34. ASSUME UNCHANGED vars PROVE OneRetires'
  BY <1>34, <1>0, PublisherConstants DEF vars, flagVars, callVars, OneRetires, InRetire, Owning,
    Speaking, Caller, Start
<1> QED
  BY <1>1, <1>2, <1>3, <1>4, <1>5, <1>6, <1>7, <1>8, <1>9, <1>10, <1>11, <1>12, <1>13, <1>14,
    <1>15, <1>16, <1>17, <1>18, <1>19, <1>20, <1>21, <1>22, <1>23, <1>24, <1>25, <1>26, <1>27,
    <1>28, <1>29, <1>30, <1>31, <1>32, <1>33, <1>34 DEF PublisherGoes

LEMMA ChildIsReachedKept == PublisherIInv /\ PublisherGoes => ChildIsReached'
<1> SUFFICES ASSUME PublisherIInv, PublisherGoes PROVE ChildIsReached'
  OBVIOUS
<1>0. /\ cur # 0 => cur \in Start
      /\ pc[Resp] \in Owning => cur = mine /\ mine \in Start
  BY OwnIs
<1>n. /\ \A n \in Start : st[n].wrote \in Nat /\ st[n].sent \in Nat /\ st[n].heard \in Nat
      /\ \A n \in Start : st[n].final \in BOOLEAN
  BY OwnIs
<1> USE DEF PublisherIInv
<1>1. ASSUME Connect PROVE ChildIsReached'
  BY <1>1, <1>0, PublisherConstants DEF Connect, Load, callVars, ChildIsReached, Before, AtCancel,
    InRetire, Owning, Speaking, Alive, mine
<1>2. ASSUME Revoking PROVE ChildIsReached'
  BY <1>2, <1>0, KeptIs, PublisherConstants DEF Revoking, callVars, ChildIsReached, Before,
    AtCancel, InRetire, Owning, Speaking, Alive, mine
<1>3. ASSUME Answering PROVE ChildIsReached'
  BY <1>3, <1>0, PublisherConstants DEF Answering, flagVars, ChildIsReached, Before, AtCancel,
    InRetire, Owning, Speaking, Alive, mine
<1>4. ASSUME NEW last \in BOOLEAN, Moving(last) PROVE ChildIsReached'
  <2>1. /\ pc'[Resp] = pc[Resp] /\ resp'.after = resp.after /\ mine' = mine /\ StKept
        /\ pc'[Ctl] # "left" /\ UNCHANGED <<cur, used>>
    BY <1>4 DEF Moving, CtlAt, mine
  <2>2. Before' => Before
    BY <2>1 DEF Before, AtCancel
  <2> QED
    BY <1>0, <2>1, <2>2, KeptIs DEF ChildIsReached, Owning, Speaking, Alive
<1>5. ASSUME Dooming PROVE ChildIsReached'
  BY <1>5, <1>0, PublisherConstants DEF Dooming, flagVars, CtlAt, ChildIsReached, Before,
    AtCancel, InRetire, Owning, Speaking, Alive, mine
<1>6. ASSUME Gathering PROVE ChildIsReached'
  BY <1>6, <1>0, KeptIs, PublisherConstants DEF Gathering, CtlAt, ChildIsReached, Before,
    AtCancel, InRetire, Owning, Speaking, Alive, mine
<1>7. ASSUME Opening PROVE ChildIsReached'
  BY <1>7, <1>0, KeptIs, PublisherConstants DEF Opening, Still, RespAt, ChildIsReached, Before,
    AtCancel, InRetire, Owning, Speaking, Alive, mine
<1>8. ASSUME Leaving PROVE ChildIsReached'
  BY <1>8, <1>0, KeptIs, PublisherConstants DEF Leaving, Still, RespAt, ChildIsReached, Before,
    AtCancel, InRetire, Owning, Speaking, Alive, mine
<1>9. ASSUME Idling PROVE ChildIsReached'
  BY <1>9, <1>0, KeptIs, PublisherConstants DEF Idling, Still, RespAt, NoResp, ChildIsReached,
    Before, AtCancel, InRetire, Owning, Speaking, Alive, mine
<1>10. ASSUME Orphaning PROVE ChildIsReached'
  BY <1>10, <1>0, PublisherConstants DEF Orphaning, Still, RespAt, ChildIsReached, Before,
    AtCancel, InRetire, Owning, Speaking, Alive, mine
<1>11. ASSUME Staged PROVE ChildIsReached'
  BY <1>11, <1>0, ButIs, PublisherConstants DEF Staged, Still, RespAt, Became, ChildIsReached,
    Before, AtCancel, InRetire, Owning, Speaking, Alive, mine
<1>12. ASSUME Readying PROVE ChildIsReached'
  BY <1>12, <1>0, KeptIs, PublisherConstants DEF Readying, Still, RespAt, ChildIsReached, Before,
    AtCancel, InRetire, Owning, Speaking, Alive, mine
<1>13. ASSUME Admitting PROVE ChildIsReached'
  BY <1>13, <1>0, PublisherConstants DEF Admitting, Still, RespAt, ChildIsReached, Before,
    AtCancel, InRetire, Owning, Speaking, Alive, mine
<1>14. ASSUME Quitting PROVE ChildIsReached'
  BY <1>14, <1>0, PublisherConstants DEF Quitting, Still, RespAt, Stale, ChildIsReached, Before,
    AtCancel, InRetire, Owning, Speaking, Alive, mine
<1>15. ASSUME Written PROVE ChildIsReached'
  BY <1>15, <1>0, ButIs, PublisherConstants DEF Written, Still, RespAt, Became, ChildIsReached,
    Before, AtCancel, InRetire, Owning, Speaking, Alive, mine
<1>16. ASSUME Counted PROVE ChildIsReached'
  BY <1>16, <1>0, ButIs, PublisherConstants DEF Counted, Still, RespAt, Became, ChildIsReached,
    Before, AtCancel, InRetire, Owning, Speaking, Alive, mine
<1>17. ASSUME ReturningActor PROVE ChildIsReached'
  <2>1. pc[Resp] = "idle"
    BY <1>17 DEF OneRetires, InRetire, ReturningActor
  <2>2. "idle" \notin Owning
    BY DEF Owning, Speaking
  <2> QED
    BY <1>17, <2>1, <2>2
    DEF ReturningActor, Parting, CtlAt, LeavesNothing, ChildIsReached, Before, AtCancel, InRetire
<1>18. ASSUME ReturningLast PROVE ChildIsReached'
  BY <1>18, <1>0, PublisherConstants DEF ReturningLast, Parting, RespAt, NoResp, LeavesNothing,
    ChildIsReached, Before, AtCancel, InRetire, Owning, Speaking, Alive, mine
<1>19. ASSUME ReturningFirst PROVE ChildIsReached'
  <2>1. /\ cur' \in Start /\ cur' = mine' /\ cur' # 0 /\ st'[cur'].opening = "none"
             /\ st'[cur'].child = "none"
    <3>1. cur' \in Start /\ st'[cur'].opening = "none" /\ st'[cur'].child = "none"
      BY <1>19, BegunIs
    <3>2. cur' = used' /\ resp'.mine = used'
      BY <1>19 DEF ReturningFirst
    <3>3. 0 \notin Start
      BY PublisherConstants DEF Start
    <3> QED
      BY <3>1, <3>2, <3>3 DEF mine
  <2>2. \A n \in Start : n # cur' =>
          /\ st'[n].child \notin Alive /\ st'[n].opening # "pending" /\ st'[n].dir = FALSE
          /\ st'[n].child # "none" => st'[n].opening = "done"
    BY <1>19, BegunIs
  <2>3. pc'[Resp] = "geometry" /\ pc'[Ctl] = pc[Ctl] /\ pc[Ctl] # "left"
    BY <1>19 DEF ReturningFirst, RespAt, OneRetires, InRetire
  <2> QED
    BY <2>1, <2>2, <2>3 DEF ChildIsReached, Before, AtCancel, InRetire
<1>20. ASSUME Locking(Resp) PROVE ChildIsReached'
  BY <1>20, <1>0, PublisherConstants DEF Locking, flagVars, At, RespAt, ChildIsReached, Before,
    AtCancel, InRetire, Owning, Speaking, Alive, mine
<1>21. ASSUME Telling(Resp) PROVE ChildIsReached'
  BY <1>21, <1>0, KeptIs, PublisherConstants DEF Telling, At, RespAt, ChildIsReached, Before,
    AtCancel, InRetire, Owning, Speaking, Alive, mine
<1>22. ASSUME Awaiting(Resp) PROVE ChildIsReached'
  BY <1>22, <1>0, PublisherConstants DEF Awaiting, flagVars, At, RespAt, ChildIsReached, Before,
    AtCancel, InRetire, Owning, Speaking, Alive, mine
<1>23. ASSUME Failing(Resp) PROVE ChildIsReached'
  BY <1>23, <1>0, PublisherConstants DEF Failing, flagVars, At, RespAt, NoResp, ChildIsReached,
    Before, AtCancel, InRetire, Owning, Speaking, Alive, mine
<1>24. ASSUME Locking(Ctl) PROVE ChildIsReached'
  BY <1>24, <1>0, PublisherConstants DEF Locking, flagVars, At, CtlAt, ChildIsReached, Before,
    AtCancel, InRetire, Owning, Speaking, Alive, mine
<1>25. ASSUME Telling(Ctl) PROVE ChildIsReached'
  BY <1>25, <1>0, KeptIs, PublisherConstants DEF Telling, At, CtlAt, ChildIsReached, Before,
    AtCancel, InRetire, Owning, Speaking, Alive, mine
<1>26. ASSUME Awaiting(Ctl) PROVE ChildIsReached'
  BY <1>26, <1>0, PublisherConstants DEF Awaiting, flagVars, At, CtlAt, ChildIsReached, Before,
    AtCancel, InRetire, Owning, Speaking, Alive, mine
<1>27. ASSUME Failing(Ctl) PROVE ChildIsReached'
  BY <1>27, <1>0, PublisherConstants DEF Failing, flagVars, At, CtlAt, NoResp, ChildIsReached,
    Before, AtCancel, InRetire, Owning, Speaking, Alive, mine
<1>28. ASSUME NEW n \in Start, Created(n) PROVE ChildIsReached'
  BY <1>28, <1>0, ButIs, PublisherConstants DEF Created, Alone, Became, flagVars, callVars,
    ChildIsReached, Before, AtCancel, InRetire, Owning, Speaking, Alive, mine
<1>29. ASSUME NEW n \in Start, NotCreated(n) PROVE ChildIsReached'
  BY <1>29, <1>0, ButIs, PublisherConstants DEF NotCreated, Alone, Became, flagVars, callVars,
    ChildIsReached, Before, AtCancel, InRetire, Owning, Speaking, Alive, mine
<1>30. ASSUME NEW n \in Start, Showing(n) PROVE ChildIsReached'
  BY <1>30, <1>0, ButIs, PublisherConstants DEF Showing, Alone, Became, flagVars, callVars,
    ChildIsReached, Before, AtCancel, InRetire, Owning, Speaking, Alive, mine
<1>31. ASSUME NEW n \in Start, Played(n) PROVE ChildIsReached'
  BY <1>31, <1>0, ButIs, PublisherConstants DEF Played, Alone, Became, flagVars, callVars,
    ChildIsReached, Before, AtCancel, InRetire, Owning, Speaking, Alive, mine
<1>32. ASSUME NEW n \in Start, Dead(n) PROVE ChildIsReached'
  BY <1>32, <1>0, ButIs, PublisherConstants DEF Dead, Alone, Became, flagVars, callVars,
    ChildIsReached, Before, AtCancel, InRetire, Owning, Speaking, Alive, mine
<1>33. ASSUME Reading PROVE ChildIsReached'
  BY <1>33, <1>0, KeptIs, PublisherConstants DEF Reading, flagVars, callVars, ChildIsReached,
    Before, AtCancel, InRetire, Owning, Speaking, Alive, mine
<1>34. ASSUME UNCHANGED vars PROVE ChildIsReached'
  BY <1>34, <1>0, PublisherConstants DEF vars, flagVars, callVars, ChildIsReached, Before,
    AtCancel, InRetire, Owning, Speaking, Alive, mine
<1> QED
  BY <1>1, <1>2, <1>3, <1>4, <1>5, <1>6, <1>7, <1>8, <1>9, <1>10, <1>11, <1>12, <1>13, <1>14,
    <1>15, <1>16, <1>17, <1>18, <1>19, <1>20, <1>21, <1>22, <1>23, <1>24, <1>25, <1>26, <1>27,
    <1>28, <1>29, <1>30, <1>31, <1>32, <1>33, <1>34 DEF PublisherGoes

LEMMA FenceTellsKept == PublisherIInv /\ PublisherGoes => FenceTells'
<1> SUFFICES ASSUME PublisherIInv, PublisherGoes PROVE FenceTells'
  OBVIOUS
<1>0. /\ cur # 0 => cur \in Start
      /\ pc[Resp] \in Owning => cur = mine /\ mine \in Start
  BY OwnIs
<1>n. /\ \A n \in Start : st[n].wrote \in Nat /\ st[n].sent \in Nat /\ st[n].heard \in Nat
      /\ \A n \in Start : st[n].final \in BOOLEAN
  BY OwnIs
<1> USE DEF PublisherIInv
<1>1. ASSUME Connect PROVE FenceTells'
  BY <1>1, <1>0, PublisherConstants DEF Connect, Load, callVars, PublisherShapes, FenceTells,
    Before, AtCancel, Owning, Speaking, InRetire, mine, RespKind
<1>2. ASSUME Revoking PROVE FenceTells'
  BY <1>2, <1>0, KeptIs, PublisherConstants DEF Revoking, callVars, PublisherShapes, FenceTells,
    Before, AtCancel, Owning, Speaking, InRetire, mine, RespKind
<1>3. ASSUME Answering PROVE FenceTells'
  BY <1>3, <1>0, PublisherConstants DEF Answering, flagVars, PublisherShapes, FenceTells, Before,
    AtCancel, Owning, Speaking, InRetire, mine, RespKind
<1>4. ASSUME NEW last \in BOOLEAN, Moving(last) PROVE FenceTells'
  BY <1>4, <1>0, KeptIs, PublisherConstants DEF Moving, CtlAt, PublisherShapes, FenceTells,
    Before, AtCancel, Owning, Speaking, InRetire, mine, RespKind
<1>5. ASSUME Dooming PROVE FenceTells'
  BY <1>5, <1>0, PublisherConstants DEF Dooming, flagVars, CtlAt, PublisherShapes, FenceTells,
    Before, AtCancel, Owning, Speaking, InRetire, mine, RespKind
<1>6. ASSUME Gathering PROVE FenceTells'
  BY <1>6, <1>0, KeptIs, PublisherConstants DEF Gathering, CtlAt, PublisherShapes, FenceTells,
    Before, AtCancel, Owning, Speaking, InRetire, mine, RespKind
<1>7. ASSUME Opening PROVE FenceTells'
  BY <1>7, <1>0, KeptIs, PublisherConstants DEF Opening, Still, RespAt, PublisherShapes,
    FenceTells, Before, AtCancel, Owning, Speaking, InRetire, mine, RespKind
<1>8. ASSUME Leaving PROVE FenceTells'
  BY <1>8, <1>0, KeptIs, PublisherConstants DEF Leaving, Still, RespAt, PublisherShapes,
    FenceTells, Before, AtCancel, Owning, Speaking, InRetire, mine, RespKind
<1>9. ASSUME Idling PROVE FenceTells'
  BY <1>9, <1>0, KeptIs, PublisherConstants DEF Idling, Still, RespAt, NoResp, PublisherShapes,
    FenceTells, Before, AtCancel, Owning, Speaking, InRetire, mine, RespKind
<1>10. ASSUME Orphaning PROVE FenceTells'
  BY <1>10, <1>0, PublisherConstants DEF Orphaning, Still, RespAt, PublisherShapes, FenceTells,
    Before, AtCancel, Owning, Speaking, InRetire, mine, RespKind
<1>11. ASSUME Staged PROVE FenceTells'
  BY <1>11, <1>0, ButIs, PublisherConstants DEF Staged, Still, RespAt, Became, PublisherShapes,
    FenceTells, Before, AtCancel, Owning, Speaking, InRetire, mine, RespKind
<1>12. ASSUME Readying PROVE FenceTells'
  BY <1>12, <1>0, KeptIs, PublisherConstants DEF Readying, Still, RespAt, PublisherShapes,
    FenceTells, Before, AtCancel, Owning, Speaking, InRetire, mine, RespKind
<1>13. ASSUME Admitting PROVE FenceTells'
  BY <1>13, <1>0, PublisherConstants DEF Admitting, Still, RespAt, PublisherShapes, FenceTells,
    Before, AtCancel, Owning, Speaking, InRetire, mine, RespKind
<1>14. ASSUME Quitting PROVE FenceTells'
  BY <1>14, <1>0, PublisherConstants DEF Quitting, Still, RespAt, Stale, PublisherShapes,
    FenceTells, Before, AtCancel, Owning, Speaking, InRetire, mine, RespKind
<1>15. ASSUME Written PROVE FenceTells'
  BY <1>15, <1>0, ButIs, PublisherConstants DEF Written, Still, RespAt, Became, PublisherShapes,
    FenceTells, Before, AtCancel, Owning, Speaking, InRetire, mine, RespKind
<1>16. ASSUME Counted PROVE FenceTells'
  BY <1>16, <1>0, ButIs, PublisherConstants DEF Counted, Still, RespAt, Became, PublisherShapes,
    FenceTells, Before, AtCancel, Owning, Speaking, InRetire, mine, RespKind
<1>17. ASSUME ReturningActor PROVE FenceTells'
  BY <1>17, <1>0, PublisherConstants DEF ReturningActor, Parting, CtlAt, LeavesNothing,
    PublisherShapes, FenceTells, Before, AtCancel, Owning, Speaking, InRetire, mine, RespKind
<1>18. ASSUME ReturningLast PROVE FenceTells'
  BY <1>18, <1>0, PublisherConstants DEF ReturningLast, Parting, RespAt, NoResp, LeavesNothing,
    PublisherShapes, FenceTells, Before, AtCancel, Owning, Speaking, InRetire, mine, RespKind
<1>19. ASSUME ReturningFirst PROVE FenceTells'
  BY <1>19, <1>0, BegunIs, PublisherConstants DEF ReturningFirst, Parting, RespAt,
    PublisherShapes, FenceTells, Before, AtCancel, Owning, Speaking, InRetire, mine, RespKind
<1>20. ASSUME Locking(Resp) PROVE FenceTells'
  BY <1>20, <1>0, PublisherConstants DEF Locking, flagVars, At, RespAt, PublisherShapes,
    FenceTells, Before, AtCancel, Owning, Speaking, InRetire, mine, RespKind
<1>21. ASSUME Telling(Resp) PROVE FenceTells'
  BY <1>21, <1>0, KeptIs, PublisherConstants DEF Telling, At, RespAt, PublisherShapes, FenceTells,
    Before, AtCancel, Owning, Speaking, InRetire, mine, RespKind
<1>22. ASSUME Awaiting(Resp) PROVE FenceTells'
  BY <1>22, <1>0, PublisherConstants DEF Awaiting, flagVars, At, RespAt, PublisherShapes,
    FenceTells, Before, AtCancel, Owning, Speaking, InRetire, mine, RespKind
<1>23. ASSUME Failing(Resp) PROVE FenceTells'
  BY <1>23, <1>0, PublisherConstants DEF Failing, flagVars, At, RespAt, NoResp, PublisherShapes,
    FenceTells, Before, AtCancel, Owning, Speaking, InRetire, mine, RespKind
<1>24. ASSUME Locking(Ctl) PROVE FenceTells'
  BY <1>24, <1>0, PublisherConstants DEF Locking, flagVars, At, CtlAt, PublisherShapes,
    FenceTells, Before, AtCancel, Owning, Speaking, InRetire, mine, RespKind
<1>25. ASSUME Telling(Ctl) PROVE FenceTells'
  <2>1. pc[Resp] = "idle" /\ pc'[Resp] = "idle"
    BY <1>25, PublisherConstants DEF Telling, At, CtlAt, OneRetires, InRetire
  <2>2. UNCHANGED <<epoch, blocked, closing, cut, resp>> /\ cancelled' = TRUE
    BY <1>25 DEF Telling
  <2> QED
    BY <2>1, <2>2 DEF FenceTells, Before, AtCancel, InRetire, Owning, Speaking
<1>26. ASSUME Awaiting(Ctl) PROVE FenceTells'
  BY <1>26, <1>0, PublisherConstants DEF Awaiting, flagVars, At, CtlAt, PublisherShapes,
    FenceTells, Before, AtCancel, Owning, Speaking, InRetire, mine, RespKind
<1>27. ASSUME Failing(Ctl) PROVE FenceTells'
  BY <1>27, <1>0, PublisherConstants DEF Failing, flagVars, At, CtlAt, NoResp, PublisherShapes,
    FenceTells, Before, AtCancel, Owning, Speaking, InRetire, mine, RespKind
<1>28. ASSUME NEW n \in Start, Created(n) PROVE FenceTells'
  BY <1>28, <1>0, ButIs, PublisherConstants DEF Created, Alone, Became, flagVars, callVars,
    PublisherShapes, FenceTells, Before, AtCancel, Owning, Speaking, InRetire, mine, RespKind
<1>29. ASSUME NEW n \in Start, NotCreated(n) PROVE FenceTells'
  BY <1>29, <1>0, ButIs, PublisherConstants DEF NotCreated, Alone, Became, flagVars, callVars,
    PublisherShapes, FenceTells, Before, AtCancel, Owning, Speaking, InRetire, mine, RespKind
<1>30. ASSUME NEW n \in Start, Showing(n) PROVE FenceTells'
  BY <1>30, <1>0, ButIs, PublisherConstants DEF Showing, Alone, Became, flagVars, callVars,
    PublisherShapes, FenceTells, Before, AtCancel, Owning, Speaking, InRetire, mine, RespKind
<1>31. ASSUME NEW n \in Start, Played(n) PROVE FenceTells'
  BY <1>31, <1>0, ButIs, PublisherConstants DEF Played, Alone, Became, flagVars, callVars,
    PublisherShapes, FenceTells, Before, AtCancel, Owning, Speaking, InRetire, mine, RespKind
<1>32. ASSUME NEW n \in Start, Dead(n) PROVE FenceTells'
  BY <1>32, <1>0, ButIs, PublisherConstants DEF Dead, Alone, Became, flagVars, callVars,
    PublisherShapes, FenceTells, Before, AtCancel, Owning, Speaking, InRetire, mine, RespKind
<1>33. ASSUME Reading PROVE FenceTells'
  BY <1>33, <1>0, KeptIs, PublisherConstants DEF Reading, flagVars, callVars, PublisherShapes,
    FenceTells, Before, AtCancel, Owning, Speaking, InRetire, mine, RespKind
<1>34. ASSUME UNCHANGED vars PROVE FenceTells'
  BY <1>34, <1>0, PublisherConstants DEF vars, flagVars, callVars, PublisherShapes, FenceTells,
    Before, AtCancel, Owning, Speaking, InRetire, mine, RespKind
<1> QED
  BY <1>1, <1>2, <1>3, <1>4, <1>5, <1>6, <1>7, <1>8, <1>9, <1>10, <1>11, <1>12, <1>13, <1>14,
    <1>15, <1>16, <1>17, <1>18, <1>19, <1>20, <1>21, <1>22, <1>23, <1>24, <1>25, <1>26, <1>27,
    <1>28, <1>29, <1>30, <1>31, <1>32, <1>33, <1>34 DEF PublisherGoes

LEMMA PacketsAreCountedKept == PublisherIInv /\ PublisherGoes => PacketsAreCounted'
<1> SUFFICES ASSUME PublisherIInv, PublisherGoes PROVE PacketsAreCounted'
  OBVIOUS
<1>0. /\ cur # 0 => cur \in Start
      /\ pc[Resp] \in Owning => cur = mine /\ mine \in Start
  BY OwnIs
<1>n. /\ \A n \in Start : st[n].wrote \in Nat /\ st[n].sent \in Nat /\ st[n].heard \in Nat
      /\ \A n \in Start : st[n].final \in BOOLEAN
  BY OwnIs
<1> USE DEF PublisherIInv
<1>1. ASSUME Connect PROVE PacketsAreCounted'
  BY <1>1, <1>0, <1>n, PublisherConstants DEF Connect, Load, callVars, PacketsAreCounted,
    ChildIsReached, Owning, Speaking, InRetire, mine
<1>2. ASSUME Revoking PROVE PacketsAreCounted'
  BY <1>2, <1>0, <1>n, KeptIs, PublisherConstants DEF Revoking, callVars, PacketsAreCounted,
    ChildIsReached, Owning, Speaking, InRetire, mine
<1>3. ASSUME Answering PROVE PacketsAreCounted'
  BY <1>3, <1>0, <1>n, PublisherConstants DEF Answering, flagVars, PacketsAreCounted,
    ChildIsReached, Owning, Speaking, InRetire, mine
<1>4. ASSUME NEW last \in BOOLEAN, Moving(last) PROVE PacketsAreCounted'
  <2>1. pc'[Resp] = pc[Resp] /\ resp'.epoch = resp.epoch /\ mine' = mine /\ StKept
    BY <1>4 DEF Moving, CtlAt, mine
  <2> QED
    BY <1>0, <2>1, KeptIs DEF PacketsAreCounted, Owning, Speaking
<1>5. ASSUME Dooming PROVE PacketsAreCounted'
  BY <1>5, <1>0, <1>n, PublisherConstants DEF Dooming, flagVars, CtlAt, PacketsAreCounted,
    ChildIsReached, Owning, Speaking, InRetire, mine
<1>6. ASSUME Gathering PROVE PacketsAreCounted'
  BY <1>6, <1>0, <1>n, KeptIs, PublisherConstants DEF Gathering, CtlAt, PacketsAreCounted,
    ChildIsReached, Owning, Speaking, InRetire, mine
<1>7. ASSUME Opening PROVE PacketsAreCounted'
  BY <1>7, <1>0, <1>n, KeptIs, PublisherConstants DEF Opening, Still, RespAt, PacketsAreCounted,
    ChildIsReached, Owning, Speaking, InRetire, mine
<1>8. ASSUME Leaving PROVE PacketsAreCounted'
  BY <1>8, <1>0, <1>n, KeptIs, PublisherConstants DEF Leaving, Still, RespAt, PacketsAreCounted,
    ChildIsReached, Owning, Speaking, InRetire, mine
<1>9. ASSUME Idling PROVE PacketsAreCounted'
  BY <1>9, <1>0, <1>n, KeptIs, PublisherConstants DEF Idling, Still, RespAt, NoResp,
    PacketsAreCounted, ChildIsReached, Owning, Speaking, InRetire, mine
<1>10. ASSUME Orphaning PROVE PacketsAreCounted'
  BY <1>10, <1>0, <1>n, PublisherConstants DEF Orphaning, Still, RespAt, PacketsAreCounted,
    ChildIsReached, Owning, Speaking, InRetire, mine
<1>11. ASSUME Staged PROVE PacketsAreCounted'
  BY <1>11, <1>0, <1>n, ButIs, PublisherConstants DEF Staged, Still, RespAt, Became,
    PacketsAreCounted, ChildIsReached, Owning, Speaking, InRetire, mine
<1>12. ASSUME Readying PROVE PacketsAreCounted'
  BY <1>12, <1>0, <1>n, KeptIs, PublisherConstants DEF Readying, Still, RespAt, PacketsAreCounted,
    ChildIsReached, Owning, Speaking, InRetire, mine
<1>13. ASSUME Admitting PROVE PacketsAreCounted'
  BY <1>13, <1>0, <1>n, PublisherConstants DEF Admitting, Still, RespAt, PacketsAreCounted,
    ChildIsReached, Owning, Speaking, InRetire, mine
<1>14. ASSUME Quitting PROVE PacketsAreCounted'
  BY <1>14, <1>0, <1>n, PublisherConstants DEF Quitting, Still, RespAt, Stale, PacketsAreCounted,
    ChildIsReached, Owning, Speaking, InRetire, mine
<1>15. ASSUME Written PROVE PacketsAreCounted'
  <2>1. PICK last \in BOOLEAN :
          /\ ~last => st[mine].wrote + 1 < MaxPackets
          /\ Became(mine, st[mine].opening, st[mine].child, st[mine].wrote + 1, st[mine].sent,
               st[mine].heard, last)
    BY <1>15 DEF Written
  <2>2. pc[Resp] = "submit" /\ pc'[Resp] = "drain" /\ UNCHANGED <<resp, mine>>
    BY <1>15 DEF Written, RespAt, mine
  <2>3. mine \in Start /\ st[mine].key = resp.epoch
    BY <1>0, <2>2 DEF PacketsAreCounted, Owning, Speaking
  <2>4. /\ st'[mine].wrote = st[mine].wrote + 1 /\ st'[mine].sent = st[mine].sent
        /\ st'[mine].heard = st[mine].heard /\ st'[mine].final = last /\ st'[mine].key = resp.epoch
        /\ \A m \in Start : m # mine => st'[m].wrote = st[m].wrote /\ st'[m].sent = st[m].sent
                                       /\ st'[m].heard = st[m].heard
    BY <2>1, <2>3, ButIs DEF Became
  <2>5. \A m \in Start : st'[m].heard <= st'[m].wrote /\ st'[m].sent <= st'[m].wrote
    BY <1>n, <2>3, <2>4 DEF PacketsAreCounted
  <2>6. st'[mine].sent < st'[mine].wrote /\ (~last => st'[mine].wrote < MaxPackets)
    BY <1>n, <2>1, <2>3, <2>4 DEF PacketsAreCounted
  <2> QED
    BY <2>2, <2>4, <2>5, <2>6 DEF PacketsAreCounted
<1>16. ASSUME Counted PROVE PacketsAreCounted'
  BY <1>16, <1>0, <1>n, ButIs, PublisherConstants DEF Counted, Still, RespAt, Became,
    PacketsAreCounted, ChildIsReached, Owning, Speaking, InRetire, mine
<1>17. ASSUME ReturningActor PROVE PacketsAreCounted'
  <2>1. pc[Resp] = "idle"
    BY <1>17 DEF OneRetires, InRetire, ReturningActor
  <2>2. "idle" \notin Owning
    BY DEF Owning, Speaking
  <2> QED
    BY <1>17, <2>1, <2>2 DEF ReturningActor, Parting, CtlAt, LeavesNothing, PacketsAreCounted
<1>18. ASSUME ReturningLast PROVE PacketsAreCounted'
  BY <1>18, <1>0, <1>n, PublisherConstants DEF ReturningLast, Parting, RespAt, NoResp,
    LeavesNothing, PacketsAreCounted, ChildIsReached, Owning, Speaking, InRetire, mine
<1>19. ASSUME ReturningFirst PROVE PacketsAreCounted'
  <2>1. /\ cur' \in Start /\ cur' = mine' /\ st'[cur'].key = resp.epoch /\ st'[cur'].final = FALSE
        /\ st'[cur'].wrote = 0 /\ st'[cur'].sent = 0 /\ st'[cur'].heard = 0
    BY <1>19, BegunIs DEF ReturningFirst, mine
  <2>2. \A n \in Start : n # cur' => st'[n].heard <= st'[n].wrote /\ st'[n].sent <= st'[n].wrote
    BY <1>19, BegunIs
  <2>3. pc'[Resp] = "geometry" /\ resp'.epoch = resp.epoch
    BY <1>19 DEF ReturningFirst, RespAt
  <2> QED
    BY <2>1, <2>2, <2>3, PublisherConstants DEF PacketsAreCounted
<1>20. ASSUME Locking(Resp) PROVE PacketsAreCounted'
  BY <1>20, <1>0, <1>n, PublisherConstants DEF Locking, flagVars, At, RespAt, PacketsAreCounted,
    ChildIsReached, Owning, Speaking, InRetire, mine
<1>21. ASSUME Telling(Resp) PROVE PacketsAreCounted'
  BY <1>21, <1>0, <1>n, KeptIs, PublisherConstants DEF Telling, At, RespAt, PacketsAreCounted,
    ChildIsReached, Owning, Speaking, InRetire, mine
<1>22. ASSUME Awaiting(Resp) PROVE PacketsAreCounted'
  BY <1>22, <1>0, <1>n, PublisherConstants DEF Awaiting, flagVars, At, RespAt, PacketsAreCounted,
    ChildIsReached, Owning, Speaking, InRetire, mine
<1>23. ASSUME Failing(Resp) PROVE PacketsAreCounted'
  BY <1>23, <1>0, <1>n, PublisherConstants DEF Failing, flagVars, At, RespAt, NoResp,
    PacketsAreCounted, ChildIsReached, Owning, Speaking, InRetire, mine
<1>24. ASSUME Locking(Ctl) PROVE PacketsAreCounted'
  BY <1>24, <1>0, <1>n, PublisherConstants DEF Locking, flagVars, At, CtlAt, PacketsAreCounted,
    ChildIsReached, Owning, Speaking, InRetire, mine
<1>25. ASSUME Telling(Ctl) PROVE PacketsAreCounted'
  BY <1>25, <1>0, <1>n, KeptIs, PublisherConstants DEF Telling, At, CtlAt, PacketsAreCounted,
    ChildIsReached, Owning, Speaking, InRetire, mine
<1>26. ASSUME Awaiting(Ctl) PROVE PacketsAreCounted'
  BY <1>26, <1>0, <1>n, PublisherConstants DEF Awaiting, flagVars, At, CtlAt, PacketsAreCounted,
    ChildIsReached, Owning, Speaking, InRetire, mine
<1>27. ASSUME Failing(Ctl) PROVE PacketsAreCounted'
  BY <1>27, <1>0, <1>n, PublisherConstants DEF Failing, flagVars, At, CtlAt, NoResp,
    PacketsAreCounted, ChildIsReached, Owning, Speaking, InRetire, mine
<1>28. ASSUME NEW n \in Start, Created(n) PROVE PacketsAreCounted'
  BY <1>28, <1>0, <1>n, ButIs, PublisherConstants DEF Created, Alone, Became, flagVars, callVars,
    PacketsAreCounted, ChildIsReached, Owning, Speaking, InRetire, mine
<1>29. ASSUME NEW n \in Start, NotCreated(n) PROVE PacketsAreCounted'
  BY <1>29, <1>0, <1>n, ButIs, PublisherConstants DEF NotCreated, Alone, Became, flagVars,
    callVars, PacketsAreCounted, ChildIsReached, Owning, Speaking, InRetire, mine
<1>30. ASSUME NEW n \in Start, Showing(n) PROVE PacketsAreCounted'
  <2>1. /\ n \in Start /\ st'[n].wrote = st[n].wrote /\ st'[n].sent = st[n].sent
             /\ st'[n].heard = st[n].heard
        /\ st'[n].final = st[n].final /\ st'[n].key = st[n].key /\ UNCHANGED <<pc, resp>>
        /\ StBut(n)
    BY <1>30 DEF Showing, Alone, Became, callVars
  <2>2. \A m \in Start : /\ st'[m].wrote = st[m].wrote /\ st'[m].sent = st[m].sent
                         /\ st'[m].final = st[m].final /\ st'[m].key = st[m].key
                         /\ st'[m].heard = st[m].heard \/ (m = n /\ st'[m].heard <= st[m].wrote)
    BY <1>n, <2>1, ButIs
  <2>3. UNCHANGED <<pc, mine, resp>>
    BY <2>1 DEF mine
  <2> QED
    BY <1>0, <1>n, <2>2, <2>3 DEF PacketsAreCounted, Owning, Speaking
<1>31. ASSUME NEW n \in Start, Played(n) PROVE PacketsAreCounted'
  <2>1. /\ n \in Start /\ st'[n].wrote = st[n].wrote /\ st'[n].sent = st[n].sent
             /\ st'[n].heard = st[n].heard + 1
        /\ st'[n].final = st[n].final /\ st'[n].key = st[n].key /\ UNCHANGED <<pc, resp>>
        /\ StBut(n) /\ st[n].heard < st[n].wrote
    BY <1>31 DEF Played, Alone, Became, callVars
  <2>2. \A m \in Start : /\ st'[m].wrote = st[m].wrote /\ st'[m].sent = st[m].sent
                         /\ st'[m].final = st[m].final /\ st'[m].key = st[m].key
                         /\ st'[m].heard = st[m].heard \/ (m = n /\ st'[m].heard <= st[m].wrote)
    BY <1>n, <2>1, ButIs
  <2>3. UNCHANGED <<pc, mine, resp>>
    BY <2>1 DEF mine
  <2> QED
    BY <1>0, <1>n, <2>2, <2>3 DEF PacketsAreCounted, Owning, Speaking
<1>32. ASSUME NEW n \in Start, Dead(n) PROVE PacketsAreCounted'
  BY <1>32, <1>0, <1>n, ButIs, PublisherConstants DEF Dead, Alone, Became, flagVars, callVars,
    PacketsAreCounted, ChildIsReached, Owning, Speaking, InRetire, mine
<1>33. ASSUME Reading PROVE PacketsAreCounted'
  BY <1>33, <1>0, <1>n, KeptIs, PublisherConstants DEF Reading, flagVars, callVars,
    PacketsAreCounted, ChildIsReached, Owning, Speaking, InRetire, mine
<1>34. ASSUME UNCHANGED vars PROVE PacketsAreCounted'
  BY <1>34, <1>0, <1>n, PublisherConstants DEF vars, flagVars, callVars, PacketsAreCounted,
    ChildIsReached, Owning, Speaking, InRetire, mine
<1> QED
  BY <1>1, <1>2, <1>3, <1>4, <1>5, <1>6, <1>7, <1>8, <1>9, <1>10, <1>11, <1>12, <1>13, <1>14,
    <1>15, <1>16, <1>17, <1>18, <1>19, <1>20, <1>21, <1>22, <1>23, <1>24, <1>25, <1>26, <1>27,
    <1>28, <1>29, <1>30, <1>31, <1>32, <1>33, <1>34 DEF PublisherGoes

\* The initial states satisfy the invariant.
LEMMA PublisherBegins == Init => PublisherIInv
<1> SUFFICES ASSUME Init PROVE PublisherIInv
  OBVIOUS
<1>1. PICK f : f = Fresh
  OBVIOUS
<1>2. /\ f \in StartedState /\ f.child = "none" /\ f.opening = "none" /\ f.dir = FALSE
      /\ f.heard = 0 /\ f.wrote = 0 /\ f.sent = 0
  BY <1>1, FreshIsStarted DEF Fresh
<1>3. st \in [Start -> StartedState] /\ \A n \in Start : st[n] = f
  BY <1>1, <1>2 DEF Init
<1>4. pc[Resp] = "idle" /\ pc[Ctl] = "idle"
  BY PublisherConstants DEF Init
<1>5. PublisherShapes
  <2>1. "idle" \in RespPlaces /\ "idle" \in CtlPlaces /\ "idle" \in RespPlaces \cup CtlPlaces
    BY PlacesAre
  <2>2. pc \in [Caller -> RespPlaces \cup CtlPlaces]
    BY <2>1 DEF Init
  <2>3. resp \in [epoch : Nat, mine : 0..MaxStarts, after : {"begin", "end"}, doomed : BOOLEAN]
    BY PublisherConstants DEF Init, NoResp
  <2>5. epoch \in 0..MaxInterrupts + 1 /\ cur \in 0..MaxStarts /\ used \in 0..MaxStarts
          /\ faults \in 0..MaxFaults
    BY PublisherConstants DEF Init
  <2>4. /\ config \in {"none", "ok", "refused"}
             /\ {blocked, cancelled, closing, cut} \subseteq BOOLEAN
        /\ lock \in Caller \cup {Free}
    BY DEF Init
  <2> QED
    BY <1>3, <1>4, <2>1, <2>2, <2>3, <2>4, <2>5 DEF PublisherShapes
<1>6. OneRetires
  BY <1>4, PublisherConstants DEF Init, OneRetires, InRetire, Caller
<1>7. ChildIsReached
  BY <1>2, <1>3, <1>4 DEF Init, ChildIsReached, Before, AtCancel, InRetire, Owning, Speaking, Alive
<1>8. FenceTells
  BY <1>4, PublisherConstants DEF Init, FenceTells, NoResp, Before, AtCancel, InRetire, Owning,
    Speaking
<1>9. PacketsAreCounted
  BY <1>2, <1>3, <1>4 DEF PacketsAreCounted, Owning, Speaking
<1> QED
  BY <1>5, <1>6, <1>7, <1>8, <1>9 DEF PublisherIInv

\* So does every step.
LEMMA PublisherSteps == PublisherIInv /\ [Next]_vars => PublisherIInv'
<1> SUFFICES ASSUME PublisherIInv, [Next]_vars PROVE PublisherIInv'
  OBVIOUS
<1>1. PublisherGoes
  BY PublisherNext
<1> QED
  BY <1>1, PublisherShapesKept, OneRetiresKept, ChildIsReachedKept, FenceTellsKept,
    PacketsAreCountedKept
  DEF PublisherIInv

\* A packet is written or counted in a state whose answer is the one of the epoch.
LEMMA PacketsOfTheEpoch ==
  ASSUME PublisherIInv, [Next]_vars, NEW n \in Start,
    st'[n].wrote + st'[n].sent > st[n].wrote + st[n].sent
  PROVE  st[n].key = epoch /\ ~blocked
<1> USE DEF PublisherIInv
<1>0. PublisherGoes
  BY PublisherNext
<1>1. /\ st[n].wrote \in Nat /\ st[n].sent \in Nat /\ st[n].heard \in Nat
      /\ pc[Resp] \in Owning => cur = mine /\ mine \in Start
  BY OwnIs
<1>2. st'[n].wrote = st[n].wrote /\ st'[n].sent = st[n].sent => FALSE
  BY <1>1
<1>3. ASSUME StKept PROVE FALSE
  BY <1>2, <1>3, KeptIs
<1>4. ASSUME UNCHANGED st PROVE FALSE
  BY <1>2, <1>4
<1>5. \A m \in Start : st'[m].wrote \in Nat /\ st'[m].sent \in Nat
  <2>1. PublisherShapes'
    BY <1>0, PublisherShapesKept
  <2>2. \A m \in Start : st'[m] \in StartedState
    BY <2>1 DEF PublisherShapes
  <2> QED
    BY <2>2, StartedFields
<1>6. ASSUME st'[n].wrote <= st[n].wrote, st'[n].sent <= st[n].sent PROVE FALSE
  BY <1>1, <1>5, <1>6
<1>7. ASSUME LeavesNothing(st') PROVE FALSE
  BY <1>6, <1>7 DEF LeavesNothing
<1>8. ASSUME ReturningFirst PROVE FALSE
  <2>1. CASE n = cur'
    <3>1. st'[n].wrote = 0 /\ st'[n].sent = 0
      BY <1>8, <2>1, BegunIs
    <3> QED
      BY <1>1, <1>6, <3>1
  <2>2. CASE n # cur'
    BY <1>6, <1>8, <2>2, BegunIs
  <2> QED
    BY <2>1, <2>2
<1>9. ASSUME NEW m \in Start, Created(m) \/ NotCreated(m) \/ Showing(m) \/ Played(m) \/ Dead(m)
      PROVE FALSE
  <2>1. StBut(m) /\ st'[m].wrote = st[m].wrote /\ st'[m].sent = st[m].sent
    BY <1>9 DEF Created, NotCreated, Showing, Played, Dead, Became
  <2> QED
    BY <1>2, <2>1, ButIs
<1>10. ASSUME Written \/ Counted PROVE st[n].key = epoch /\ ~blocked
  <2>1. pc[Resp] \in Owning /\ ~cancelled /\ StBut(mine)
    BY <1>10 DEF Written, Counted, Became, Owning, Speaking
  <2>2. n = mine
    BY <1>2, <2>1, ButIs
  <2>3. ~blocked /\ resp.epoch = epoch
    BY <1>10, <2>1 DEF FenceTells, Written, Counted
  <2> QED
    BY <2>1, <2>2, <2>3 DEF PacketsAreCounted
<1>11. Connect \/ Answering \/ Dooming \/ Orphaning \/ Admitting \/ Quitting
         \/ UNCHANGED vars => UNCHANGED st
  BY DEF Connect, Answering, Dooming, Orphaning, Admitting, Quitting, vars
<1>12. /\ Revoking \/ Gathering \/ Opening \/ Leaving \/ Idling \/ Readying \/ Reading => StKept
       /\ \A last \in BOOLEAN : Moving(last) => StKept
  BY DEF Revoking, Gathering, Opening, Leaving, Idling, Readying, Reading, Moving
<1>13. \A c : (Locking(c) \/ Awaiting(c) \/ Failing(c) => UNCHANGED st) /\ (Telling(c) => StKept)
  BY DEF Locking, Awaiting, Failing, Telling
<1>14. ReturningActor \/ ReturningLast => LeavesNothing(st')
  BY DEF ReturningActor, ReturningLast
<1>15. CASE Connect \/ Answering \/ Dooming \/ Orphaning \/ Admitting \/ Quitting \/ UNCHANGED vars
  BY <1>4, <1>11, <1>15
<1>16. CASE Revoking \/ Gathering \/ Opening \/ Leaving \/ Idling \/ Readying \/ Reading
            \/ \E last \in BOOLEAN : Moving(last)
  BY <1>3, <1>12, <1>16
<1>17. CASE \/ Locking(Resp) \/ Telling(Resp) \/ Awaiting(Resp) \/ Failing(Resp)
            \/ Locking(Ctl) \/ Telling(Ctl) \/ Awaiting(Ctl) \/ Failing(Ctl)
  <2>1. StKept \/ UNCHANGED st
    BY <1>13, <1>17
  <2> QED
    BY <1>3, <1>4, <2>1
<1>18. CASE ReturningActor \/ ReturningLast \/ ReturningFirst
  BY <1>7, <1>8, <1>14, <1>18
<1>19. CASE \E m \in Start : Created(m) \/ NotCreated(m) \/ Showing(m) \/ Played(m) \/ Dead(m)
  <2>1. PICK m \in Start : Created(m) \/ NotCreated(m) \/ Showing(m) \/ Played(m) \/ Dead(m)
    BY <1>19
  <2> QED
    BY <1>9, <2>1
<1>20. CASE Staged
  <2>1. st'[mine].wrote = st[mine].wrote /\ st'[mine].sent = st[mine].sent /\ StBut(mine)
    BY <1>20 DEF Staged, Became
  <2> QED
    BY <1>2, <2>1, ButIs
<1> QED
  BY <1>0, <1>10, <1>15, <1>16, <1>17, <1>18, <1>19, <1>20 DEF PublisherGoes

\* And it implies the property.
LEMMA PublisherImplies == PublisherIInv => OneWholeAnswer
<1> SUFFICES ASSUME PublisherIInv PROVE OneWholeAnswer
  BY DEF OneWholeAnswer
<1>1. \A n \in Start : /\ st[n].opening \in {"none", "pending", "done", "failed"}
                       /\ st[n].reader \in {"none", "reading", "done", "cancelled"}
                       /\ st[n].wrote \in 0..MaxPackets
  <2> SUFFICES ASSUME NEW n \in Start
               PROVE  /\ st[n].opening \in {"none", "pending", "done", "failed"}
                      /\ st[n].reader \in {"none", "reading", "done", "cancelled"}
                      /\ st[n].wrote \in 0..MaxPackets
    OBVIOUS
  <2>1. st[n] \in StartedState
    BY DEF PublisherIInv, PublisherShapes
  <2> QED
    BY <2>1, StartedFields
<1>2. \A n \in Start : /\ st[n].opening \in {"none", "pending", "done", "failed"}
                       /\ st[n].reader \in {"none", "reading", "done", "cancelled"}
                       /\ st[n].wrote <= MaxPackets
  BY <1>1, PublisherConstants
<1>3. TypeOK
  BY <1>2 DEF PublisherIInv, PublisherShapes, OneRetires, PacketsAreCounted, InRetire, TypeOK
<1>4. OwnedChild
  BY DEF PublisherIInv, ChildIsReached, OwnedChild
<1>5. CompleteIsWhole
  BY DEF PublisherIInv, FenceTells, CompleteIsWhole
<1> QED
  BY <1>3, <1>4, <1>5 DEF OneWholeAnswer

\* Whatever the response, the actor and the worker interleave, wherever the response is cancelled,
\* and whichever call fails or worker hangs: what runs or is kept for an answer is reached from
\* self.state, nothing is left when an interrupt has done its part, and an answer is announced
\* as complete only when it was played whole, or its asset was revoked.
THEOREM AnswerSafe == Spec => []OneWholeAnswer
<1>1. PublisherIInv /\ [Next]_vars => PublisherIInv'
  BY PublisherSteps
<1> QED
  BY PublisherBegins, PublisherImplies, <1>1, PTL DEF Spec

\* Once the epoch has moved, or the asset is revoked, no packet is given to a worker or counted.
THEOREM FenceSafe == Spec => NothingAfterFence
<1>1. PublisherIInv /\ [Next]_vars => PublisherIInv'
  BY PublisherSteps
<1>2. PublisherIInv /\ [Next]_vars
      => [\A n \in Start : st'[n].wrote + st'[n].sent > st[n].wrote + st[n].sent
                            => st[n].key = epoch /\ ~blocked]_vars
  BY PacketsOfTheEpoch
<1> QED
  BY PublisherBegins, <1>1, <1>2, PTL DEF Spec, NothingAfterFence

-----------------------------------------------------------------------------
(* The raw publisher.                                                      *)

Pieces == {"idle", "unpublish", "begin", "raise", "audio", "video", "speak", "capture",
  "playout", "quit"}
CtlPieces == {"left", "idle", "gather", "unpublish", "again", "disconnect", "abandoned", "gone"}
RawAnswerRow ==
  [epoch : Nat, n : 0..RawStarts, sent : Nat, whole : BOOLEAN, after : {"idle", "begin", "raise"},
   doomed : BOOLEAN]

\* Every variable has its type: the flags and the source, where the callers stand, the response.
RawShapes ==
  /\ rawEpoch \in Nat /\ rawFlags \in [blocked : BOOLEAN, cancelled : BOOLEAN]
  /\ source \in [of : 0..RawStarts, queue : Nat] /\ late \in Nat
  /\ ending \in {"no", "first", "second"} /\ rawFaults \in Nat
RawPlaces ==
  /\ rawPc = [c \in RawCaller |-> rawPc[c]]
  /\ rawPc[RawResp] \in Pieces /\ rawPc[RawCtl] \in CtlPieces
RawResponse == answer \in RawAnswerRow

\* The tracks, and what is known of each answer.
RawTracks ==
  /\ listed \subseteq RawTrack /\ published \subseteq RawTrack /\ stray \subseteq RawTrack
  /\ todo \in [RawCaller -> SUBSET RawTrack] /\ played \in [RawAnswers -> Nat]
  /\ completed \subseteq [whole : BOOLEAN, heard : BOOLEAN]

\* While a response runs, the actor has not got past its wait for it; one that was
\* superseded is not the current one, and only such a response is cancelled.
RawOrder ==
  /\ answer.epoch <= rawEpoch
  /\ rawPc[RawResp] # "idle" => rawPc[RawCtl] \in {"idle", "gather"} /\ answer.n >= 1
  /\ rawPc[RawCtl] = "gather" => answer.epoch < rawEpoch
  /\ answer.doomed => rawPc[RawCtl] = "gather" /\ rawPc[RawResp] # "idle"

Streaming == rawPc[RawResp] \in {"audio", "video", "speak", "capture", "playout"}
Beginning == rawPc[RawResp] = "begin" \/ (rawPc[RawResp] = "unpublish" /\ answer.after = "begin")

\* What was captured of the current answer is played or queued, unless the asset is revoked.
RawAccount ==
  /\ source.of <= answer.n /\ (source.queue > 0 => source.of >= 1)
  /\ \A m \in RawAnswers : m > answer.n => played[m] = 0
  /\ Beginning => source.of < answer.n /\ played[answer.n] = 0
  /\ Beginning \/ rawPc[RawResp] \in {"audio", "video"} => answer.sent = 0
  /\ Streaming => source.of = answer.n
  /\ Streaming /\ answer.epoch = rawEpoch =>
       rawFlags.blocked \/ (~rawFlags.cancelled /\ played[answer.n] + source.queue = answer.sent)
  /\ rawPc[RawResp] = "quit" /\ answer.epoch = rawEpoch => rawFlags.blocked
  /\ rawPc[RawResp] = "playout" => answer.whole
  /\ \A end \in completed : (end.whole /\ end.heard) \/ rawFlags.blocked

\* A frame gets past a fence only as the last one of its answer.
RawLate == late <= 1 /\ (late = 1 => rawPc[RawResp] \in {"quit", "idle"})

\* Whoever is at its cancel() has every track that is not stray before it.
RawListed ==
  /\ published \subseteq listed \cup stray
  /\ \A c \in RawCaller : rawPc[c] = "unpublish" => published \subseteq todo[c] \cup stray
  /\ rawPc[RawCtl] \in {"left", "disconnect"} => published \subseteq stray /\ source = NoSource
  /\ rawPc[RawCtl] = "gone" => published = {} /\ source = NoSource

RawIInv ==
  RawShapes /\ RawPlaces /\ RawResponse /\ RawTracks /\ RawOrder /\ RawAccount /\ RawLate
    /\ RawListed

-----------------------------------------------------------------------------
LEMMA RawConstants == RawResp # RawCtl /\ RawStarts \in Nat
  BY RawAssumption

LEMMA RawFenceTyped ==
  ASSUME RawShapes, NEW p \in BOOLEAN, RawFence(p)
  PROVE /\ rawFlags' \in [blocked : BOOLEAN, cancelled : BOOLEAN]
        /\ source' \in [of : 0..RawStarts, queue : Nat] /\ late' \in Nat
<1>1. (rawFlags.blocked \/ p) \in BOOLEAN
  OBVIOUS
<1> QED
  BY <1>1 DEF RawFence, RawShapes

LEMMA RawFallsTyped ==
  ASSUME RawShapes, RawFalls
  PROVE /\ rawFlags' \in [blocked : BOOLEAN, cancelled : BOOLEAN]
        /\ source' \in [of : 0..RawStarts, queue : Nat] /\ late' \in Nat
<1>1. CASE answer.epoch = rawEpoch
  BY <1>1, RawFenceTyped DEF RawFalls, RawCancelOf
<1>2. CASE answer.epoch # rawEpoch
  BY <1>2 DEF RawFalls, RawShapes
<1> QED
  BY <1>1, <1>2

\* The initial states satisfy the invariant.
LEMMA RawBegins == RawInit => RawIInv
  BY RawConstants DEF RawInit, RawIInv, RawShapes, RawPlaces, RawResponse, RawTracks, RawOrder,
    RawAccount, RawLate, RawListed, Pieces, CtlPieces,
    RawAnswerRow, RawCaller, RawTrack, RawAnswers, NoSource, NoAnswer, Streaming, Beginning

\* Every step keeps every part of it: one lemma per part, one step per action.
LEMMA RawShapesKept == RawIInv /\ [RawNext]_rawVars => RawShapes'
<1> SUFFICES ASSUME RawIInv, [RawNext]_rawVars PROVE RawShapes'
  OBVIOUS
<1> USE RawConstants DEF RawIInv
<1>1. ASSUME RawAnswer PROVE RawShapes'
  BY <1>1 DEF RawAnswer, RawFence, NoAnswer, RawSteady, rawRoom, RawShapes, RawResponse,
    RawAnswerRow
<1>2. ASSUME RawBegin PROVE RawShapes'
  <2>1. answer.n \in 0..RawStarts
    BY DEF RawResponse, RawAnswerRow
  <2>2. ASSUME RawFalls PROVE RawShapes'
    BY <1>2, <2>2, RawFallsTyped DEF RawBegin, RawSteady, RawShapes
  <2>3. ASSUME rawFlags' = [rawFlags EXCEPT !.cancelled = FALSE], source' = [of |-> answer.n,
          queue |-> 0], late' = 0
        PROVE RawShapes'
    BY <1>2, <2>1, <2>3 DEF RawBegin, RawSteady, RawShapes
  <2> QED
    BY <1>2, <2>2, <2>3 DEF RawBegin
<1>3. ASSUME RawPublish("audio") PROVE RawShapes'
  <2>0. rawFaults' = rawFaults \/ rawFaults' = rawFaults + 1
    BY <1>3, Zenon DEF RawPublish, RawFault
  <2>1. RawSteady /\ rawFaults' \in Nat
    BY <1>3, <2>0 DEF RawPublish, RawShapes
  <2>2. ASSUME RawFalls PROVE RawShapes'
    BY <2>1, <2>2, RawFallsTyped DEF RawSteady, RawShapes
  <2>3. ASSUME RawFence(FALSE) PROVE RawShapes'
    BY <2>1, <2>3, RawFenceTyped DEF RawSteady, RawShapes
  <2>4. ASSUME UNCHANGED <<rawFlags, source, late>> PROVE RawShapes'
    BY <2>1, <2>4 DEF RawSteady, RawShapes
  <2> QED
    BY <1>3, <2>2, <2>3, <2>4 DEF RawPublish
<1>4. ASSUME RawPublish("video") PROVE RawShapes'
  <2>0. rawFaults' = rawFaults \/ rawFaults' = rawFaults + 1
    BY <1>4, Zenon DEF RawPublish, RawFault
  <2>1. RawSteady /\ rawFaults' \in Nat
    BY <1>4, <2>0 DEF RawPublish, RawShapes
  <2>2. ASSUME RawFalls PROVE RawShapes'
    BY <2>1, <2>2, RawFallsTyped DEF RawSteady, RawShapes
  <2>3. ASSUME RawFence(FALSE) PROVE RawShapes'
    BY <2>1, <2>3, RawFenceTyped DEF RawSteady, RawShapes
  <2>4. ASSUME UNCHANGED <<rawFlags, source, late>> PROVE RawShapes'
    BY <2>1, <2>4 DEF RawSteady, RawShapes
  <2> QED
    BY <1>4, <2>2, <2>3, <2>4 DEF RawPublish
<1>5. ASSUME RawSubmit PROVE RawShapes'
  BY <1>5 DEF RawSubmit, RawStale, RawTo, RawSteady, rawRoom, rawSound, RawShapes, RawResponse,
    RawAnswerRow
<1>6. ASSUME Capture PROVE RawShapes'
  BY <1>6, RawFallsTyped DEF Capture, RawFault, RawSteady, RawShapes
<1>7. ASSUME PlayedOut PROVE RawShapes'
  BY <1>7 DEF PlayedOut, Announced, RawStale, RawTo, RawSteady, rawRoom, rawSound, RawShapes,
    RawResponse, RawAnswerRow
<1>8. ASSUME RawQuits PROVE RawShapes'
  BY <1>8, RawFallsTyped DEF RawQuits, RawSteady, rawSound, RawShapes
<1>9. ASSUME RawDoomed PROVE RawShapes'
  BY <1>9 DEF RawDoomed, RawTo, RawSteady, rawRoom, RawShapes, RawResponse, RawAnswerRow
<1>10. ASSUME RoomPlays PROVE RawShapes'
  BY <1>10 DEF RoomPlays, rawRoom, rawFlow, RawShapes, RawResponse, RawAnswerRow
<1>11. ASSUME RawRaises PROVE RawShapes'
  BY <1>11, RawFallsTyped DEF RawRaises, RawSteady, RawShapes
<1>12. ASSUME RawInterrupt PROVE RawShapes'
  BY <1>12 DEF RawInterrupt, RawFence, RawTo, rawRoom, RawShapes, RawResponse, RawAnswerRow
<1>13. ASSUME RawClose PROVE RawShapes'
  BY <1>13 DEF RawClose, RawCancelOf, RawFence, RawTo, rawRoom, RawShapes, RawResponse,
    RawAnswerRow
<1>14. ASSUME RawCancels PROVE RawShapes'
  BY <1>14 DEF RawCancels, rawRoom, rawSound, RawShapes, RawResponse, RawAnswerRow
<1>15. ASSUME RawGathered PROVE RawShapes'
  BY <1>15 DEF RawGathered, RawCancelOf, RawFence, RawTo, rawRoom, RawShapes, RawResponse,
    RawAnswerRow
<1>16. ASSUME Disconnect PROVE RawShapes'
  BY <1>16 DEF Disconnect, RawTo, rawSound, RawShapes, RawResponse, RawAnswerRow
<1>17. ASSUME RawRevoke PROVE RawShapes'
  BY <1>17 DEF RawRevoke, RawFence, rawRoom, rawFlow, RawShapes, RawResponse, RawAnswerRow
<1>18. ASSUME UNCHANGED rawVars PROVE RawShapes'
  BY <1>18 DEF rawVars, rawRoom, rawSound, rawFlow, RawShapes, RawResponse, RawAnswerRow
<1>19. ASSUME NEW c \in RawCaller, ~answer.doomed \/ c = RawCtl, Unpublish(c) PROVE RawShapes'
  BY <1>19 DEF Unpublish, rawSound, RawShapes, RawResponse, RawAnswerRow
<1>20. ASSUME NEW c \in RawCaller, ~answer.doomed \/ c = RawCtl, UnpublishFails(c) PROVE RawShapes'
  BY <1>20 DEF UnpublishFails, RawFault, RawTo, AfterCancel, rawRoom, rawSound, RawShapes,
    RawResponse, RawAnswerRow
<1>21. ASSUME NEW c \in RawCaller, ~answer.doomed \/ c = RawCtl, SourcesClosed(c) PROVE RawShapes'
  BY <1>21 DEF SourcesClosed, RawTo, AfterCancel, NoSource, RawShapes, RawResponse, RawAnswerRow
<1> QED
  BY <1>1, <1>2, <1>3, <1>4, <1>5, <1>6, <1>7, <1>8, <1>9, <1>10, <1>11, <1>12, <1>13, <1>14,
    <1>15, <1>16, <1>17, <1>18, <1>19, <1>20, <1>21 DEF RawNext, RawCancelStep, RawCaller

LEMMA RawPlacesKept == RawIInv /\ [RawNext]_rawVars => RawPlaces'
<1> SUFFICES ASSUME RawIInv, [RawNext]_rawVars PROVE RawPlaces'
  OBVIOUS
<1> USE RawConstants DEF RawIInv
<1>1. ASSUME RawAnswer PROVE RawPlaces'
  BY <1>1 DEF RawAnswer, RawFence, NoAnswer, RawSteady, rawRoom, RawPlaces, RawResponse, Pieces,
    CtlPieces, RawAnswerRow, RawCaller
<1>2. ASSUME RawBegin PROVE RawPlaces'
  BY <1>2 DEF RawBegin, RawFalls, RawCancelOf, RawFence, RawTo, RawSteady, rawRoom, RawPlaces,
    RawResponse, Pieces, CtlPieces, RawAnswerRow, RawCaller
<1>3. ASSUME RawPublish("audio") PROVE RawPlaces'
  BY <1>3 DEF RawPublish, RawFault, RawFalls, RawCancelOf, RawFence, RawTo, RawSteady, RawPlaces,
    RawResponse, Pieces, CtlPieces, RawAnswerRow, RawCaller
<1>4. ASSUME RawPublish("video") PROVE RawPlaces'
  BY <1>4 DEF RawPublish, RawFault, RawFalls, RawCancelOf, RawFence, RawTo, RawSteady, RawPlaces,
    RawResponse, Pieces, CtlPieces, RawAnswerRow, RawCaller
<1>5. ASSUME RawSubmit PROVE RawPlaces'
  BY <1>5 DEF RawSubmit, RawStale, RawTo, RawSteady, rawRoom, rawSound, RawPlaces, RawResponse,
    Pieces, CtlPieces, RawAnswerRow, RawCaller
<1>6. ASSUME Capture PROVE RawPlaces'
  BY <1>6 DEF Capture, RawStale, RawFault, RawFalls, RawCancelOf, RawFence, RawTo, RawSteady,
    rawRoom, RawPlaces, RawResponse, Pieces, CtlPieces, RawAnswerRow, RawCaller
<1>7. ASSUME PlayedOut PROVE RawPlaces'
  BY <1>7 DEF PlayedOut, Announced, RawStale, RawTo, RawSteady, rawRoom, rawSound, RawPlaces,
    RawResponse, Pieces, CtlPieces, RawAnswerRow, RawCaller
<1>8. ASSUME RawQuits PROVE RawPlaces'
  BY <1>8 DEF RawQuits, Announced, RawFalls, RawCancelOf, RawFence, RawTo, RawSteady, rawRoom,
    RawPlaces, RawResponse, Pieces, CtlPieces, RawAnswerRow, RawCaller
<1>9. ASSUME RawDoomed PROVE RawPlaces'
  BY <1>9 DEF RawDoomed, RawTo, RawSteady, rawRoom, RawPlaces, RawResponse, Pieces, CtlPieces,
    RawAnswerRow, RawCaller
<1>10. ASSUME RoomPlays PROVE RawPlaces'
  BY <1>10 DEF RoomPlays, rawRoom, rawFlow, RawPlaces, RawResponse, Pieces, CtlPieces,
    RawAnswerRow, RawCaller
<1>11. ASSUME RawRaises PROVE RawPlaces'
  BY <1>11 DEF RawRaises, RawFalls, RawCancelOf, RawFence, RawTo, RawSteady, rawRoom, RawPlaces,
    RawResponse, Pieces, CtlPieces, RawAnswerRow, RawCaller
<1>12. ASSUME RawInterrupt PROVE RawPlaces'
  BY <1>12 DEF RawInterrupt, RawFence, RawTo, rawRoom, RawPlaces, RawResponse, Pieces, CtlPieces,
    RawAnswerRow, RawCaller
<1>13. ASSUME RawClose PROVE RawPlaces'
  BY <1>13 DEF RawClose, RawCancelOf, RawFence, RawTo, rawRoom, RawPlaces, RawResponse, Pieces,
    CtlPieces, RawAnswerRow, RawCaller
<1>14. ASSUME RawCancels PROVE RawPlaces'
  BY <1>14 DEF RawCancels, rawRoom, rawSound, RawPlaces, RawResponse, Pieces, CtlPieces,
    RawAnswerRow, RawCaller
<1>15. ASSUME RawGathered PROVE RawPlaces'
  BY <1>15 DEF RawGathered, RawCancelOf, RawFence, RawTo, rawRoom, RawPlaces, RawResponse, Pieces,
    CtlPieces, RawAnswerRow, RawCaller
<1>16. ASSUME Disconnect PROVE RawPlaces'
  BY <1>16 DEF Disconnect, RawTo, rawSound, RawPlaces, RawResponse, Pieces, CtlPieces,
    RawAnswerRow, RawCaller
<1>17. ASSUME RawRevoke PROVE RawPlaces'
  BY <1>17 DEF RawRevoke, RawFence, rawRoom, rawFlow, RawPlaces, RawResponse, Pieces, CtlPieces,
    RawAnswerRow, RawCaller
<1>18. ASSUME UNCHANGED rawVars PROVE RawPlaces'
  BY <1>18 DEF rawVars, rawRoom, rawSound, rawFlow, RawPlaces, RawResponse, Pieces, CtlPieces,
    RawAnswerRow, RawCaller
<1>19. ASSUME NEW c \in RawCaller, ~answer.doomed \/ c = RawCtl, Unpublish(c) PROVE RawPlaces'
  BY <1>19 DEF Unpublish, rawSound, RawPlaces, RawResponse, Pieces, CtlPieces, RawAnswerRow,
    RawCaller
<1>20. ASSUME NEW c \in RawCaller, ~answer.doomed \/ c = RawCtl, UnpublishFails(c) PROVE RawPlaces'
  BY <1>20 DEF UnpublishFails, RawFault, RawTo, AfterCancel, rawRoom, rawSound, RawPlaces,
    RawResponse, Pieces, CtlPieces, RawAnswerRow, RawCaller
<1>21. ASSUME NEW c \in RawCaller, ~answer.doomed \/ c = RawCtl, SourcesClosed(c) PROVE RawPlaces'
  <2>1. CASE c = RawResp
    BY <1>21, <2>1 DEF SourcesClosed, RawTo, AfterCancel, RawPlaces, RawResponse, Pieces,
      CtlPieces, RawAnswerRow, RawCaller
  <2>2. CASE c = RawCtl
    BY <1>21, <2>2 DEF SourcesClosed, RawTo, AfterCancel, RawPlaces, Pieces, CtlPieces, RawCaller
  <2> QED
    BY <2>1, <2>2 DEF RawCaller
<1> QED
  BY <1>1, <1>2, <1>3, <1>4, <1>5, <1>6, <1>7, <1>8, <1>9, <1>10, <1>11, <1>12, <1>13, <1>14,
    <1>15, <1>16, <1>17, <1>18, <1>19, <1>20, <1>21 DEF RawNext, RawCancelStep, RawCaller

LEMMA RawResponseKept == RawIInv /\ [RawNext]_rawVars => RawResponse'
<1> SUFFICES ASSUME RawIInv, [RawNext]_rawVars PROVE RawResponse'
  OBVIOUS
<1> USE RawConstants DEF RawIInv
<1>1. ASSUME RawAnswer PROVE RawResponse'
  <2>1. answer.n + 1 \in 0..RawStarts
    BY <1>1 DEF RawAnswer, RawResponse, RawAnswerRow
  <2>2. answer' = [epoch |-> rawEpoch, n |-> answer.n + 1, sent |-> 0, whole |-> FALSE,
          after |-> "begin",
                   doomed |-> FALSE]
    BY <1>1 DEF RawAnswer, NoAnswer
  <2> QED
    BY <2>1, <2>2 DEF RawResponse, RawAnswerRow, RawShapes
<1>2. ASSUME RawBegin PROVE RawResponse'
  BY <1>2 DEF RawBegin, RawFalls, RawCancelOf, RawFence, RawTo, RawSteady, rawRoom, RawResponse,
    RawAnswerRow, RawShapes, RawAccount, Streaming
<1>3. ASSUME RawPublish("audio") PROVE RawResponse'
  BY <1>3 DEF RawPublish, RawFault, RawFalls, RawCancelOf, RawFence, RawTo, RawSteady,
    RawResponse, RawAnswerRow, RawShapes, RawAccount, Streaming
<1>4. ASSUME RawPublish("video") PROVE RawResponse'
  BY <1>4 DEF RawPublish, RawFault, RawFalls, RawCancelOf, RawFence, RawTo, RawSteady,
    RawResponse, RawAnswerRow, RawShapes, RawAccount, Streaming
<1>5. ASSUME RawSubmit PROVE RawResponse'
  BY <1>5 DEF RawSubmit, RawStale, RawTo, RawSteady, rawRoom, rawSound, RawResponse, RawAnswerRow,
    RawShapes, RawAccount, Streaming
<1>6. ASSUME Capture PROVE RawResponse'
  BY <1>6 DEF Capture, RawStale, RawFault, RawFalls, RawCancelOf, RawFence, RawTo, RawSteady,
    rawRoom, RawResponse, RawAnswerRow, RawShapes, RawAccount, Streaming
<1>7. ASSUME PlayedOut PROVE RawResponse'
  BY <1>7 DEF PlayedOut, Announced, RawStale, RawTo, RawSteady, rawRoom, rawSound, RawResponse,
    RawAnswerRow, RawShapes, RawAccount, Streaming
<1>8. ASSUME RawQuits PROVE RawResponse'
  BY <1>8 DEF RawQuits, Announced, RawFalls, RawCancelOf, RawFence, RawTo, RawSteady, rawRoom,
    RawResponse, RawAnswerRow, RawShapes, RawAccount, Streaming
<1>9. ASSUME RawDoomed PROVE RawResponse'
  BY <1>9 DEF RawDoomed, RawTo, RawSteady, rawRoom, RawResponse, RawAnswerRow, RawShapes,
    RawAccount, Streaming
<1>10. ASSUME RoomPlays PROVE RawResponse'
  BY <1>10 DEF RoomPlays, rawRoom, rawFlow, RawResponse, RawAnswerRow, RawShapes, RawAccount,
    Streaming
<1>11. ASSUME RawRaises PROVE RawResponse'
  BY <1>11 DEF RawRaises, RawFalls, RawCancelOf, RawFence, RawTo, RawSteady, rawRoom, RawResponse,
    RawAnswerRow, RawShapes, RawAccount, Streaming
<1>12. ASSUME RawInterrupt PROVE RawResponse'
  BY <1>12 DEF RawInterrupt, RawFence, RawTo, rawRoom, RawResponse, RawAnswerRow, RawShapes,
    RawAccount, Streaming
<1>13. ASSUME RawClose PROVE RawResponse'
  BY <1>13 DEF RawClose, RawCancelOf, RawFence, RawTo, rawRoom, RawResponse, RawAnswerRow,
    RawShapes, RawAccount, Streaming
<1>14. ASSUME RawCancels PROVE RawResponse'
  BY <1>14 DEF RawCancels, rawRoom, rawSound, RawResponse, RawAnswerRow, RawShapes, RawAccount,
    Streaming
<1>15. ASSUME RawGathered PROVE RawResponse'
  BY <1>15 DEF RawGathered, RawCancelOf, RawFence, RawTo, rawRoom, RawResponse, RawAnswerRow,
    RawShapes, RawAccount, Streaming
<1>16. ASSUME Disconnect PROVE RawResponse'
  BY <1>16 DEF Disconnect, RawTo, rawSound, RawResponse, RawAnswerRow, RawShapes, RawAccount,
    Streaming
<1>17. ASSUME RawRevoke PROVE RawResponse'
  BY <1>17 DEF RawRevoke, RawFence, rawRoom, rawFlow, RawResponse, RawAnswerRow, RawShapes,
    RawAccount, Streaming
<1>18. ASSUME UNCHANGED rawVars PROVE RawResponse'
  BY <1>18 DEF rawVars, rawRoom, rawSound, rawFlow, RawResponse, RawAnswerRow, RawShapes,
    RawAccount, Streaming
<1>19. ASSUME NEW c \in RawCaller, ~answer.doomed \/ c = RawCtl, Unpublish(c) PROVE RawResponse'
  BY <1>19 DEF Unpublish, rawSound, RawResponse, RawAnswerRow, RawShapes, RawAccount, Streaming
<1>20. ASSUME NEW c \in RawCaller, ~answer.doomed \/ c = RawCtl, UnpublishFails(c)
       PROVE RawResponse'
  BY <1>20 DEF UnpublishFails, RawFault, RawTo, AfterCancel, rawRoom, rawSound, RawResponse,
    RawAnswerRow, RawShapes, RawAccount, Streaming
<1>21. ASSUME NEW c \in RawCaller, ~answer.doomed \/ c = RawCtl, SourcesClosed(c) PROVE RawResponse'
  BY <1>21 DEF SourcesClosed, RawTo, AfterCancel, NoSource, RawResponse, RawAnswerRow, RawShapes,
    RawAccount, Streaming
<1> QED
  BY <1>1, <1>2, <1>3, <1>4, <1>5, <1>6, <1>7, <1>8, <1>9, <1>10, <1>11, <1>12, <1>13, <1>14,
    <1>15, <1>16, <1>17, <1>18, <1>19, <1>20, <1>21 DEF RawNext, RawCancelStep, RawCaller

LEMMA RawTracksKept == RawIInv /\ [RawNext]_rawVars => RawTracks'
<1> SUFFICES ASSUME RawIInv, [RawNext]_rawVars PROVE RawTracks'
  OBVIOUS
<1> USE RawConstants DEF RawIInv
<1>1. ASSUME RawAnswer PROVE RawTracks'
  BY <1>1 DEF RawAnswer, RawFence, NoAnswer, RawSteady, rawRoom, RawShapes, RawPlaces,
    RawResponse, RawTracks, RawOrder, RawAccount, RawAnswerRow, RawCaller, RawTrack, RawAnswers
<1>2. ASSUME RawBegin PROVE RawTracks'
  BY <1>2 DEF RawBegin, RawFalls, RawCancelOf, RawFence, RawTo, RawSteady, rawRoom, RawShapes,
    RawPlaces, RawResponse, RawTracks, RawOrder, RawAccount, RawAnswerRow, RawCaller, RawTrack,
    RawAnswers
<1>3. ASSUME RawPublish("audio") PROVE RawTracks'
  BY <1>3 DEF RawPublish, RawFault, RawFalls, RawCancelOf, RawFence, RawTo, RawSteady, RawShapes,
    RawPlaces, RawResponse, RawTracks, RawOrder, RawAccount, RawAnswerRow, RawCaller, RawTrack,
    RawAnswers
<1>4. ASSUME RawPublish("video") PROVE RawTracks'
  BY <1>4 DEF RawPublish, RawFault, RawFalls, RawCancelOf, RawFence, RawTo, RawSteady, RawShapes,
    RawPlaces, RawResponse, RawTracks, RawOrder, RawAccount, RawAnswerRow, RawCaller, RawTrack,
    RawAnswers
<1>5. ASSUME RawSubmit PROVE RawTracks'
  BY <1>5 DEF RawSubmit, RawStale, RawTo, RawSteady, rawRoom, rawSound, RawShapes, RawPlaces,
    RawResponse, RawTracks, RawOrder, RawAccount, RawAnswerRow, RawCaller, RawTrack, RawAnswers
<1>6. ASSUME Capture PROVE RawTracks'
  BY <1>6 DEF Capture, RawStale, RawFault, RawFalls, RawCancelOf, RawFence, RawTo, RawSteady,
    rawRoom, RawShapes, RawPlaces, RawResponse, RawTracks, RawOrder, RawAccount, RawAnswerRow,
    RawCaller, RawTrack, RawAnswers
<1>7. ASSUME PlayedOut PROVE RawTracks'
  BY <1>7 DEF PlayedOut, Announced, RawStale, RawTo, RawSteady, rawRoom, rawSound, RawShapes,
    RawPlaces, RawResponse, RawTracks, RawOrder, RawAccount, RawAnswerRow, RawCaller, RawTrack,
    RawAnswers
<1>8. ASSUME RawQuits PROVE RawTracks'
  BY <1>8 DEF RawQuits, Announced, RawFalls, RawCancelOf, RawFence, RawTo, RawSteady, rawRoom,
    RawShapes, RawPlaces, RawResponse, RawTracks, RawOrder, RawAccount, RawAnswerRow, RawCaller,
    RawTrack, RawAnswers
<1>9. ASSUME RawDoomed PROVE RawTracks'
  BY <1>9 DEF RawDoomed, RawTo, RawSteady, rawRoom, RawShapes, RawPlaces, RawResponse, RawTracks,
    RawOrder, RawAccount, RawAnswerRow, RawCaller, RawTrack, RawAnswers
<1>10. ASSUME RoomPlays PROVE RawTracks'
  BY <1>10 DEF RoomPlays, rawRoom, rawFlow, RawShapes, RawPlaces, RawResponse, RawTracks,
    RawOrder, RawAccount, RawAnswerRow, RawCaller, RawTrack, RawAnswers
<1>11. ASSUME RawRaises PROVE RawTracks'
  BY <1>11 DEF RawRaises, RawFalls, RawCancelOf, RawFence, RawTo, RawSteady, rawRoom, RawShapes,
    RawPlaces, RawResponse, RawTracks, RawOrder, RawAccount, RawAnswerRow, RawCaller, RawTrack,
    RawAnswers
<1>12. ASSUME RawInterrupt PROVE RawTracks'
  BY <1>12 DEF RawInterrupt, RawFence, RawTo, rawRoom, RawShapes, RawPlaces, RawResponse,
    RawTracks, RawOrder, RawAccount, RawAnswerRow, RawCaller, RawTrack, RawAnswers
<1>13. ASSUME RawClose PROVE RawTracks'
  BY <1>13 DEF RawClose, RawCancelOf, RawFence, RawTo, rawRoom, RawShapes, RawPlaces, RawResponse,
    RawTracks, RawOrder, RawAccount, RawAnswerRow, RawCaller, RawTrack, RawAnswers
<1>14. ASSUME RawCancels PROVE RawTracks'
  BY <1>14 DEF RawCancels, rawRoom, rawSound, RawShapes, RawPlaces, RawResponse, RawTracks,
    RawOrder, RawAccount, RawAnswerRow, RawCaller, RawTrack, RawAnswers
<1>15. ASSUME RawGathered PROVE RawTracks'
  BY <1>15 DEF RawGathered, RawCancelOf, RawFence, RawTo, rawRoom, RawShapes, RawPlaces,
    RawResponse, RawTracks, RawOrder, RawAccount, RawAnswerRow, RawCaller, RawTrack, RawAnswers
<1>16. ASSUME Disconnect PROVE RawTracks'
  BY <1>16 DEF Disconnect, RawTo, rawSound, RawShapes, RawPlaces, RawResponse, RawTracks,
    RawOrder, RawAccount, RawAnswerRow, RawCaller, RawTrack, RawAnswers
<1>17. ASSUME RawRevoke PROVE RawTracks'
  BY <1>17 DEF RawRevoke, RawFence, rawRoom, rawFlow, RawShapes, RawPlaces, RawResponse,
    RawTracks, RawOrder, RawAccount, RawAnswerRow, RawCaller, RawTrack, RawAnswers
<1>18. ASSUME UNCHANGED rawVars PROVE RawTracks'
  BY <1>18 DEF rawVars, rawRoom, rawSound, rawFlow, RawShapes, RawPlaces, RawResponse, RawTracks,
    RawOrder, RawAccount, RawAnswerRow, RawCaller, RawTrack, RawAnswers
<1>19. ASSUME NEW c \in RawCaller, ~answer.doomed \/ c = RawCtl, Unpublish(c) PROVE RawTracks'
  BY <1>19 DEF Unpublish, rawSound, RawShapes, RawPlaces, RawResponse, RawTracks, RawOrder,
    RawAccount, RawAnswerRow, RawCaller, RawTrack, RawAnswers
<1>20. ASSUME NEW c \in RawCaller, ~answer.doomed \/ c = RawCtl, UnpublishFails(c) PROVE RawTracks'
  BY <1>20 DEF UnpublishFails, RawFault, RawTo, AfterCancel, rawRoom, rawSound, RawShapes,
    RawPlaces, RawResponse, RawTracks, RawOrder, RawAccount, RawAnswerRow, RawCaller, RawTrack,
    RawAnswers
<1>21. ASSUME NEW c \in RawCaller, ~answer.doomed \/ c = RawCtl, SourcesClosed(c) PROVE RawTracks'
  BY <1>21 DEF SourcesClosed, RawTo, AfterCancel, NoSource, RawShapes, RawPlaces, RawResponse,
    RawTracks, RawOrder, RawAccount, RawAnswerRow, RawCaller, RawTrack, RawAnswers
<1> QED
  BY <1>1, <1>2, <1>3, <1>4, <1>5, <1>6, <1>7, <1>8, <1>9, <1>10, <1>11, <1>12, <1>13, <1>14,
    <1>15, <1>16, <1>17, <1>18, <1>19, <1>20, <1>21 DEF RawNext, RawCancelStep, RawCaller

LEMMA RawOrderKept == RawIInv /\ [RawNext]_rawVars => RawOrder'
<1> SUFFICES ASSUME RawIInv, [RawNext]_rawVars PROVE RawOrder'
  OBVIOUS
<1> USE RawConstants DEF RawIInv
<1>1. ASSUME RawAnswer PROVE RawOrder'
  BY <1>1 DEF RawAnswer, RawFence, NoAnswer, RawSteady, rawRoom, RawShapes, RawPlaces,
    RawResponse, Pieces, CtlPieces, RawAnswerRow, RawCaller, RawOrder
<1>2. ASSUME RawBegin PROVE RawOrder'
  BY <1>2 DEF RawBegin, RawFalls, RawCancelOf, RawFence, RawTo, RawSteady, rawRoom, RawShapes,
    RawPlaces, RawResponse, Pieces, CtlPieces, RawAnswerRow, RawCaller, RawOrder
<1>3. ASSUME RawPublish("audio") PROVE RawOrder'
  BY <1>3 DEF RawPublish, RawFault, RawFalls, RawCancelOf, RawFence, RawTo, RawSteady, RawShapes,
    RawPlaces, RawResponse, Pieces, CtlPieces, RawAnswerRow, RawCaller, RawOrder
<1>4. ASSUME RawPublish("video") PROVE RawOrder'
  BY <1>4 DEF RawPublish, RawFault, RawFalls, RawCancelOf, RawFence, RawTo, RawSteady, RawShapes,
    RawPlaces, RawResponse, Pieces, CtlPieces, RawAnswerRow, RawCaller, RawOrder
<1>5. ASSUME RawSubmit PROVE RawOrder'
  BY <1>5 DEF RawSubmit, RawStale, RawTo, RawSteady, rawRoom, rawSound, RawShapes, RawPlaces,
    RawResponse, Pieces, CtlPieces, RawAnswerRow, RawCaller, RawOrder
<1>6. ASSUME Capture PROVE RawOrder'
  BY <1>6 DEF Capture, RawStale, RawFault, RawFalls, RawCancelOf, RawFence, RawTo, RawSteady,
    rawRoom, RawShapes, RawPlaces, RawResponse, Pieces, CtlPieces, RawAnswerRow, RawCaller,
    RawOrder
<1>7. ASSUME PlayedOut PROVE RawOrder'
  BY <1>7 DEF PlayedOut, Announced, RawStale, RawTo, RawSteady, rawRoom, rawSound, RawShapes,
    RawPlaces, RawResponse, Pieces, CtlPieces, RawAnswerRow, RawCaller, RawOrder
<1>8. ASSUME RawQuits PROVE RawOrder'
  BY <1>8 DEF RawQuits, Announced, RawFalls, RawCancelOf, RawFence, RawTo, RawSteady, rawRoom,
    RawShapes, RawPlaces, RawResponse, Pieces, CtlPieces, RawAnswerRow, RawCaller, RawOrder
<1>9. ASSUME RawDoomed PROVE RawOrder'
  BY <1>9 DEF RawDoomed, RawTo, RawSteady, rawRoom, RawShapes, RawPlaces, RawResponse, Pieces,
    CtlPieces, RawAnswerRow, RawCaller, RawOrder
<1>10. ASSUME RoomPlays PROVE RawOrder'
  BY <1>10 DEF RoomPlays, rawRoom, rawFlow, RawShapes, RawPlaces, RawResponse, Pieces, CtlPieces,
    RawAnswerRow, RawCaller, RawOrder
<1>11. ASSUME RawRaises PROVE RawOrder'
  BY <1>11 DEF RawRaises, RawFalls, RawCancelOf, RawFence, RawTo, RawSteady, rawRoom, RawShapes,
    RawPlaces, RawResponse, Pieces, CtlPieces, RawAnswerRow, RawCaller, RawOrder
<1>12. ASSUME RawInterrupt PROVE RawOrder'
  BY <1>12 DEF RawInterrupt, RawFence, RawTo, rawRoom, RawShapes, RawPlaces, RawResponse, Pieces,
    CtlPieces, RawAnswerRow, RawCaller, RawOrder
<1>13. ASSUME RawClose PROVE RawOrder'
  BY <1>13 DEF RawClose, RawCancelOf, RawFence, RawTo, rawRoom, RawShapes, RawPlaces, RawResponse,
    Pieces, CtlPieces, RawAnswerRow, RawCaller, RawOrder
<1>14. ASSUME RawCancels PROVE RawOrder'
  BY <1>14 DEF RawCancels, rawRoom, rawSound, RawShapes, RawPlaces, RawResponse, Pieces,
    CtlPieces, RawAnswerRow, RawCaller, RawOrder
<1>15. ASSUME RawGathered PROVE RawOrder'
  BY <1>15 DEF RawGathered, RawCancelOf, RawFence, RawTo, rawRoom, RawShapes, RawPlaces,
    RawResponse, Pieces, CtlPieces, RawAnswerRow, RawCaller, RawOrder
<1>16. ASSUME Disconnect PROVE RawOrder'
  BY <1>16 DEF Disconnect, RawTo, rawSound, RawShapes, RawPlaces, RawResponse, Pieces, CtlPieces,
    RawAnswerRow, RawCaller, RawOrder
<1>17. ASSUME RawRevoke PROVE RawOrder'
  BY <1>17 DEF RawRevoke, RawFence, rawRoom, rawFlow, RawShapes, RawPlaces, RawResponse, Pieces,
    CtlPieces, RawAnswerRow, RawCaller, RawOrder
<1>18. ASSUME UNCHANGED rawVars PROVE RawOrder'
  BY <1>18 DEF rawVars, rawRoom, rawSound, rawFlow, RawShapes, RawPlaces, RawResponse, Pieces,
    CtlPieces, RawAnswerRow, RawCaller, RawOrder
<1>19. ASSUME NEW c \in RawCaller, ~answer.doomed \/ c = RawCtl, Unpublish(c) PROVE RawOrder'
  BY <1>19 DEF Unpublish, rawSound, RawShapes, RawPlaces, RawResponse, Pieces, CtlPieces,
    RawAnswerRow, RawCaller, RawOrder
<1>20. ASSUME NEW c \in RawCaller, ~answer.doomed \/ c = RawCtl, UnpublishFails(c) PROVE RawOrder'
  <2>1. CASE c = RawResp
    BY <1>20, <2>1 DEF UnpublishFails, RawTo, AfterCancel, rawRoom, RawPlaces, RawResponse,
      RawOrder, Pieces, CtlPieces, RawAnswerRow, RawCaller
  <2>2. CASE c = RawCtl
    BY <1>20, <2>2 DEF UnpublishFails, RawTo, AfterCancel, rawRoom, RawPlaces, RawOrder,
      Pieces, CtlPieces, RawCaller
  <2> QED
    BY <2>1, <2>2 DEF RawCaller
<1>21. ASSUME NEW c \in RawCaller, ~answer.doomed \/ c = RawCtl, SourcesClosed(c) PROVE RawOrder'
  <2>1. CASE c = RawResp
    BY <1>21, <2>1 DEF SourcesClosed, RawTo, AfterCancel, RawPlaces, RawResponse, RawOrder,
      Pieces, CtlPieces, RawAnswerRow, RawCaller
  <2>2. CASE c = RawCtl
    BY <1>21, <2>2 DEF SourcesClosed, RawTo, AfterCancel, RawPlaces, RawOrder, Pieces,
      CtlPieces, RawCaller
  <2> QED
    BY <2>1, <2>2 DEF RawCaller
<1> QED
  BY <1>1, <1>2, <1>3, <1>4, <1>5, <1>6, <1>7, <1>8, <1>9, <1>10, <1>11, <1>12, <1>13, <1>14,
    <1>15, <1>16, <1>17, <1>18, <1>19, <1>20, <1>21 DEF RawNext, RawCancelStep, RawCaller

LEMMA RawAccountKept == RawIInv /\ [RawNext]_rawVars => RawAccount'
<1> SUFFICES ASSUME RawIInv, [RawNext]_rawVars PROVE RawAccount'
  OBVIOUS
<1> USE RawConstants DEF RawIInv
<1>1. ASSUME RawAnswer PROVE RawAccount'
  BY <1>1 DEF RawAnswer, RawFence, NoAnswer, RawSteady, rawRoom, RawShapes, RawPlaces,
    RawResponse, Pieces, CtlPieces, RawAnswerRow, RawCaller, RawTracks, RawOrder, RawAccount,
    Streaming, Beginning, RawAnswers
<1>2. ASSUME RawBegin PROVE RawAccount'
  BY <1>2 DEF RawBegin, RawFalls, RawCancelOf, RawFence, RawTo, RawSteady, rawRoom, RawShapes,
    RawPlaces, RawResponse, Pieces, CtlPieces, RawAnswerRow, RawCaller, RawTracks, RawOrder,
    RawAccount, Streaming, Beginning, RawAnswers
<1>3. ASSUME RawPublish("audio") PROVE RawAccount'
  BY <1>3 DEF RawPublish, RawFault, RawFalls, RawCancelOf, RawFence, RawTo, RawSteady, RawShapes,
    RawPlaces, RawResponse, Pieces, CtlPieces, RawAnswerRow, RawCaller, RawTracks, RawOrder,
    RawAccount, Streaming, Beginning, RawAnswers
<1>4. ASSUME RawPublish("video") PROVE RawAccount'
  BY <1>4 DEF RawPublish, RawFault, RawFalls, RawCancelOf, RawFence, RawTo, RawSteady, RawShapes,
    RawPlaces, RawResponse, Pieces, CtlPieces, RawAnswerRow, RawCaller, RawTracks, RawOrder,
    RawAccount, Streaming, Beginning, RawAnswers
<1>5. ASSUME RawSubmit PROVE RawAccount'
  BY <1>5 DEF RawSubmit, RawStale, RawTo, RawSteady, rawRoom, rawSound, RawShapes, RawPlaces,
    RawResponse, Pieces, CtlPieces, RawAnswerRow, RawCaller, RawTracks, RawOrder, RawAccount,
    Streaming, Beginning, RawAnswers
<1>6. ASSUME Capture PROVE RawAccount'
  <2> USE DEF Capture, RawSteady, rawRoom, RawStale
  <2>1. CASE RawFault /\ RawFalls
    BY <1>6, <2>1 DEF RawFault, RawFalls, RawCancelOf, RawFence, RawTo, RawShapes, RawPlaces,
      RawResponse, RawTracks, RawOrder, RawAccount, Streaming, Beginning, Pieces, CtlPieces,
      RawAnswerRow, RawCaller, RawAnswers
  <2>2. ASSUME source.queue < SourceRoom, source' = [source EXCEPT !.queue = @ + 1],
               answer' = [answer EXCEPT !.sent = @ + 1], RawTo(RawResp,
                 IF RawStale THEN "quit" ELSE "speak"),
               UNCHANGED rawFlags
        PROVE RawAccount'
    BY <1>6, <2>2 DEF RawTo, RawShapes, RawPlaces, RawResponse, RawTracks, RawOrder,
      RawAccount, Streaming, Beginning, Pieces, CtlPieces, RawAnswerRow, RawCaller, RawAnswers
  <2> QED
    BY <1>6, <2>1, <2>2
<1>7. ASSUME PlayedOut PROVE RawAccount'
  BY <1>7 DEF PlayedOut, Announced, RawStale, RawTo, RawSteady, rawRoom, rawSound, RawShapes,
    RawPlaces, RawResponse, Pieces, CtlPieces, RawAnswerRow, RawCaller, RawTracks, RawOrder,
    RawAccount, Streaming, Beginning, RawAnswers
<1>8. ASSUME RawQuits PROVE RawAccount'
  BY <1>8 DEF RawQuits, Announced, RawFalls, RawCancelOf, RawFence, RawTo, RawSteady, rawRoom,
    RawShapes, RawPlaces, RawResponse, Pieces, CtlPieces, RawAnswerRow, RawCaller, RawTracks,
    RawOrder, RawAccount, Streaming, Beginning, RawAnswers
<1>9. ASSUME RawDoomed PROVE RawAccount'
  BY <1>9 DEF RawDoomed, RawTo, RawSteady, rawRoom, RawShapes, RawPlaces, RawResponse, Pieces,
    CtlPieces, RawAnswerRow, RawCaller, RawTracks, RawOrder, RawAccount, Streaming, Beginning,
    RawAnswers
<1>10. ASSUME RoomPlays PROVE RawAccount'
  <2> USE <1>10 DEF RoomPlays, rawRoom, rawFlow
  <2>1. source.of \in RawAnswers /\ source.queue >= 1 /\ source.queue \in Nat /\ source.of \in Nat
    BY DEF RawShapes, RawAccount, RawAnswers
  <2>2. \A m \in RawAnswers : played'[m] = (IF m = source.of THEN played[m] + 1 ELSE played[m])
    BY <2>1 DEF RawTracks
  <2>3. source'.of = source.of /\ source'.queue = source.queue - 1
    BY DEF RawShapes
  <2>4. answer.n \in Nat /\ answer.n >= source.of /\ answer.n <= RawStarts
    BY DEF RawResponse, RawAnswerRow, RawAccount
  <2>5. answer.n \in RawAnswers
    BY <2>1, <2>4 DEF RawAnswers
  <2>6. \A m \in RawAnswers : played[m] \in Nat
    BY DEF RawTracks
  <2> QED
    BY <2>1, <2>2, <2>3, <2>4, <2>5, <2>6 DEF RawAccount, Streaming, Beginning, RawAnswers
<1>11. ASSUME RawRaises PROVE RawAccount'
  BY <1>11 DEF RawRaises, RawFalls, RawCancelOf, RawFence, RawTo, RawSteady, rawRoom, RawShapes,
    RawPlaces, RawResponse, Pieces, CtlPieces, RawAnswerRow, RawCaller, RawTracks, RawOrder,
    RawAccount, Streaming, Beginning, RawAnswers
<1>12. ASSUME RawInterrupt PROVE RawAccount'
  BY <1>12 DEF RawInterrupt, RawFence, RawTo, rawRoom, RawShapes, RawPlaces, RawResponse, Pieces,
    CtlPieces, RawAnswerRow, RawCaller, RawTracks, RawOrder, RawAccount, Streaming, Beginning,
    RawAnswers
<1>13. ASSUME RawClose PROVE RawAccount'
  BY <1>13 DEF RawClose, RawCancelOf, RawFence, RawTo, rawRoom, RawShapes, RawPlaces, RawResponse,
    Pieces, CtlPieces, RawAnswerRow, RawCaller, RawTracks, RawOrder, RawAccount, Streaming,
    Beginning, RawAnswers
<1>14. ASSUME RawCancels PROVE RawAccount'
  BY <1>14 DEF RawCancels, rawRoom, rawSound, RawShapes, RawPlaces, RawResponse, Pieces,
    CtlPieces, RawAnswerRow, RawCaller, RawTracks, RawOrder, RawAccount, Streaming, Beginning,
    RawAnswers
<1>15. ASSUME RawGathered PROVE RawAccount'
  BY <1>15 DEF RawGathered, RawCancelOf, RawFence, RawTo, rawRoom, RawShapes, RawPlaces,
    RawResponse, Pieces, CtlPieces, RawAnswerRow, RawCaller, RawTracks, RawOrder, RawAccount,
    Streaming, Beginning, RawAnswers
<1>16. ASSUME Disconnect PROVE RawAccount'
  BY <1>16 DEF Disconnect, RawTo, rawSound, RawShapes, RawPlaces, RawResponse, Pieces, CtlPieces,
    RawAnswerRow, RawCaller, RawTracks, RawOrder, RawAccount, Streaming, Beginning, RawAnswers
<1>17. ASSUME RawRevoke PROVE RawAccount'
  <2>1. rawFlags'.blocked
    BY <1>17 DEF RawRevoke, RawFence, RawShapes
  <2>2. source'.of = source.of /\ source'.queue = 0
    BY <1>17 DEF RawRevoke, RawFence, RawShapes
  <2> QED
    BY <1>17, <2>1, <2>2 DEF RawRevoke, rawRoom, rawFlow, RawAccount, Streaming, Beginning,
      RawAnswers
<1>18. ASSUME UNCHANGED rawVars PROVE RawAccount'
  BY <1>18 DEF rawVars, rawRoom, rawSound, rawFlow, RawShapes, RawPlaces, RawResponse, Pieces,
    CtlPieces, RawAnswerRow, RawCaller, RawTracks, RawOrder, RawAccount, Streaming, Beginning,
    RawAnswers
<1>19. ASSUME NEW c \in RawCaller, ~answer.doomed \/ c = RawCtl, Unpublish(c) PROVE RawAccount'
  BY <1>19 DEF Unpublish, rawSound, RawShapes, RawPlaces, RawResponse, Pieces, CtlPieces,
    RawAnswerRow, RawCaller, RawTracks, RawOrder, RawAccount, Streaming, Beginning, RawAnswers
<1>20. ASSUME NEW c \in RawCaller, ~answer.doomed \/ c = RawCtl, UnpublishFails(c) PROVE RawAccount'
  BY <1>20 DEF UnpublishFails, RawFault, RawTo, AfterCancel, rawRoom, rawSound, RawShapes,
    RawPlaces, RawResponse, Pieces, CtlPieces, RawAnswerRow, RawCaller, RawTracks, RawOrder,
    RawAccount, Streaming, Beginning, RawAnswers
<1>21. ASSUME NEW c \in RawCaller, ~answer.doomed \/ c = RawCtl, SourcesClosed(c) PROVE RawAccount'
  BY <1>21 DEF SourcesClosed, RawTo, AfterCancel, NoSource, RawShapes, RawPlaces, RawResponse,
    Pieces, CtlPieces, RawAnswerRow, RawCaller, RawTracks, RawOrder, RawAccount, Streaming,
    Beginning, RawAnswers
<1> QED
  BY <1>1, <1>2, <1>3, <1>4, <1>5, <1>6, <1>7, <1>8, <1>9, <1>10, <1>11, <1>12, <1>13, <1>14,
    <1>15, <1>16, <1>17, <1>18, <1>19, <1>20, <1>21 DEF RawNext, RawCancelStep, RawCaller

LEMMA RawLateKept == RawIInv /\ [RawNext]_rawVars => RawLate'
<1> SUFFICES ASSUME RawIInv, [RawNext]_rawVars PROVE RawLate'
  OBVIOUS
<1> USE RawConstants DEF RawIInv
<1>1. ASSUME RawAnswer PROVE RawLate'
  BY <1>1 DEF RawAnswer, RawFence, NoAnswer, RawSteady, rawRoom, RawShapes, RawPlaces,
    RawResponse, Pieces, CtlPieces, RawAnswerRow, RawCaller, RawOrder, RawLate
<1>2. ASSUME RawBegin PROVE RawLate'
  BY <1>2 DEF RawBegin, RawFalls, RawCancelOf, RawFence, RawTo, RawSteady, rawRoom, RawShapes,
    RawPlaces, RawResponse, Pieces, CtlPieces, RawAnswerRow, RawCaller, RawOrder, RawLate
<1>3. ASSUME RawPublish("audio") PROVE RawLate'
  BY <1>3 DEF RawPublish, RawFault, RawFalls, RawCancelOf, RawFence, RawTo, RawSteady, RawShapes,
    RawPlaces, RawResponse, Pieces, CtlPieces, RawAnswerRow, RawCaller, RawOrder, RawLate
<1>4. ASSUME RawPublish("video") PROVE RawLate'
  BY <1>4 DEF RawPublish, RawFault, RawFalls, RawCancelOf, RawFence, RawTo, RawSteady, RawShapes,
    RawPlaces, RawResponse, Pieces, CtlPieces, RawAnswerRow, RawCaller, RawOrder, RawLate
<1>5. ASSUME RawSubmit PROVE RawLate'
  BY <1>5 DEF RawSubmit, RawStale, RawTo, RawSteady, rawRoom, rawSound, RawShapes, RawPlaces,
    RawResponse, Pieces, CtlPieces, RawAnswerRow, RawCaller, RawOrder, RawLate
<1>6. ASSUME Capture PROVE RawLate'
  BY <1>6 DEF Capture, RawStale, RawFault, RawFalls, RawCancelOf, RawFence, RawTo, RawSteady,
    rawRoom, RawShapes, RawPlaces, RawResponse, Pieces, CtlPieces, RawAnswerRow, RawCaller,
    RawOrder, RawLate
<1>7. ASSUME PlayedOut PROVE RawLate'
  BY <1>7 DEF PlayedOut, Announced, RawStale, RawTo, RawSteady, rawRoom, rawSound, RawShapes,
    RawPlaces, RawResponse, Pieces, CtlPieces, RawAnswerRow, RawCaller, RawOrder, RawLate
<1>8. ASSUME RawQuits PROVE RawLate'
  BY <1>8 DEF RawQuits, Announced, RawFalls, RawCancelOf, RawFence, RawTo, RawSteady, rawRoom,
    RawShapes, RawPlaces, RawResponse, Pieces, CtlPieces, RawAnswerRow, RawCaller, RawOrder,
    RawLate
<1>9. ASSUME RawDoomed PROVE RawLate'
  BY <1>9 DEF RawDoomed, RawTo, RawSteady, rawRoom, RawShapes, RawPlaces, RawResponse, Pieces,
    CtlPieces, RawAnswerRow, RawCaller, RawOrder, RawLate
<1>10. ASSUME RoomPlays PROVE RawLate'
  BY <1>10 DEF RoomPlays, rawRoom, rawFlow, RawShapes, RawPlaces, RawResponse, Pieces, CtlPieces,
    RawAnswerRow, RawCaller, RawOrder, RawLate
<1>11. ASSUME RawRaises PROVE RawLate'
  BY <1>11 DEF RawRaises, RawFalls, RawCancelOf, RawFence, RawTo, RawSteady, rawRoom, RawShapes,
    RawPlaces, RawResponse, Pieces, CtlPieces, RawAnswerRow, RawCaller, RawOrder, RawLate
<1>12. ASSUME RawInterrupt PROVE RawLate'
  BY <1>12 DEF RawInterrupt, RawFence, RawTo, rawRoom, RawShapes, RawPlaces, RawResponse, Pieces,
    CtlPieces, RawAnswerRow, RawCaller, RawOrder, RawLate
<1>13. ASSUME RawClose PROVE RawLate'
  BY <1>13 DEF RawClose, RawCancelOf, RawFence, RawTo, rawRoom, RawShapes, RawPlaces, RawResponse,
    Pieces, CtlPieces, RawAnswerRow, RawCaller, RawOrder, RawLate
<1>14. ASSUME RawCancels PROVE RawLate'
  BY <1>14 DEF RawCancels, rawRoom, rawSound, RawShapes, RawPlaces, RawResponse, Pieces,
    CtlPieces, RawAnswerRow, RawCaller, RawOrder, RawLate
<1>15. ASSUME RawGathered PROVE RawLate'
  BY <1>15 DEF RawGathered, RawCancelOf, RawFence, RawTo, rawRoom, RawShapes, RawPlaces,
    RawResponse, Pieces, CtlPieces, RawAnswerRow, RawCaller, RawOrder, RawLate
<1>16. ASSUME Disconnect PROVE RawLate'
  BY <1>16 DEF Disconnect, RawTo, rawSound, RawShapes, RawPlaces, RawResponse, Pieces, CtlPieces,
    RawAnswerRow, RawCaller, RawOrder, RawLate
<1>17. ASSUME RawRevoke PROVE RawLate'
  BY <1>17 DEF RawRevoke, RawFence, rawRoom, rawFlow, RawShapes, RawPlaces, RawResponse, Pieces,
    CtlPieces, RawAnswerRow, RawCaller, RawOrder, RawLate
<1>18. ASSUME UNCHANGED rawVars PROVE RawLate'
  BY <1>18 DEF rawVars, rawRoom, rawSound, rawFlow, RawShapes, RawPlaces, RawResponse, Pieces,
    CtlPieces, RawAnswerRow, RawCaller, RawOrder, RawLate
<1>19. ASSUME NEW c \in RawCaller, ~answer.doomed \/ c = RawCtl, Unpublish(c) PROVE RawLate'
  BY <1>19 DEF Unpublish, rawSound, RawShapes, RawPlaces, RawResponse, Pieces, CtlPieces,
    RawAnswerRow, RawCaller, RawOrder, RawLate
<1>20. ASSUME NEW c \in RawCaller, ~answer.doomed \/ c = RawCtl, UnpublishFails(c) PROVE RawLate'
  BY <1>20 DEF UnpublishFails, RawFault, RawTo, AfterCancel, rawRoom, rawSound, RawShapes,
    RawPlaces, RawResponse, Pieces, CtlPieces, RawAnswerRow, RawCaller, RawOrder, RawLate
<1>21. ASSUME NEW c \in RawCaller, ~answer.doomed \/ c = RawCtl, SourcesClosed(c) PROVE RawLate'
  BY <1>21 DEF SourcesClosed, RawTo, AfterCancel, NoSource, RawShapes, RawPlaces, RawResponse,
    Pieces, CtlPieces, RawAnswerRow, RawCaller, RawOrder, RawLate
<1> QED
  BY <1>1, <1>2, <1>3, <1>4, <1>5, <1>6, <1>7, <1>8, <1>9, <1>10, <1>11, <1>12, <1>13, <1>14,
    <1>15, <1>16, <1>17, <1>18, <1>19, <1>20, <1>21 DEF RawNext, RawCancelStep, RawCaller

LEMMA RawListedKept == RawIInv /\ [RawNext]_rawVars => RawListed'
<1> SUFFICES ASSUME RawIInv, [RawNext]_rawVars PROVE RawListed'
  OBVIOUS
<1> USE RawConstants DEF RawIInv
<1>1. ASSUME RawAnswer PROVE RawListed'
  BY <1>1 DEF RawAnswer, RawFence, NoAnswer, RawSteady, rawRoom, RawShapes, RawPlaces,
    RawResponse, Pieces, CtlPieces, RawAnswerRow, RawCaller, RawTracks, RawOrder, RawListed,
    NoSource
<1>2. ASSUME RawBegin PROVE RawListed'
  BY <1>2 DEF RawBegin, RawFalls, RawCancelOf, RawFence, RawTo, RawSteady, rawRoom, RawShapes,
    RawPlaces, RawResponse, Pieces, CtlPieces, RawAnswerRow, RawCaller, RawTracks, RawOrder,
    RawListed, NoSource
<1>3. ASSUME RawPublish("audio") PROVE RawListed'
  BY <1>3 DEF RawPublish, RawFault, RawFalls, RawCancelOf, RawFence, RawTo, RawSteady, RawShapes,
    RawPlaces, RawResponse, Pieces, CtlPieces, RawAnswerRow, RawCaller, RawTracks, RawOrder,
    RawListed, NoSource
<1>4. ASSUME RawPublish("video") PROVE RawListed'
  BY <1>4 DEF RawPublish, RawFault, RawFalls, RawCancelOf, RawFence, RawTo, RawSteady, RawShapes,
    RawPlaces, RawResponse, Pieces, CtlPieces, RawAnswerRow, RawCaller, RawTracks, RawOrder,
    RawListed, NoSource
<1>5. ASSUME RawSubmit PROVE RawListed'
  BY <1>5 DEF RawSubmit, RawStale, RawTo, RawSteady, rawRoom, rawSound, RawShapes, RawPlaces,
    RawResponse, Pieces, CtlPieces, RawAnswerRow, RawCaller, RawTracks, RawOrder, RawListed,
    NoSource
<1>6. ASSUME Capture PROVE RawListed'
  BY <1>6 DEF Capture, RawStale, RawFault, RawFalls, RawCancelOf, RawFence, RawTo, RawSteady,
    rawRoom, RawShapes, RawPlaces, RawResponse, Pieces, CtlPieces, RawAnswerRow, RawCaller,
    RawTracks, RawOrder, RawListed, NoSource
<1>7. ASSUME PlayedOut PROVE RawListed'
  BY <1>7 DEF PlayedOut, Announced, RawStale, RawTo, RawSteady, rawRoom, rawSound, RawShapes,
    RawPlaces, RawResponse, Pieces, CtlPieces, RawAnswerRow, RawCaller, RawTracks, RawOrder,
    RawListed, NoSource
<1>8. ASSUME RawQuits PROVE RawListed'
  BY <1>8 DEF RawQuits, Announced, RawFalls, RawCancelOf, RawFence, RawTo, RawSteady, rawRoom,
    RawShapes, RawPlaces, RawResponse, Pieces, CtlPieces, RawAnswerRow, RawCaller, RawTracks,
    RawOrder, RawListed, NoSource
<1>9. ASSUME RawDoomed PROVE RawListed'
  BY <1>9 DEF RawDoomed, RawTo, RawSteady, rawRoom, RawShapes, RawPlaces, RawResponse, Pieces,
    CtlPieces, RawAnswerRow, RawCaller, RawTracks, RawOrder, RawListed, NoSource
<1>10. ASSUME RoomPlays PROVE RawListed'
  BY <1>10 DEF RoomPlays, rawRoom, rawFlow, RawShapes, RawPlaces, RawResponse, Pieces, CtlPieces,
    RawAnswerRow, RawCaller, RawTracks, RawOrder, RawListed, NoSource
<1>11. ASSUME RawRaises PROVE RawListed'
  BY <1>11 DEF RawRaises, RawFalls, RawCancelOf, RawFence, RawTo, RawSteady, rawRoom, RawShapes,
    RawPlaces, RawResponse, Pieces, CtlPieces, RawAnswerRow, RawCaller, RawTracks, RawOrder,
    RawListed, NoSource
<1>12. ASSUME RawInterrupt PROVE RawListed'
  BY <1>12 DEF RawInterrupt, RawFence, RawTo, rawRoom, RawShapes, RawPlaces, RawResponse, Pieces,
    CtlPieces, RawAnswerRow, RawCaller, RawTracks, RawOrder, RawListed, NoSource
<1>13. ASSUME RawClose PROVE RawListed'
  BY <1>13 DEF RawClose, RawCancelOf, RawFence, RawTo, rawRoom, RawShapes, RawPlaces, RawResponse,
    Pieces, CtlPieces, RawAnswerRow, RawCaller, RawTracks, RawOrder, RawListed, NoSource
<1>14. ASSUME RawCancels PROVE RawListed'
  BY <1>14 DEF RawCancels, rawRoom, rawSound, RawShapes, RawPlaces, RawResponse, Pieces,
    CtlPieces, RawAnswerRow, RawCaller, RawTracks, RawOrder, RawListed, NoSource
<1>15. ASSUME RawGathered PROVE RawListed'
  BY <1>15 DEF RawGathered, RawCancelOf, RawFence, RawTo, rawRoom, RawShapes, RawPlaces,
    RawResponse, Pieces, CtlPieces, RawAnswerRow, RawCaller, RawTracks, RawOrder, RawListed,
    NoSource
<1>16. ASSUME Disconnect PROVE RawListed'
  BY <1>16 DEF Disconnect, RawTo, rawSound, RawShapes, RawPlaces, RawResponse, Pieces, CtlPieces,
    RawAnswerRow, RawCaller, RawTracks, RawOrder, RawListed, NoSource
<1>17. ASSUME RawRevoke PROVE RawListed'
  BY <1>17 DEF RawRevoke, RawFence, rawRoom, rawFlow, RawShapes, RawPlaces, RawResponse, Pieces,
    CtlPieces, RawAnswerRow, RawCaller, RawTracks, RawOrder, RawListed, NoSource
<1>18. ASSUME UNCHANGED rawVars PROVE RawListed'
  BY <1>18 DEF rawVars, rawRoom, rawSound, rawFlow, RawShapes, RawPlaces, RawResponse, Pieces,
    CtlPieces, RawAnswerRow, RawCaller, RawTracks, RawOrder, RawListed, NoSource
<1>19. ASSUME NEW c \in RawCaller, ~answer.doomed \/ c = RawCtl, Unpublish(c) PROVE RawListed'
  BY <1>19 DEF Unpublish, rawSound, RawShapes, RawPlaces, RawResponse, Pieces, CtlPieces,
    RawAnswerRow, RawCaller, RawTracks, RawOrder, RawListed, NoSource
<1>20. ASSUME NEW c \in RawCaller, ~answer.doomed \/ c = RawCtl, UnpublishFails(c) PROVE RawListed'
  BY <1>20 DEF UnpublishFails, RawFault, RawTo, AfterCancel, rawRoom, rawSound, RawShapes,
    RawPlaces, RawResponse, Pieces, CtlPieces, RawAnswerRow, RawCaller, RawTracks, RawOrder,
    RawListed, NoSource
<1>21. ASSUME NEW c \in RawCaller, ~answer.doomed \/ c = RawCtl, SourcesClosed(c) PROVE RawListed'
  BY <1>21 DEF SourcesClosed, RawTo, AfterCancel, NoSource, RawShapes, RawPlaces, RawResponse,
    Pieces, CtlPieces, RawAnswerRow, RawCaller, RawTracks, RawOrder, RawListed
<1> QED
  BY <1>1, <1>2, <1>3, <1>4, <1>5, <1>6, <1>7, <1>8, <1>9, <1>10, <1>11, <1>12, <1>13, <1>14,
    <1>15, <1>16, <1>17, <1>18, <1>19, <1>20, <1>21 DEF RawNext, RawCancelStep, RawCaller

\* Whatever the response and the control task interleave, and whichever call fails: after a
\* fence at most the frame that waited for room reaches the source, an answer announced as
\* complete was played to its end unless the asset was revoked, every track in the room is on
\* the list of the next cancel() unless its publication was cancelled, and a close leaves none.
THEOREM RawMediaSafe == RawSpec => []RawFenceHolds
<1>1. RawIInv /\ [RawNext]_rawVars => RawIInv'
  BY RawShapesKept, RawPlacesKept, RawResponseKept, RawTracksKept, RawOrderKept, RawAccountKept,
    RawLateKept, RawListedKept DEF RawIInv
<1>2. RawIInv => RawFenceHolds
  BY DEF RawIInv, RawShapes, RawAccount, RawLate, RawListed, RawFenceHolds
<1> QED
  BY RawBegins, <1>1, <1>2, PTL DEF RawSpec

-----------------------------------------------------------------------------
(* The qualification of the session worker.                                *)

CaseSteps == {"opening", "ready", "feeding", "result", "retire", "finally"}
RunSteps == CaseSteps \cup {"start", "next", "put away", "judge", "gone"}
Slots == Nat \X {"room", "voice", "worker"}
Words2 == {"none", "eof", "wrong eof", "error"}
Exits == {"none", "zero", "one", "other", "killed"}

\* Every variable has its type: where the run stands and what it owns, the worker and its
\* tracks, what was recorded, the flags.
QualifierPlace ==
  /\ cases \in Seq(Kinds) /\ at \in [case : 0..Len(cases), step : RunSteps] /\ owned \subseteq Slots
QualifierWorker ==
  /\ worker \in [first : {"none", "ready", "error"}, second : Words2, exit : Exits]
  /\ publication \in Nat /\ bindings \in Seq(Nat)
QualifierPassed == passed \in Seq([case : Nat, second : Words2, exit : Exits])
QualifierFlags ==
  /\ together \in BOOLEAN /\ lease \in BOOLEAN /\ hooked \in BOOLEAN /\ sources \in BOOLEAN
  /\ raising \in BOOLEAN /\ report \in BOOLEAN /\ unclosed \in BOOLEAN

\* What is owned is of the current case, under the lease; and gone when the run is.
QualifierOwns ==
  /\ \A slot \in owned : slot[1] = at.case
  /\ owned # {} \/ at.step \in CaseSteps \cup {"next", "put away"} => lease
  /\ at.step \in {"start", "next", "opening", "judge"} => owned = {}
  /\ at.step \in {"start", "judge"} => ~lease /\ ~hooked
  /\ at.step = "gone" => \A slot \in owned : slot[2] # "worker"
  /\ at.step = "gone" /\ (owned # {} \/ lease \/ hooked) => unclosed

\* An exception is passed on to the end.
QualifierRaises ==
  /\ raising => at.step \in {"finally", "put away", "gone"}
  /\ unclosed => raising
  /\ at.step = "gone" => (report <=> ~raising)
  /\ report => at.step = "gone"

\* What a recorded case has to have been.
Sound(kind, second, exit) ==
  CASE kind = "malformed" -> second = "error" /\ exit = "one"
    [] kind = "flood" -> exit = "zero"
    [] OTHER -> second = "eof"

\* Every recorded case is the next of the list, and was what it has to be.
QualifierSound ==
  \A c \in DOMAIN passed : /\ c \in DOMAIN cases /\ passed[c].case = c
                           /\ Sound(cases[c], passed[c].second, passed[c].exit)

\* As long as nothing is raised, all cases before this one, and with "retire" this one, are
\* recorded, each with its tracks.
QualifierRecords ==
  /\ at.step = "start" => at.case = 0
  /\ at.step \in CaseSteps => at.case >= 1
  /\ at.step \in {"opening", "ready", "feeding", "result"} => Len(passed) = at.case - 1
  /\ ~raising /\ at.step \notin {"opening", "ready", "feeding", "result"} => Len(passed) = at.case
  /\ at.step \in {"opening", "ready"} => Len(bindings) = at.case - 1
  /\ ~raising /\ at.step \notin {"opening", "ready"} => Len(bindings) = at.case
  /\ ~raising /\ at.step \in {"put away", "judge", "gone"} => at.case = Len(cases)
  /\ report => /\ ~lease /\ owned = {} /\ FreshTracks /\ (IsLive => together)

QualifierIInv ==
  /\ QualifierPlace /\ QualifierWorker /\ QualifierPassed /\ QualifierFlags
  /\ QualifierOwns /\ QualifierRaises /\ QualifierSound /\ QualifierRecords

-----------------------------------------------------------------------------
\* Where the run stands is a place of a list of steps.
LEMMA PlaceTyped ==
  ASSUME QualifierPlace
  PROVE  /\ cases \in Seq(Kinds) /\ Len(cases) \in Nat /\ at.case \in Nat /\ at.case <= Len(cases)
         /\ at.step \in RunSteps /\ owned \subseteq Slots
  BY DEF QualifierPlace

LEMMA GoesTo ==
  ASSUME QualifierPlace, NEW next, GoTo(next)
  PROVE  at'.case = at.case /\ at'.step = next /\ at' = [case |-> at.case, step |-> next]
<1>1. /\ at = [case |-> at.case, step |-> at.step]
      /\ at' = [at EXCEPT !.step = next]
  BY DEF QualifierPlace, GoTo
<1> QED
  BY <1>1

\* Where each step of main() leads, and what it carries along.
LEMMA NextCaseMoves ==
  ASSUME QualifierPlace, NextCase
  PROVE  /\ at.step = "next"
         /\ \/ at'.case = at.case /\ at'.step = "put away" /\ at.case = Len(cases)
            \/ at'.case = at.case + 1 /\ at'.step = "opening" /\ at.case < Len(cases)
         /\ cases' = cases /\ owned' = owned /\ bindings' = bindings /\ passed' = passed
              /\ (raising' <=> raising) /\ (unclosed' <=> unclosed) /\ (report' <=> report)
                   /\ (lease' <=> lease) /\ (hooked' <=> hooked) /\ (together' <=> together)
<1>1. CASE at.case = Len(cases)
  BY <1>1, GoesTo DEF NextCase, Kept
<1>2. CASE at.case # Len(cases)
  <2>1. at' = [case |-> at.case + 1, step |-> "opening"] /\ at.step = "next"
    BY <1>2 DEF NextCase
  <2>2. at.case < Len(cases)
    BY <1>2, PlaceTyped
  <2>3. UNCHANGED <<cases, owned, raising, unclosed, report, lease, hooked, bindings, passed,
          together>>
    BY DEF NextCase, Kept
  <2> QED
    BY <2>1, <2>2, <2>3
<1> QED
  BY <1>1, <1>2

LEMMA OpensMoves ==
  ASSUME QualifierPlace, Opens
  PROVE  /\ at.step = "opening"
         /\ at'.case = at.case /\ bindings' = bindings /\ passed' = passed
              /\ (unclosed' <=> unclosed) /\ cases' = cases /\ (report' <=> report)
                   /\ (lease' <=> lease) /\ (hooked' <=> hooked) /\ (together' <=> together)
         /\ \/ at'.step = "ready" /\ (raising' <=> raising)
            \/ at'.step = "put away" /\ raising'
<1>1. \/ GoTo("ready") /\ (raising' <=> raising)
      \/ GoTo("put away") /\ raising'
  BY Zenon DEF Opens
<1>2. /\ at.step = "opening"
      /\ cases' = cases /\ bindings' = bindings /\ passed' = passed
      /\ (unclosed' <=> unclosed) /\ (report' <=> report) /\ (lease' <=> lease)
           /\ (hooked' <=> hooked)
      /\ (together' <=> together)
  BY Zenon DEF Opens, RunKept, Kept
<1> QED
  BY <1>1, <1>2, GoesTo

LEMMA WorkerReadyMoves ==
  ASSUME QualifierPlace, WorkerReady
  PROVE  /\ at.step = "ready"
         /\ at'.case = at.case /\ owned' = owned /\ passed' = passed
              /\ (unclosed' <=> unclosed) /\ cases' = cases /\ (report' <=> report)
                   /\ (lease' <=> lease) /\ (hooked' <=> hooked) /\ (together' <=> together)
         /\ \/ at'.step = "feeding" /\ (raising' <=> raising)
                 /\ bindings' = Append(bindings, publication)
            \/ at'.step = "finally" /\ raising' /\ bindings' = bindings
  BY GoesTo DEF WorkerReady, Raises, Kept

LEMMA FeedsMoves ==
  ASSUME QualifierPlace, Feeds
  PROVE  /\ at.step = "feeding"
         /\ at'.case = at.case /\ owned' = owned /\ passed' = passed /\ bindings' = bindings
              /\ (unclosed' <=> unclosed) /\ cases' = cases /\ (report' <=> report)
                   /\ (lease' <=> lease) /\ (hooked' <=> hooked) /\ (together' <=> together)
         /\ \/ at'.step = "result" /\ (raising' <=> raising)
            \/ at'.step = "finally" /\ raising'
  BY GoesTo DEF Feeds, Raises, Kept, RunKept

LEMMA ResultMoves ==
  ASSUME QualifierPlace, Result
  PROVE  /\ at.step = "result"
         /\ at'.case = at.case /\ owned' = owned /\ bindings' = bindings
              /\ (unclosed' <=> unclosed) /\ cases' = cases /\ (report' <=> report)
                   /\ (lease' <=> lease) /\ (hooked' <=> hooked) /\ (together' <=> together)
         /\ \/ at'.step = "retire" /\ (raising' <=> raising) /\ AsExpected /\ Record
            \/ at'.step = "finally" /\ raising' /\ passed' = passed
  BY GoesTo DEF Result, Raises, Kept

LEMMA CaseFinallyMoves ==
  ASSUME QualifierPlace, CaseFinally
  PROVE  /\ at.step = "finally"
         /\ at'.case = at.case /\ passed' = passed /\ bindings' = bindings /\ cases' = cases
              /\ (report' <=> report) /\ (lease' <=> lease) /\ (hooked' <=> hooked)
                   /\ (together' <=> together)
         /\ \/ /\ at'.step = (IF raising THEN "put away" ELSE "next")
               /\ (raising' <=> raising) /\ (unclosed' <=> unclosed)
            \/ at'.step = "put away" /\ raising' /\ unclosed'
<1>1. \/ raising /\ GoTo("put away") /\ raising' /\ (unclosed' <=> unclosed)
      \/ ~raising /\ GoTo("next") /\ ~raising' /\ (unclosed' <=> unclosed)
      \/ GoTo("put away") /\ raising' /\ unclosed'
  BY Zenon DEF CaseFinally
<1>2. /\ at.step = "finally"
      /\ cases' = cases /\ bindings' = bindings /\ passed' = passed
      /\ (report' <=> report) /\ (lease' <=> lease) /\ (hooked' <=> hooked)
           /\ (together' <=> together)
  BY Zenon DEF CaseFinally
<1>3. ASSUME NEW next, GoTo(next) PROVE at'.case = at.case /\ at'.step = next
  BY <1>3, GoesTo
<1> QED
  BY <1>1, <1>2, <1>3

LEMMA RunFinallyMoves ==
  ASSUME QualifierPlace, RunFinally
  PROVE  /\ at.step = "put away"
         /\ at'.case = at.case /\ cases' = cases /\ passed' = passed /\ bindings' = bindings
              /\ (together' <=> together) /\ (report' <=> report)
         /\ \/ at'.step = (IF raising THEN "gone" ELSE "judge") /\ (raising' <=> raising)
                 /\ (unclosed' <=> unclosed)
            \/ at'.step = "gone" /\ raising' /\ (unclosed => unclosed')
<1>1. \/ raising /\ GoTo("gone") /\ raising' /\ (unclosed' <=> unclosed)
      \/ ~raising /\ GoTo("judge") /\ ~raising' /\ (unclosed' <=> unclosed)
      \/ GoTo("gone") /\ raising' /\ (unclosed => unclosed')
  BY Zenon DEF RunFinally
<1>2. /\ at.step = "put away"
      /\ cases' = cases /\ bindings' = bindings /\ passed' = passed
      /\ (report' <=> report) /\ (together' <=> together)
  BY Zenon DEF RunFinally
<1>3. ASSUME NEW next, GoTo(next) PROVE at'.case = at.case /\ at'.step = next
  BY <1>3, GoesTo
<1> QED
  BY <1>1, <1>2, <1>3

LEMMA ReportIsWrittenMoves ==
  ASSUME QualifierPlace, ReportIsWritten
  PROVE  /\ at.step = "judge"
         /\ at'.case = at.case /\ at'.step = "gone"
         /\ cases' = cases /\ owned' = owned /\ passed' = passed /\ bindings' = bindings
              /\ (unclosed' <=> unclosed) /\ (lease' <=> lease) /\ (hooked' <=> hooked)
                   /\ (together' <=> together)
         /\ \/ (raising' <=> raising) /\ report' /\ FreshTracks /\ (IsLive => together)
            \/ raising' /\ (report' <=> report)
<1>1. \/ raising' = raising /\ report' = TRUE /\ FreshTracks /\ (IsLive => together)
      \/ raising' = TRUE /\ report' = report
  BY Zenon DEF ReportIsWritten
<1>2. /\ at.step = "judge" /\ GoTo("gone")
      /\ UNCHANGED <<cases, owned, passed, bindings, unclosed, lease, hooked, together>>
  BY Zenon DEF ReportIsWritten
<1> QED
  BY <1>1, <1>2, GoesTo

\* What is taken on belongs to the case.
LEMMA OpensOwns ==
  ASSUME QualifierPlace, Opens
  PROVE  \A slot \in owned' : \/ slot \in owned
                             \/ \E what \in {"room", "voice", "worker"} : slot = <<at.case, what>>
<1>1. \A kind : Wanted(kind) \subseteq {"room", "voice", "worker"}
  BY DEF Wanted
<1>2. \E taken \in SUBSET {"room", "voice",
        "worker"} : owned' = owned \cup {Mine(what) : what \in taken}
  <2>1. CASE owned' = owned \cup {Mine(what) : what \in Wanted(Kind)}
    BY <1>1, <2>1
  <2>2. ASSUME NEW reached, owned' = owned \cup {Mine(what) : what \in reached \cap Wanted(Kind)}
        PROVE  \E taken \in SUBSET {"room", "voice", "worker"} :
                 owned' = owned \cup {Mine(what) : what \in taken}
    <3>1. reached \cap Wanted(Kind) \in SUBSET {"room", "voice", "worker"}
      BY <1>1
    <3> QED
      BY <2>2, <3>1
  <2> QED
    BY <2>1, <2>2 DEF Opens
<1> QED
  BY <1>2 DEF Mine

\* The initial states satisfy the invariant.
LEMMA QualifierBegins == QualifierInit => QualifierIInv
<1> SUFFICES ASSUME QualifierInit PROVE QualifierIInv
  OBVIOUS
<1>1. QualifierPlace
  <2>1. cases \in Seq(Kinds) /\ Len(cases) \in Nat
    BY QualifierAssumption DEF QualifierInit
  <2> QED
    BY <2>1 DEF QualifierInit, QualifierPlace, CaseSteps, RunSteps
<1>2. QualifierWorker /\ QualifierFlags /\ QualifierPassed
  <2>1. worker \in [first : {"none", "ready", "error"}, second : Words2, exit : Exits]
    BY DEF QualifierInit, Silent, Words2, Exits
  <2>2. publication \in Nat /\ bindings \in Seq(Nat) /\ QualifierPassed
    BY DEF QualifierInit, QualifierPassed
  <2>3. QualifierFlags
    BY DEF QualifierInit, QualifierFlags
  <2> QED
    BY <2>1, <2>2, <2>3 DEF QualifierWorker
<1>3. QualifierOwns
  BY DEF QualifierInit, QualifierOwns, CaseSteps
<1>4. QualifierRaises
  BY DEF QualifierInit, QualifierRaises
<1>5. QualifierSound /\ QualifierRecords
  BY DEF QualifierInit, QualifierSound, QualifierRecords, CaseSteps
<1> QED
  BY <1>1, <1>2, <1>3, <1>4, <1>5 DEF QualifierIInv

\* Every step keeps every part of it: one lemma per part, one step per action.
LEMMA QualifierPlaceKept == QualifierIInv /\ [QualifierNext]_qualifierVars => QualifierPlace'
<1> SUFFICES ASSUME QualifierIInv, [QualifierNext]_qualifierVars PROVE QualifierPlace'
  OBVIOUS
<1> USE DEF QualifierIInv
<1>1. ASSUME WorkerActs PROVE QualifierPlace'
  BY <1>1 DEF WorkerActs, Mine, Kept, QualifierPlace, CaseSteps, RunSteps, Slots, QualifierRecords
<1>2. ASSUME Edited PROVE QualifierPlace'
  BY <1>2 DEF Edited, QualifierPlace, CaseSteps, RunSteps, Slots, QualifierRecords
<1>3. ASSUME Samples PROVE QualifierPlace'
  BY <1>3 DEF Samples, Mine, QualifierPlace, CaseSteps, RunSteps, Slots, QualifierRecords
<1>4. ASSUME Started PROVE QualifierPlace'
  BY <1>4 DEF Started, GoTo, QualifierPlace, CaseSteps, RunSteps, Slots, QualifierRecords
<1>5. ASSUME Refuses PROVE QualifierPlace'
  BY <1>5 DEF Refuses, GoTo, Kept, RunKept, QualifierPlace, CaseSteps, RunSteps, Slots,
    QualifierRecords
<1>6. ASSUME NextCase PROVE QualifierPlace'
  <2>1. cases' = cases /\ owned' = owned /\ at'.step \in RunSteps /\ at'.case \in 0..Len(cases)
    <3>1. cases' = cases /\ owned' = owned /\ at'.step \in {"opening", "ready", "put away"}
      BY <1>6, NextCaseMoves
    <3>2. at'.case \in 0..Len(cases)
      <4>1. \/ at'.case = at.case
            \/ at'.case = at.case + 1 /\ at.case < Len(cases)
        BY <1>6, NextCaseMoves
      <4> QED
        BY <4>1, PlaceTyped
    <3>3. {"opening", "ready", "put away"} \subseteq RunSteps
      BY DEF RunSteps, CaseSteps
    <3> QED
      BY <3>1, <3>2, <3>3
  <2>2. at' = [case |-> at'.case, step |-> at'.step]
    <3>1. CASE at.case = Len(cases)
      BY <1>6, <3>1, GoesTo DEF NextCase
    <3>2. CASE at.case # Len(cases)
      BY <1>6, <3>2 DEF NextCase
    <3> QED
      BY <3>1, <3>2
  <2> QED
    BY <2>1, <2>2 DEF QualifierPlace
<1>7. ASSUME Opens PROVE QualifierPlace'
  <2>1. cases' = cases /\ at'.step \in RunSteps /\ at'.case \in 0..Len(cases)
    <3>1. cases' = cases /\ at'.step \in {"opening", "ready", "put away"}
      BY <1>7, OpensMoves
    <3>2. at'.case \in 0..Len(cases)
      <4>1. at'.case = at.case
        BY <1>7, OpensMoves
      <4> QED
        BY <4>1, PlaceTyped
    <3>3. {"opening", "ready", "put away"} \subseteq RunSteps
      BY DEF RunSteps, CaseSteps
    <3> QED
      BY <3>1, <3>2, <3>3
  <2>2. at' = [case |-> at'.case, step |-> at'.step]
    BY <1>7, GoesTo DEF Opens
  <2>3. owned' \subseteq Slots
    BY <1>7, OpensOwns, PlaceTyped DEF Slots
  <2> QED
    BY <2>1, <2>2, <2>3 DEF QualifierPlace
<1>8. ASSUME WorkerReady PROVE QualifierPlace'
  BY <1>8 DEF WorkerReady, GoTo, Raises, Spend, Kept, QualifierPlace, CaseSteps, RunSteps, Slots,
    QualifierRecords
<1>9. ASSUME Feeds PROVE QualifierPlace'
  BY <1>9 DEF Feeds, GoTo, Raises, Spend, Kept, RunKept, QualifierPlace, CaseSteps, RunSteps,
    Slots, QualifierRecords
<1>10. ASSUME Result PROVE QualifierPlace'
  BY <1>10 DEF Result, Record, AsExpected, Kind, GoTo, Raises, Spend, Kept, Sound, QualifierPlace,
    CaseSteps, RunSteps, Slots, QualifierRecords
<1>11. ASSUME Retires PROVE QualifierPlace'
  BY <1>11 DEF Retires, GoTo, Raises, Spend, Kept, RunKept, QualifierPlace, CaseSteps, RunSteps,
    Slots, QualifierRecords
<1>12. ASSUME CaseFinally PROVE QualifierPlace'
  BY <1>12 DEF CaseFinally, Killed, AfterRaise, GoTo, Spend, QualifierPlace, CaseSteps, RunSteps,
    Slots, QualifierRecords
<1>13. ASSUME RunFinally PROVE QualifierPlace'
  BY <1>13 DEF RunFinally, Killed, AfterRaise, GoTo, Spend, QualifierPlace, CaseSteps, RunSteps,
    Slots, QualifierRecords
<1>14. ASSUME ReportIsWritten PROVE QualifierPlace'
  BY <1>14 DEF ReportIsWritten, GoTo, Spend, QualifierPlace, CaseSteps, RunSteps, Slots,
    QualifierRecords
<1>15. ASSUME UNCHANGED qualifierVars PROVE QualifierPlace'
  BY <1>15 DEF qualifierVars, QualifierPlace, CaseSteps, RunSteps, Slots, QualifierRecords
<1> QED
  BY <1>1, <1>2, <1>3, <1>4, <1>5, <1>6, <1>7, <1>8, <1>9, <1>10, <1>11, <1>12, <1>13, <1>14,
    <1>15 DEF QualifierNext

LEMMA QualifierWorkerKept == QualifierIInv /\ [QualifierNext]_qualifierVars => QualifierWorker'
<1> SUFFICES ASSUME QualifierIInv, [QualifierNext]_qualifierVars PROVE QualifierWorker'
  OBVIOUS
<1> USE DEF QualifierIInv
<1>1. ASSUME WorkerActs PROVE QualifierWorker'
  <2>1. bindings' = bindings
          /\ (publication' = publication \/ publication' \in 1..Len(bindings) + 1)
    BY <1>1, Zenon DEF WorkerActs
  <2>2. publication' \in Nat
    BY <2>1 DEF QualifierWorker
  <2>3. /\ "ready" \in {"none", "ready", "error"} /\ "error" \in {"none", "ready", "error"}
        /\ {"eof", "wrong eof", "error"} \subseteq Words2
             /\ {"zero", "one", "other"} \subseteq Exits
    BY DEF Words2, Exits
  <2>4. worker' \in [first : {"none", "ready", "error"}, second : Words2, exit : Exits]
    BY <1>1, <2>3 DEF WorkerActs, QualifierWorker
  <2> QED
    BY <2>1, <2>2, <2>4 DEF QualifierWorker
<1>2. ASSUME Edited PROVE QualifierWorker'
  BY <1>2 DEF Edited, QualifierWorker, Words2, Exits
<1>3. ASSUME Samples PROVE QualifierWorker'
  BY <1>3 DEF Samples, Mine, QualifierWorker, Words2, Exits
<1>4. ASSUME Started PROVE QualifierWorker'
  BY <1>4 DEF Started, GoTo, QualifierWorker, Words2, Exits
<1>5. ASSUME Refuses PROVE QualifierWorker'
  BY <1>5 DEF Refuses, GoTo, Kept, RunKept, QualifierWorker, Words2, Exits
<1>6. ASSUME NextCase PROVE QualifierWorker'
  <2>1. bindings' = bindings /\ ((worker' = Silent
          /\ publication' = 0) \/ UNCHANGED <<worker, publication>>)
    BY <1>6 DEF NextCase
  <2>2. Silent \in [first : {"none", "ready", "error"}, second : Words2, exit : Exits]
    BY DEF Silent, Words2, Exits
  <2> QED
    BY <2>1, <2>2 DEF QualifierWorker
<1>7. ASSUME Opens PROVE QualifierWorker'
  BY <1>7 DEF Opens, GoTo, Mine, Wanted, Kind, Spend, Kept, RunKept, QualifierWorker, Words2,
    Exits
<1>8. ASSUME WorkerReady PROVE QualifierWorker'
  <2>1. UNCHANGED <<worker, publication>> /\ bindings' \in {bindings, Append(bindings, publication)}
    BY <1>8, WorkerReadyMoves DEF WorkerReady
  <2> QED
    BY <2>1 DEF QualifierWorker
<1>9. ASSUME Feeds PROVE QualifierWorker'
  BY <1>9 DEF Feeds, GoTo, Raises, Spend, Kept, RunKept, QualifierWorker, Words2, Exits
<1>10. ASSUME Result PROVE QualifierWorker'
  BY <1>10 DEF Result, Record, AsExpected, Kind, GoTo, Raises, Spend, Kept, Sound,
    QualifierWorker, Words2, Exits
<1>11. ASSUME Retires PROVE QualifierWorker'
  BY <1>11 DEF Retires, GoTo, Raises, Spend, Kept, RunKept, QualifierWorker, Words2, Exits
<1>12. ASSUME CaseFinally PROVE QualifierWorker'
  BY <1>12 DEF CaseFinally, Killed, AfterRaise, GoTo, Spend, QualifierWorker, Words2, Exits
<1>13. ASSUME RunFinally PROVE QualifierWorker'
  BY <1>13 DEF RunFinally, Killed, AfterRaise, GoTo, Spend, QualifierWorker, Words2, Exits
<1>14. ASSUME ReportIsWritten PROVE QualifierWorker'
  BY <1>14 DEF ReportIsWritten, GoTo, Spend, QualifierWorker, Words2, Exits
<1>15. ASSUME UNCHANGED qualifierVars PROVE QualifierWorker'
  BY <1>15 DEF qualifierVars, QualifierWorker, Words2, Exits
<1> QED
  BY <1>1, <1>2, <1>3, <1>4, <1>5, <1>6, <1>7, <1>8, <1>9, <1>10, <1>11, <1>12, <1>13, <1>14,
    <1>15 DEF QualifierNext

LEMMA QualifierPassedKept == QualifierIInv /\ [QualifierNext]_qualifierVars => QualifierPassed'
<1> SUFFICES ASSUME QualifierIInv, [QualifierNext]_qualifierVars PROVE QualifierPassed'
  OBVIOUS
<1> USE DEF QualifierIInv
<1>1. ASSUME WorkerActs PROVE QualifierPassed'
  BY <1>1 DEF WorkerActs, Mine, Kept, QualifierPassed, QualifierPlace, QualifierWorker
<1>2. ASSUME Edited PROVE QualifierPassed'
  BY <1>2 DEF Edited, QualifierPassed, QualifierPlace, QualifierWorker
<1>3. ASSUME Samples PROVE QualifierPassed'
  BY <1>3 DEF Samples, Mine, QualifierPassed, QualifierPlace, QualifierWorker
<1>4. ASSUME Started PROVE QualifierPassed'
  BY <1>4 DEF Started, GoTo, QualifierPassed, QualifierPlace, QualifierWorker
<1>5. ASSUME Refuses PROVE QualifierPassed'
  BY <1>5 DEF Refuses, GoTo, Kept, RunKept, QualifierPassed, QualifierPlace, QualifierWorker
<1>6. ASSUME NextCase PROVE QualifierPassed'
  BY <1>6 DEF NextCase, GoTo, Kept, Silent, QualifierPassed, QualifierPlace, QualifierWorker
<1>7. ASSUME Opens PROVE QualifierPassed'
  BY <1>7 DEF Opens, GoTo, Mine, Wanted, Kind, Spend, Kept, RunKept, QualifierPassed,
    QualifierPlace, QualifierWorker
<1>8. ASSUME WorkerReady PROVE QualifierPassed'
  BY <1>8 DEF WorkerReady, GoTo, Raises, Spend, Kept, QualifierPassed, QualifierPlace,
    QualifierWorker
<1>9. ASSUME Feeds PROVE QualifierPassed'
  BY <1>9 DEF Feeds, GoTo, Raises, Spend, Kept, RunKept, QualifierPassed, QualifierPlace,
    QualifierWorker
<1>10. ASSUME Result PROVE QualifierPassed'
  <2> DEFINE Records == [case : Nat, second : Words2, exit : Exits]
           row == [case |-> at.case, second |-> worker.second, exit |-> worker.exit]
  <2>1. passed' = passed \/ passed' = Append(passed, row)
    BY <1>10, ResultMoves DEF Record
  <2>2. row \in Records
    BY PlaceTyped DEF QualifierWorker
  <2>3. passed \in Seq(Records)
    BY DEF QualifierPassed
  <2> HIDE DEF Records, row
  <2>4. passed' \in Seq(Records)
    BY <2>1, <2>2, <2>3
  <2> QED
    BY <2>4 DEF QualifierPassed, Records
<1>11. ASSUME Retires PROVE QualifierPassed'
  BY <1>11 DEF Retires, GoTo, Raises, Spend, Kept, RunKept, QualifierPassed, QualifierPlace,
    QualifierWorker
<1>12. ASSUME CaseFinally PROVE QualifierPassed'
  BY <1>12 DEF CaseFinally, Killed, AfterRaise, GoTo, Spend, QualifierPassed, QualifierPlace,
    QualifierWorker
<1>13. ASSUME RunFinally PROVE QualifierPassed'
  BY <1>13 DEF RunFinally, Killed, AfterRaise, GoTo, Spend, QualifierPassed, QualifierPlace,
    QualifierWorker
<1>14. ASSUME ReportIsWritten PROVE QualifierPassed'
  BY <1>14 DEF ReportIsWritten, GoTo, Spend, QualifierPassed, QualifierPlace, QualifierWorker
<1>15. ASSUME UNCHANGED qualifierVars PROVE QualifierPassed'
  BY <1>15 DEF qualifierVars, QualifierPassed, QualifierPlace, QualifierWorker
<1> QED
  BY <1>1, <1>2, <1>3, <1>4, <1>5, <1>6, <1>7, <1>8, <1>9, <1>10, <1>11, <1>12, <1>13, <1>14,
    <1>15 DEF QualifierNext

LEMMA QualifierFlagsKept == QualifierIInv /\ [QualifierNext]_qualifierVars => QualifierFlags'
<1> SUFFICES ASSUME QualifierIInv, [QualifierNext]_qualifierVars PROVE QualifierFlags'
  OBVIOUS
<1> USE DEF QualifierIInv
<1>1. ASSUME WorkerActs PROVE QualifierFlags'
  BY <1>1 DEF WorkerActs, Mine, Kept, QualifierFlags
<1>2. ASSUME Edited PROVE QualifierFlags'
  BY <1>2 DEF Edited, QualifierFlags
<1>3. ASSUME Samples PROVE QualifierFlags'
  BY <1>3 DEF Samples, Mine, QualifierFlags
<1>4. ASSUME Started PROVE QualifierFlags'
  BY <1>4 DEF Started, GoTo, QualifierFlags
<1>5. ASSUME Refuses PROVE QualifierFlags'
  BY <1>5 DEF Refuses, GoTo, Kept, RunKept, QualifierFlags
<1>6. ASSUME NextCase PROVE QualifierFlags'
  BY <1>6 DEF NextCase, GoTo, Kept, Silent, QualifierFlags
<1>7. ASSUME Opens PROVE QualifierFlags'
  BY <1>7 DEF Opens, GoTo, Mine, Wanted, Kind, Spend, Kept, RunKept, QualifierFlags
<1>8. ASSUME WorkerReady PROVE QualifierFlags'
  BY <1>8 DEF WorkerReady, GoTo, Raises, Spend, Kept, QualifierFlags
<1>9. ASSUME Feeds PROVE QualifierFlags'
  BY <1>9 DEF Feeds, GoTo, Raises, Spend, Kept, RunKept, QualifierFlags
<1>10. ASSUME Result PROVE QualifierFlags'
  BY <1>10 DEF Result, Record, AsExpected, Kind, GoTo, Raises, Spend, Kept, Sound, QualifierFlags
<1>11. ASSUME Retires PROVE QualifierFlags'
  BY <1>11 DEF Retires, GoTo, Raises, Spend, Kept, RunKept, QualifierFlags
<1>12. ASSUME CaseFinally PROVE QualifierFlags'
  BY <1>12 DEF CaseFinally, Killed, AfterRaise, GoTo, Spend, QualifierFlags
<1>13. ASSUME RunFinally PROVE QualifierFlags'
  BY <1>13 DEF RunFinally, Killed, AfterRaise, GoTo, Spend, QualifierFlags
<1>14. ASSUME ReportIsWritten PROVE QualifierFlags'
  BY <1>14 DEF ReportIsWritten, GoTo, Spend, QualifierFlags
<1>15. ASSUME UNCHANGED qualifierVars PROVE QualifierFlags'
  BY <1>15 DEF qualifierVars, QualifierFlags
<1> QED
  BY <1>1, <1>2, <1>3, <1>4, <1>5, <1>6, <1>7, <1>8, <1>9, <1>10, <1>11, <1>12, <1>13, <1>14,
    <1>15 DEF QualifierNext

LEMMA QualifierOwnsKept == QualifierIInv /\ [QualifierNext]_qualifierVars => QualifierOwns'
<1> SUFFICES ASSUME QualifierIInv, [QualifierNext]_qualifierVars PROVE QualifierOwns'
  OBVIOUS
<1> USE DEF QualifierIInv
<1>1. ASSUME WorkerActs PROVE QualifierOwns'
  BY <1>1 DEF WorkerActs, Mine, Kept, QualifierPlace, CaseSteps, RunSteps, QualifierOwns, Slots,
    QualifierRaises
<1>2. ASSUME Edited PROVE QualifierOwns'
  BY <1>2 DEF Edited, QualifierPlace, CaseSteps, RunSteps, QualifierOwns, Slots, QualifierRaises
<1>3. ASSUME Samples PROVE QualifierOwns'
  BY <1>3 DEF Samples, Mine, QualifierPlace, CaseSteps, RunSteps, QualifierOwns, Slots,
    QualifierRaises
<1>4. ASSUME Started PROVE QualifierOwns'
  BY <1>4 DEF Started, GoTo, QualifierPlace, CaseSteps, RunSteps, QualifierOwns, Slots,
    QualifierRaises
<1>5. ASSUME Refuses PROVE QualifierOwns'
  BY <1>5 DEF Refuses, GoTo, Kept, RunKept, QualifierPlace, CaseSteps, RunSteps, QualifierOwns,
    Slots, QualifierRaises
<1>6. ASSUME NextCase PROVE QualifierOwns'
  BY <1>6, NextCaseMoves DEF QualifierOwns, CaseSteps, QualifierFlags
<1>7. ASSUME Opens PROVE QualifierOwns'
  <2>1. \A slot \in owned' : slot[1] = at.case
    <3>1. ASSUME NEW what PROVE <<at.case, what>>[1] = at.case
      OBVIOUS
    <3>2. \A slot \in owned : slot[1] = at.case
      BY DEF QualifierOwns
    <3> QED
      BY <1>7, <3>1, <3>2, OpensOwns
  <2> QED
    BY <1>7, <2>1, OpensMoves DEF QualifierOwns, CaseSteps
<1>8. ASSUME WorkerReady PROVE QualifierOwns'
  BY <1>8 DEF WorkerReady, GoTo, Raises, Spend, Kept, QualifierPlace, CaseSteps, RunSteps,
    QualifierOwns, Slots, QualifierRaises
<1>9. ASSUME Feeds PROVE QualifierOwns'
  BY <1>9 DEF Feeds, GoTo, Raises, Spend, Kept, RunKept, QualifierPlace, CaseSteps, RunSteps,
    QualifierOwns, Slots, QualifierRaises
<1>10. ASSUME Result PROVE QualifierOwns'
  BY <1>10 DEF Result, Record, AsExpected, Kind, GoTo, Raises, Spend, Kept, Sound, QualifierPlace,
    CaseSteps, RunSteps, QualifierOwns, Slots, QualifierRaises
<1>11. ASSUME Retires PROVE QualifierOwns'
  BY <1>11 DEF Retires, GoTo, Raises, Spend, Kept, RunKept, QualifierPlace, CaseSteps, RunSteps,
    QualifierOwns, Slots, QualifierRaises
<1>12. ASSUME CaseFinally PROVE QualifierOwns'
  <2>1. \A slot \in owned : slot[1] = at.case /\ slot[2] \in {"room", "voice", "worker"}
    BY PlaceTyped DEF QualifierOwns, Slots
  <2>2. owned' \subseteq owned /\ (at'.step = "next" => owned' = {})
    <3> DEFINE slots(what) == {slot \in owned : slot[1] = at.case /\ slot[2] \in what}
    <3>1. slots({"room", "voice", "worker"}) = owned
      BY <2>1
    <3>2. \/ owned' = owned \ slots({"room", "voice", "worker"})
          \/ /\ GoTo("put away")
             /\ \E left \in AfterRaise :
                  owned' = (owned \ slots({"room", "voice", "worker"})) \cup slots(left)
      BY <1>12, Zenon DEF CaseFinally
    <3>3. ASSUME GoTo("put away") PROVE at'.step # "next"
      <4>1. QualifierPlace
        OBVIOUS
      <4>2. at'.step = "put away"
        BY <3>3, <4>1, GoesTo
      <4> QED
        BY <4>2
    <3>4. \A left : slots(left) \subseteq owned
      OBVIOUS
    <3> HIDE DEF slots
    <3> QED
      BY <3>1, <3>2, <3>3, <3>4
  <2>3. at'.step \in {"put away", "next"} /\ at'.case = at.case /\ (lease' <=> lease)
    BY <1>12, CaseFinallyMoves
  <2>4. lease
    BY <1>12, CaseFinallyMoves DEF QualifierOwns, CaseSteps
  <2> QED
    BY <2>1, <2>2, <2>3, <2>4 DEF QualifierOwns, CaseSteps
<1>13. ASSUME RunFinally PROVE QualifierOwns'
  BY <1>13 DEF RunFinally, Killed, AfterRaise, GoTo, Spend, QualifierPlace, CaseSteps, RunSteps,
    QualifierOwns, Slots, QualifierRaises
<1>14. ASSUME ReportIsWritten PROVE QualifierOwns'
  BY <1>14 DEF ReportIsWritten, GoTo, Spend, QualifierPlace, CaseSteps, RunSteps, QualifierOwns,
    Slots, QualifierRaises
<1>15. ASSUME UNCHANGED qualifierVars PROVE QualifierOwns'
  BY <1>15 DEF qualifierVars, QualifierPlace, CaseSteps, RunSteps, QualifierOwns, Slots,
    QualifierRaises
<1> QED
  BY <1>1, <1>2, <1>3, <1>4, <1>5, <1>6, <1>7, <1>8, <1>9, <1>10, <1>11, <1>12, <1>13, <1>14,
    <1>15 DEF QualifierNext

LEMMA QualifierRaisesKept == QualifierIInv /\ [QualifierNext]_qualifierVars => QualifierRaises'
<1> SUFFICES ASSUME QualifierIInv, [QualifierNext]_qualifierVars PROVE QualifierRaises'
  OBVIOUS
<1> USE DEF QualifierIInv
<1>1. ASSUME WorkerActs PROVE QualifierRaises'
  BY <1>1 DEF WorkerActs, Mine, Kept, QualifierPlace, CaseSteps, RunSteps, QualifierFlags,
    QualifierRaises
<1>2. ASSUME Edited PROVE QualifierRaises'
  BY <1>2 DEF Edited, QualifierPlace, CaseSteps, RunSteps, QualifierFlags, QualifierRaises
<1>3. ASSUME Samples PROVE QualifierRaises'
  BY <1>3 DEF Samples, Mine, QualifierPlace, CaseSteps, RunSteps, QualifierFlags, QualifierRaises
<1>4. ASSUME Started PROVE QualifierRaises'
  BY <1>4 DEF Started, GoTo, QualifierPlace, CaseSteps, RunSteps, QualifierFlags, QualifierRaises
<1>5. ASSUME Refuses PROVE QualifierRaises'
  BY <1>5 DEF Refuses, GoTo, Kept, RunKept, QualifierPlace, CaseSteps, RunSteps, QualifierFlags,
    QualifierRaises
<1>6. ASSUME NextCase PROVE QualifierRaises'
  BY <1>6, NextCaseMoves DEF QualifierFlags, QualifierRaises
<1>7. ASSUME Opens PROVE QualifierRaises'
  BY <1>7, OpensMoves DEF QualifierFlags, QualifierRaises
<1>8. ASSUME WorkerReady PROVE QualifierRaises'
  BY <1>8, WorkerReadyMoves DEF QualifierFlags, QualifierRaises
<1>9. ASSUME Feeds PROVE QualifierRaises'
  BY <1>9, FeedsMoves DEF QualifierFlags, QualifierRaises
<1>10. ASSUME Result PROVE QualifierRaises'
  BY <1>10, ResultMoves DEF QualifierFlags, QualifierRaises
<1>11. ASSUME Retires PROVE QualifierRaises'
  BY <1>11 DEF Retires, GoTo, Raises, Spend, Kept, RunKept, QualifierPlace, CaseSteps, RunSteps,
    QualifierFlags, QualifierRaises
<1>12. ASSUME CaseFinally PROVE QualifierRaises'
  BY <1>12, CaseFinallyMoves DEF QualifierFlags, QualifierRaises
<1>13. ASSUME RunFinally PROVE QualifierRaises'
  BY <1>13, RunFinallyMoves DEF QualifierFlags, QualifierRaises
<1>14. ASSUME ReportIsWritten PROVE QualifierRaises'
  BY <1>14, ReportIsWrittenMoves DEF QualifierFlags, QualifierRaises
<1>15. ASSUME UNCHANGED qualifierVars PROVE QualifierRaises'
  BY <1>15 DEF qualifierVars, QualifierPlace, CaseSteps, RunSteps, QualifierFlags, QualifierRaises
<1> QED
  BY <1>1, <1>2, <1>3, <1>4, <1>5, <1>6, <1>7, <1>8, <1>9, <1>10, <1>11, <1>12, <1>13, <1>14,
    <1>15 DEF QualifierNext

LEMMA QualifierSoundKept == QualifierIInv /\ [QualifierNext]_qualifierVars => QualifierSound'
<1> SUFFICES ASSUME QualifierIInv, [QualifierNext]_qualifierVars PROVE QualifierSound'
  OBVIOUS
<1> USE DEF QualifierIInv
<1>1. ASSUME WorkerActs PROVE QualifierSound'
  BY <1>1 DEF WorkerActs, Mine, Kept, QualifierSound
<1>2. ASSUME Edited PROVE QualifierSound'
  BY <1>2 DEF Edited, QualifierSound
<1>3. ASSUME Samples PROVE QualifierSound'
  BY <1>3 DEF Samples, Mine, QualifierSound
<1>4. ASSUME Started PROVE QualifierSound'
  BY <1>4 DEF Started, GoTo, QualifierSound
<1>5. ASSUME Refuses PROVE QualifierSound'
  BY <1>5 DEF Refuses, GoTo, Kept, RunKept, QualifierSound
<1>6. ASSUME NextCase PROVE QualifierSound'
  <2>1. passed' = passed /\ cases' = cases
    BY <1>6, NextCaseMoves
  <2> QED
    BY <2>1 DEF QualifierSound
<1>7. ASSUME Opens PROVE QualifierSound'
  <2>1. passed' = passed /\ cases' = cases
    BY <1>7, OpensMoves
  <2> QED
    BY <2>1 DEF QualifierSound
<1>8. ASSUME WorkerReady PROVE QualifierSound'
  <2>1. passed' = passed /\ cases' = cases
    BY <1>8, WorkerReadyMoves
  <2> QED
    BY <2>1 DEF QualifierSound
<1>9. ASSUME Feeds PROVE QualifierSound'
  <2>1. passed' = passed /\ cases' = cases
    BY <1>9, FeedsMoves
  <2> QED
    BY <2>1 DEF QualifierSound
<1>10. ASSUME Result PROVE QualifierSound'
  <2>1. cases' = cases
    BY <1>10, ResultMoves
  <2>2. CASE passed' = passed
    BY <2>1, <2>2 DEF QualifierSound
  <2>3. ASSUME AsExpected, Record PROVE QualifierSound'
    <3> DEFINE row == [case |-> at.case, second |-> worker.second, exit |-> worker.exit]
    <3>1. /\ passed' = Append(passed, row)
          /\ Sound(cases[at.case], row.second, row.exit) /\ row.case = at.case
      BY <2>3 DEF Record, AsExpected, Kind, Sound
    <3>2. at.step = "result" /\ Len(passed) = at.case - 1 /\ at.case >= 1
      BY <1>10, ResultMoves DEF QualifierRecords, CaseSteps
    <3>3. at.case \in DOMAIN cases /\ Len(passed) + 1 = at.case
      BY <3>2, PlaceTyped
    <3> HIDE DEF row
    <3>4. passed \in Seq([case : Nat, second : Words2, exit : Exits])
      BY DEF QualifierPassed
    <3>5. \A c \in DOMAIN passed' : \/ c \in DOMAIN passed /\ passed'[c] = passed[c]
                                    \/ c = at.case /\ passed'[c] = row
      BY <3>1, <3>3, <3>4
    <3> QED
      BY <2>1, <3>1, <3>3, <3>5 DEF QualifierSound
  <2> QED
    BY <1>10, <2>2, <2>3, ResultMoves
<1>11. ASSUME Retires PROVE QualifierSound'
  BY <1>11 DEF Retires, GoTo, Raises, Spend, Kept, RunKept, QualifierSound
<1>12. ASSUME CaseFinally PROVE QualifierSound'
  <2>1. passed' = passed /\ cases' = cases
    BY <1>12, CaseFinallyMoves
  <2> QED
    BY <2>1 DEF QualifierSound
<1>13. ASSUME RunFinally PROVE QualifierSound'
  <2>1. passed' = passed /\ cases' = cases
    BY <1>13, RunFinallyMoves
  <2> QED
    BY <2>1 DEF QualifierSound
<1>14. ASSUME ReportIsWritten PROVE QualifierSound'
  <2>1. passed' = passed /\ cases' = cases
    BY <1>14, ReportIsWrittenMoves
  <2> QED
    BY <2>1 DEF QualifierSound
<1>15. ASSUME UNCHANGED qualifierVars PROVE QualifierSound'
  BY <1>15 DEF qualifierVars, QualifierSound
<1> QED
  BY <1>1, <1>2, <1>3, <1>4, <1>5, <1>6, <1>7, <1>8, <1>9, <1>10, <1>11, <1>12, <1>13, <1>14,
    <1>15 DEF QualifierNext

LEMMA QualifierRecordsKept == QualifierIInv /\ [QualifierNext]_qualifierVars => QualifierRecords'
<1> SUFFICES ASSUME QualifierIInv, [QualifierNext]_qualifierVars PROVE QualifierRecords'
  OBVIOUS
<1> USE DEF QualifierIInv
<1>1. ASSUME WorkerActs PROVE QualifierRecords'
  BY <1>1 DEF WorkerActs, Mine, Kept, QualifierPlace, CaseSteps, RunSteps, QualifierPassed,
    QualifierWorker, QualifierRecords, QualifierRaises, QualifierOwns, FreshTracks, IsLive
<1>2. ASSUME Edited PROVE QualifierRecords'
  BY <1>2 DEF Edited, QualifierPlace, CaseSteps, RunSteps, QualifierPassed, QualifierWorker,
    QualifierRecords, QualifierRaises, QualifierOwns, FreshTracks, IsLive
<1>3. ASSUME Samples PROVE QualifierRecords'
  BY <1>3 DEF Samples, Mine, QualifierPlace, CaseSteps, RunSteps, QualifierPassed,
    QualifierWorker, QualifierRecords, QualifierRaises, QualifierOwns, FreshTracks, IsLive
<1>4. ASSUME Started PROVE QualifierRecords'
  BY <1>4 DEF Started, GoTo, QualifierPlace, CaseSteps, RunSteps, QualifierPassed,
    QualifierWorker, QualifierRecords, QualifierRaises, QualifierOwns, FreshTracks, IsLive
<1>5. ASSUME Refuses PROVE QualifierRecords'
  BY <1>5 DEF Refuses, GoTo, Kept, RunKept, QualifierPlace, CaseSteps, RunSteps, QualifierPassed,
    QualifierWorker, QualifierRecords, QualifierRaises, QualifierOwns, FreshTracks, IsLive
<1>6. ASSUME NextCase PROVE QualifierRecords'
  <2>1. ~report /\ ~report'
    BY <1>6, NextCaseMoves DEF QualifierRaises
  <2>2. Len(passed) = at.case /\ Len(bindings) = at.case
    BY <1>6, NextCaseMoves DEF QualifierRecords, QualifierRaises, CaseSteps
  <2>3. cases' = cases /\ passed' = passed /\ bindings' = bindings
    BY <1>6, NextCaseMoves
  <2>4. ASSUME at'.case = at.case, at'.step = "put away", at.case = Len(cases)
        PROVE QualifierRecords'
    <3>1. Len(passed') = at'.case /\ Len(bindings') = at'.case /\ at'.case = Len(cases')
      BY <2>2, <2>3, <2>4
    <3> QED
      BY <2>1, <2>4, <3>1 DEF QualifierRecords, CaseSteps
  <2>5. ASSUME at'.case = at.case + 1, at'.step = "opening" PROVE QualifierRecords'
    <3>1. Len(passed') = at'.case - 1 /\ Len(bindings') = at'.case - 1 /\ at'.case >= 1
      <4>1. at.case \in Nat
        BY PlaceTyped
      <4>2. at'.case - 1 = at.case /\ at'.case >= 1
        BY <2>5, <4>1
      <4> QED
        BY <2>2, <2>3, <4>2
    <3> QED
      BY <2>1, <2>5, <3>1 DEF QualifierRecords, CaseSteps
  <2> QED
    BY <1>6, <2>4, <2>5, NextCaseMoves
<1>7. ASSUME Opens PROVE QualifierRecords'
  <2>1. ~report /\ ~report'
    BY <1>7, OpensMoves DEF QualifierRaises
  <2> QED
    BY <1>7, <2>1, OpensMoves, PlaceTyped DEF QualifierRecords, QualifierRaises, CaseSteps
<1>8. ASSUME WorkerReady PROVE QualifierRecords'
  <2>1. ~report /\ ~report'
    BY <1>8, WorkerReadyMoves DEF QualifierRaises
  <2>2. at.case >= 1 /\ Len(passed) = at.case - 1 /\ Len(bindings) = at.case - 1
    BY <1>8, WorkerReadyMoves DEF QualifierRecords, QualifierRaises, CaseSteps
  <2>5. bindings' = Append(bindings, publication) => Len(bindings') = Len(bindings) + 1
    BY DEF QualifierWorker
  <2>3. at'.case = at.case /\ cases' = cases /\ passed' = passed
    BY <1>8, WorkerReadyMoves
  <2>4. /\ at.case \in Nat /\ at.case <= Len(cases) /\ Len(cases) \in Nat
        /\ Len(passed) \in Nat /\ Len(bindings) \in Nat
    BY PlaceTyped DEF QualifierPassed, QualifierWorker
  <2>6. ASSUME at'.step = "feeding", bindings' = Append(bindings, publication)
        PROVE QualifierRecords'
    <3>1. Len(passed') = at'.case - 1 /\ Len(bindings') = at'.case /\ at'.case >= 1
      BY <2>2, <2>3, <2>4, <2>5, <2>6
    <3>2. at'.step = "feeding"
      BY <2>6
    <3> QED
      BY <2>1, <3>1, <3>2 DEF QualifierRecords, CaseSteps
  <2>7. ASSUME at'.step = "finally", raising' PROVE QualifierRecords'
    BY <2>1, <2>2, <2>3, <2>4, <2>7 DEF QualifierRecords, CaseSteps
  <2> QED
    BY <1>8, <2>6, <2>7, WorkerReadyMoves
<1>9. ASSUME Feeds PROVE QualifierRecords'
  <2>1. ~report /\ ~report'
    BY <1>9, FeedsMoves DEF QualifierRaises
  <2> QED
    BY <1>9, <2>1, FeedsMoves, PlaceTyped DEF QualifierRecords, QualifierRaises, CaseSteps
<1>10. ASSUME Result PROVE QualifierRecords'
  <2>1. ~report /\ ~report'
    BY <1>10, ResultMoves DEF QualifierRaises
  <2>2. at.case >= 1 /\ Len(passed) = at.case - 1 /\ Len(bindings) = at.case /\ ~raising
    BY <1>10, ResultMoves DEF QualifierRecords, QualifierRaises, CaseSteps
  <2>5. Record => Len(passed') = Len(passed) + 1
    BY DEF QualifierPassed, Record
  <2>3. at'.case = at.case /\ cases' = cases /\ bindings' = bindings
    BY <1>10, ResultMoves
  <2>4. /\ at.case \in Nat /\ at.case <= Len(cases) /\ Len(cases) \in Nat
        /\ Len(passed) \in Nat /\ Len(bindings) \in Nat
    BY PlaceTyped DEF QualifierPassed, QualifierWorker
  <2>6. ASSUME at'.step = "retire", Record PROVE QualifierRecords'
    <3>1. Len(passed') = at'.case /\ Len(bindings') = at'.case /\ at'.case >= 1
      BY <2>2, <2>3, <2>4, <2>5, <2>6
    <3>2. at'.step = "retire"
      BY <2>6
    <3> QED
      BY <2>1, <3>1, <3>2 DEF QualifierRecords, CaseSteps
  <2>7. ASSUME at'.step = "finally", raising' PROVE QualifierRecords'
    BY <2>1, <2>2, <2>3, <2>4, <2>7 DEF QualifierRecords, CaseSteps
  <2> QED
    BY <1>10, <2>6, <2>7, ResultMoves
<1>11. ASSUME Retires PROVE QualifierRecords'
  BY <1>11 DEF Retires, GoTo, Raises, Spend, Kept, RunKept, QualifierPlace, CaseSteps, RunSteps,
    QualifierPassed, QualifierWorker, QualifierRecords, QualifierRaises, QualifierOwns,
    FreshTracks, IsLive
<1>12. ASSUME CaseFinally PROVE QualifierRecords'
  <2>1. ~report /\ ~report'
    BY <1>12, CaseFinallyMoves DEF QualifierRaises
  <2> QED
    BY <1>12, <2>1, CaseFinallyMoves, PlaceTyped DEF QualifierRecords, QualifierRaises, CaseSteps
<1>13. ASSUME RunFinally PROVE QualifierRecords'
  BY <1>13 DEF RunFinally, Killed, AfterRaise, GoTo, Spend, QualifierPlace, CaseSteps, RunSteps,
    QualifierPassed, QualifierWorker, QualifierRecords, QualifierRaises, QualifierOwns,
    FreshTracks, IsLive
<1>14. ASSUME ReportIsWritten PROVE QualifierRecords'
  <2>1. ~report /\ at.step = "judge" /\ at'.step = "gone" /\ at'.case = at.case
    BY <1>14, ReportIsWrittenMoves DEF QualifierRaises
  <2>2. /\ cases' = cases /\ passed' = passed /\ bindings' = bindings /\ owned' = owned
        /\ (lease' <=> lease) /\ (together' <=> together)
    BY <1>14, ReportIsWrittenMoves
  <2>3. ~lease /\ owned = {} /\ ~raising
    BY <2>1 DEF QualifierOwns, QualifierRaises
  <2>4. report' => FreshTracks /\ (IsLive => together)
    BY <1>14, <2>1, ReportIsWrittenMoves
  <2>5. (FreshTracks' <=> FreshTracks) /\ (IsLive' <=> IsLive)
    BY <2>2 DEF FreshTracks, IsLive
  <2> QED
    BY <2>1, <2>2, <2>3, <2>4, <2>5 DEF QualifierRecords, CaseSteps
<1>15. ASSUME UNCHANGED qualifierVars PROVE QualifierRecords'
  BY <1>15 DEF qualifierVars, QualifierPlace, CaseSteps, RunSteps, QualifierPassed,
    QualifierWorker, QualifierRecords, QualifierRaises, QualifierOwns, FreshTracks, IsLive
<1> QED
  BY <1>1, <1>2, <1>3, <1>4, <1>5, <1>6, <1>7, <1>8, <1>9, <1>10, <1>11, <1>12, <1>13, <1>14,
    <1>15 DEF QualifierNext

\* However the worker behaves and wherever a call raises: nothing of a case is owned beyond it,
\* no process and no lease is left unless a close has itself raised, and a report is written
\* only of a run in which every case was recorded as what it should be, on tracks of its own.
THEOREM RunSafe == QualifierSpec => []RunIsOwned
<1>1. QualifierIInv /\ [QualifierNext]_qualifierVars => QualifierIInv'
  BY QualifierPlaceKept, QualifierWorkerKept, QualifierPassedKept, QualifierFlagsKept,
    QualifierOwnsKept, QualifierRaisesKept, QualifierSoundKept, QualifierRecordsKept DEF
    QualifierIInv
<1>2. QualifierIInv => RunIsOwned
  <2> SUFFICES ASSUME QualifierIInv PROVE RunIsOwned
    OBVIOUS
  <2>1. /\ QualifierPlace /\ QualifierFlags /\ QualifierPassed /\ QualifierWorker
        /\ QualifierOwns /\ QualifierRaises /\ QualifierSound /\ QualifierRecords
    BY DEF QualifierIInv
  <2>2. \A slot \in owned : slot[1] = at.case
    BY <2>1 DEF QualifierOwns
  <2>3. at.step = "gone" =>
          /\ \A slot \in owned : slot[2] # "worker"
          /\ (owned # {} \/ lease \/ hooked => unclosed /\ raising)
          /\ report = ~raising
    <3>1. at.step = "gone" => /\ \A slot \in owned : slot[2] # "worker"
                              /\ (owned # {} \/ lease \/ hooked => unclosed /\ raising)
      BY <2>1 DEF QualifierOwns, QualifierRaises
    <3>2. at.step = "gone" => report = ~raising
      BY <2>1, Zenon DEF QualifierRaises, QualifierFlags
    <3> QED
      BY <3>1, <3>2
  <2>4. ASSUME report
        PROVE  /\ Len(passed) = Len(cases) /\ ~lease /\ owned = {}
               /\ Len(bindings) = Len(cases) /\ FreshTracks /\ (IsLive => together)
    BY <2>1, <2>4 DEF QualifierRaises, QualifierRecords
  <2>5. DOMAIN passed = 1..Len(passed) /\ DOMAIN bindings = 1..Len(bindings)
          /\ DOMAIN cases = 1..Len(cases)
    BY <2>1 DEF QualifierPassed, QualifierWorker, QualifierPlace
  <2>6. ASSUME report, NEW c \in DOMAIN passed
        PROVE  passed[c].case = c /\ \A d \in DOMAIN passed : c # d => bindings[c] # bindings[d]
    BY <2>1, <2>4, <2>5, <2>6 DEF FreshTracks, QualifierSound
  <2>7. ASSUME report, NEW c \in DOMAIN cases
        PROVE  CASE cases[c] = "malformed" -> passed[c].second = "error" /\ passed[c].exit = "one"
                 [] cases[c] = "flood" -> passed[c].exit = "zero"
                 [] OTHER -> passed[c].second = "eof" /\ (cases[c] = "live" => together)
    <3>1. c \in DOMAIN passed /\ (cases[c] = "live" => together)
      BY <2>4, <2>5, <2>7 DEF IsLive
    <3>2. Sound(cases[c], passed[c].second, passed[c].exit)
      BY <2>1, <3>1 DEF QualifierSound
    <3> QED
      BY <3>1, <3>2 DEF Sound
  <2>8. owned # {} => lease
    BY <2>1 DEF QualifierOwns
  <2> QED
    BY <2>2, <2>3, <2>4, <2>6, <2>7, <2>8 DEF RunIsOwned
<1> QED
  BY QualifierBegins, <1>1, <1>2, PTL DEF QualifierSpec

-----------------------------------------------------------------------------
(* The matrices and the groups of processes they own.                      *)

Runners == {"receiver", "publisher", "rate", "lifecycle", "soak", "inbound"}
Codes == {"none", "zero", "one", "timeout", "descendants"}
Tellings == {"none", "same", "changed"}

\* Every variable has its type: where the runner stands, the processes, the fence, the books.
OwnedPlace ==
  /\ runner \in Runners /\ phase \in Inside \cup {"next", "row", "judge", "gone"}
OwnedGroup ==
  /\ leader \in {"none", "live", "zero", "one", "reaped"}
  /\ started \in Nat /\ others \subseteq 1..started
OwnedSearch ==
  names \subseteq Nat /\ listedTo \in 0..started /\ goal \in {"exit", "timeout", "raise"}
OwnedFlags ==
  /\ killed \in BOOLEAN /\ found \in BOOLEAN /\ changed \in BOOLEAN /\ raised \in BOOLEAN
  /\ cutShort \in BOOLEAN
OwnedBook ==
  /\ code \in Codes /\ told \in Tellings /\ concluded \in {"none", "completed", "failed"}
  /\ rows \in Seq([code : Codes, valid : BOOLEAN, told : Tellings])

\* What is left of a case that is let go: nobody, or somebody nobody has seen.
LetGo == \A p \in others : p > listedTo /\ ~killed

\* The leader is there until the group is let go, and what a fence has still to find it
\* finds: whoever it has not read yet is among the names, or has come after them.
OwnedFence ==
  /\ phase \in Inside => leader \in {"live", "zero", "one"}
  /\ phase \notin Inside /\ ~(phase = "gone" /\ cutShort) => leader \in {"none", "reaped"} /\ LetGo
  /\ phase = "waiting" => ~killed /\ goal = "exit"
  /\ phase \in Inside \ {"waiting"} => runner # "inbound"
  /\ runner = "inbound" => others = {} /\ ~killed
  /\ phase = "scan" => /\ ~found => \A p \in Live : p \in names \/ p > listedTo
                       /\ killed => listedTo = started
  /\ phase \in {"list again", "scan again"} => killed
  /\ phase = "scan again" /\ ~found => Live \subseteq names
  /\ phase = "reap" => leader # "live" /\ LetGo
  /\ phase = "row" /\ code = "zero" => ~killed /\ goal = "exit"

\* What the runner makes of it.
OwnedRows ==
  /\ goal = "raise" /\ phase \in Inside => raised
  /\ concluded # "none" => phase = "gone"
  /\ phase = "gone" /\ ~raised => concluded # "none"
  /\ \A i \in DOMAIN rows : rows[i].valid =>
       rows[i].code = "zero" /\ (runner \notin {"inbound", "soak"} => rows[i].told = "same")
  /\ concluded = "completed" => /\ Len(rows) = RowsOf /\ \A i \in DOMAIN rows : rows[i].valid
                                /\ runner # "inbound" => ~changed

OwnedIInv ==
  /\ OwnedPlace /\ OwnedGroup /\ OwnedSearch /\ OwnedFlags /\ OwnedBook
  /\ OwnedFence /\ OwnedRows

-----------------------------------------------------------------------------
\* A case adds a row to the books, or none.
LEMMA RowsAreTaken ==
  TakesRow => /\ UNCHANGED <<code, told, concluded>>
              /\ \/ UNCHANGED rows
                 \/ \E valid \in BOOLEAN :
                      rows' = Append(rows, [code |-> code, valid |-> valid, told |-> told])
<1> SUFFICES ASSUME TakesRow
    PROVE \/ UNCHANGED rows
          \/ \E valid \in BOOLEAN :
               rows' = Append(rows, [code |-> code, valid |-> valid, told |-> told])
  BY DEF TakesRow
<1>1. (code = "zero" /\ told = "same") \in BOOLEAN /\ (code = "zero" /\ told # "none") \in BOOLEAN
      /\ (code = "zero" /\ told = "same" /\ ~changed) \in BOOLEAN
  BY Zenon
<1> QED
  BY <1>1 DEF TakesRow, ReceiverRow, PublisherRow, RateRow, LifecycleRow, InboundRow, SoakRow, Noted

\* The initial states satisfy the invariant.
LEMMA OwnedBegins == OwnedInit => OwnedIInv
<1> SUFFICES ASSUME OwnedInit PROVE OwnedIInv
  OBVIOUS
<1>1. OwnedPlace /\ OwnedGroup /\ OwnedFlags
  BY DEF OwnedInit, OwnedPlace, OwnedGroup, OwnedFlags, Runners, Inside
<1>2. OwnedSearch /\ OwnedBook
  BY DEF OwnedInit, OwnedSearch, OwnedBook, Codes, Tellings
<1>3. OwnedFence
  BY DEF OwnedInit, OwnedFence, LetGo, Live, Inside
<1>4. OwnedRows
  BY DEF OwnedInit, OwnedRows, Inside
<1> QED
  BY <1>1, <1>2, <1>3, <1>4 DEF OwnedIInv

\* Every step keeps every part of it: one lemma per part, one step per action.
LEMMA OwnedPlaceKept == OwnedIInv /\ [OwnedNext]_ownedVars => OwnedPlace'
<1> SUFFICES ASSUME OwnedIInv, [OwnedNext]_ownedVars PROVE OwnedPlace'
  OBVIOUS
<1> USE DEF OwnedIInv
<1>1. ASSUME Starts PROVE OwnedPlace'
  BY <1>1 DEF Starts, Live, caseVars, fenceVars, bookVars, OwnedPlace, Inside
<1>2. ASSUME ProcessEnds PROVE OwnedPlace'
  BY <1>2 DEF ProcessEnds, caseVars, fenceVars, bookVars, OwnedPlace, Inside
<1>3. ASSUME Tells PROVE OwnedPlace'
  BY <1>3 DEF Tells, caseVars, fenceVars, bookVars, OwnedPlace, Inside
<1>4. ASSUME FileChanges PROVE OwnedPlace'
  BY <1>4 DEF FileChanges, caseVars, fenceVars, bookVars, OwnedPlace, Inside
<1>5. ASSUME StartsCase PROVE OwnedPlace'
  BY <1>5 DEF StartsCase, Onward, RowsOf, caseVars, fenceVars, bookVars, OwnedPlace, Inside
<1>6. ASSUME Waits PROVE OwnedPlace'
  BY <1>6 DEF Waits, Onward, StopSpent, caseVars, fenceVars, bookVars, OwnedPlace, Inside
<1>7. ASSUME Lists PROVE OwnedPlace'
  BY <1>7 DEF Lists, Onward, caseVars, fenceVars, bookVars, OwnedPlace, Inside
<1>8. ASSUME Reads PROVE OwnedPlace'
  BY <1>8 DEF Reads, Live, caseVars, fenceVars, bookVars, OwnedPlace, Inside
<1>9. ASSUME Scanned PROVE OwnedPlace'
  BY <1>9 DEF Scanned, Onward, caseVars, fenceVars, bookVars, OwnedPlace, Inside
<1>10. ASSUME Terminates PROVE OwnedPlace'
  BY <1>10 DEF Terminates, Onward, caseVars, fenceVars, bookVars, OwnedPlace, Inside
<1>11. ASSUME Kills PROVE OwnedPlace'
  BY <1>11 DEF Kills, Onward, caseVars, fenceVars, bookVars, OwnedPlace, Inside
<1>12. ASSUME ScannedAgain PROVE OwnedPlace'
  BY <1>12 DEF ScannedAgain, Onward, caseVars, fenceVars, bookVars, OwnedPlace, Inside
<1>13. ASSUME Reaps PROVE OwnedPlace'
  BY <1>13 DEF Reaps, Onward, caseVars, fenceVars, bookVars, OwnedPlace, Inside
<1>14. ASSUME Interrupted PROVE OwnedPlace'
  BY <1>14 DEF Interrupted, Onward, StopSpent, caseVars, fenceVars, bookVars, OwnedPlace, Inside
<1>15. ASSUME InboundWaits PROVE OwnedPlace'
  BY <1>15 DEF InboundWaits, Onward, StopSpent, caseVars, fenceVars, bookVars, OwnedPlace, Inside
<1>16. ASSUME TakesRow PROVE OwnedPlace'
  BY <1>16 DEF TakesRow, ReceiverRow, PublisherRow, RateRow, LifecycleRow, InboundRow, SoakRow,
    Noted, Onward, caseVars, fenceVars, bookVars, OwnedPlace, Inside
<1>17. ASSUME AllTaken PROVE OwnedPlace'
  BY <1>17 DEF AllTaken, Onward, RowsOf, caseVars, fenceVars, bookVars, OwnedPlace, Inside
<1>18. ASSUME Concludes PROVE OwnedPlace'
  BY <1>18 DEF Concludes, Onward, caseVars, fenceVars, bookVars, OwnedPlace, Inside
<1>19. ASSUME FailsBetween PROVE OwnedPlace'
  BY <1>19 DEF FailsBetween, Onward, StopSpent, caseVars, fenceVars, bookVars, OwnedPlace, Inside
<1>20. ASSUME UNCHANGED ownedVars PROVE OwnedPlace'
  BY <1>20 DEF ownedVars, caseVars, fenceVars, bookVars, OwnedPlace, Inside
<1> QED
  BY <1>1, <1>2, <1>3, <1>4, <1>5, <1>6, <1>7, <1>8, <1>9, <1>10, <1>11, <1>12, <1>13, <1>14,
    <1>15, <1>16, <1>17, <1>18, <1>19, <1>20 DEF OwnedNext

LEMMA OwnedGroupKept == OwnedIInv /\ [OwnedNext]_ownedVars => OwnedGroup'
<1> SUFFICES ASSUME OwnedIInv, [OwnedNext]_ownedVars PROVE OwnedGroup'
  OBVIOUS
<1> USE DEF OwnedIInv
<1>1. ASSUME Starts PROVE OwnedGroup'
  BY <1>1 DEF Starts, Live, caseVars, fenceVars, bookVars, OwnedGroup
<1>2. ASSUME ProcessEnds PROVE OwnedGroup'
  BY <1>2 DEF ProcessEnds, caseVars, fenceVars, bookVars, OwnedGroup
<1>3. ASSUME Tells PROVE OwnedGroup'
  BY <1>3 DEF Tells, caseVars, fenceVars, bookVars, OwnedGroup
<1>4. ASSUME FileChanges PROVE OwnedGroup'
  BY <1>4 DEF FileChanges, caseVars, fenceVars, bookVars, OwnedGroup
<1>5. ASSUME StartsCase PROVE OwnedGroup'
  BY <1>5 DEF StartsCase, Onward, RowsOf, caseVars, fenceVars, bookVars, OwnedGroup
<1>6. ASSUME Waits PROVE OwnedGroup'
  BY <1>6 DEF Waits, Onward, StopSpent, caseVars, fenceVars, bookVars, OwnedGroup
<1>7. ASSUME Lists PROVE OwnedGroup'
  BY <1>7 DEF Lists, Onward, caseVars, fenceVars, bookVars, OwnedGroup
<1>8. ASSUME Reads PROVE OwnedGroup'
  BY <1>8 DEF Reads, Live, caseVars, fenceVars, bookVars, OwnedGroup
<1>9. ASSUME Scanned PROVE OwnedGroup'
  BY <1>9 DEF Scanned, Onward, caseVars, fenceVars, bookVars, OwnedGroup
<1>10. ASSUME Terminates PROVE OwnedGroup'
  BY <1>10 DEF Terminates, Onward, caseVars, fenceVars, bookVars, OwnedGroup
<1>11. ASSUME Kills PROVE OwnedGroup'
  BY <1>11 DEF Kills, Onward, caseVars, fenceVars, bookVars, OwnedGroup
<1>12. ASSUME ScannedAgain PROVE OwnedGroup'
  BY <1>12 DEF ScannedAgain, Onward, caseVars, fenceVars, bookVars, OwnedGroup
<1>13. ASSUME Reaps PROVE OwnedGroup'
  BY <1>13 DEF Reaps, Onward, caseVars, fenceVars, bookVars, OwnedGroup
<1>14. ASSUME Interrupted PROVE OwnedGroup'
  BY <1>14 DEF Interrupted, Onward, StopSpent, caseVars, fenceVars, bookVars, OwnedGroup
<1>15. ASSUME InboundWaits PROVE OwnedGroup'
  BY <1>15 DEF InboundWaits, Onward, StopSpent, caseVars, fenceVars, bookVars, OwnedGroup
<1>16. ASSUME TakesRow PROVE OwnedGroup'
  BY <1>16 DEF TakesRow, ReceiverRow, PublisherRow, RateRow, LifecycleRow, InboundRow, SoakRow,
    Noted, Onward, caseVars, fenceVars, bookVars, OwnedGroup
<1>17. ASSUME AllTaken PROVE OwnedGroup'
  BY <1>17 DEF AllTaken, Onward, RowsOf, caseVars, fenceVars, bookVars, OwnedGroup
<1>18. ASSUME Concludes PROVE OwnedGroup'
  BY <1>18 DEF Concludes, Onward, caseVars, fenceVars, bookVars, OwnedGroup
<1>19. ASSUME FailsBetween PROVE OwnedGroup'
  BY <1>19 DEF FailsBetween, Onward, StopSpent, caseVars, fenceVars, bookVars, OwnedGroup
<1>20. ASSUME UNCHANGED ownedVars PROVE OwnedGroup'
  BY <1>20 DEF ownedVars, caseVars, fenceVars, bookVars, OwnedGroup
<1> QED
  BY <1>1, <1>2, <1>3, <1>4, <1>5, <1>6, <1>7, <1>8, <1>9, <1>10, <1>11, <1>12, <1>13, <1>14,
    <1>15, <1>16, <1>17, <1>18, <1>19, <1>20 DEF OwnedNext

LEMMA OwnedSearchKept == OwnedIInv /\ [OwnedNext]_ownedVars => OwnedSearch'
<1> SUFFICES ASSUME OwnedIInv, [OwnedNext]_ownedVars PROVE OwnedSearch'
  OBVIOUS
<1> USE DEF OwnedIInv
<1>1. ASSUME Starts PROVE OwnedSearch'
  BY <1>1 DEF Starts, Live, caseVars, fenceVars, bookVars, OwnedSearch, OwnedGroup
<1>2. ASSUME ProcessEnds PROVE OwnedSearch'
  BY <1>2 DEF ProcessEnds, caseVars, fenceVars, bookVars, OwnedSearch, OwnedGroup
<1>3. ASSUME Tells PROVE OwnedSearch'
  BY <1>3 DEF Tells, caseVars, fenceVars, bookVars, OwnedSearch, OwnedGroup
<1>4. ASSUME FileChanges PROVE OwnedSearch'
  BY <1>4 DEF FileChanges, caseVars, fenceVars, bookVars, OwnedSearch, OwnedGroup
<1>5. ASSUME StartsCase PROVE OwnedSearch'
  BY <1>5 DEF StartsCase, Onward, RowsOf, caseVars, fenceVars, bookVars, OwnedSearch, OwnedGroup
<1>6. ASSUME Waits PROVE OwnedSearch'
  BY <1>6 DEF Waits, Onward, StopSpent, caseVars, fenceVars, bookVars, OwnedSearch, OwnedGroup
<1>7. ASSUME Lists PROVE OwnedSearch'
  <2>1. others \cup {0} \subseteq Nat /\ started \in 0..started
    BY DEF OwnedGroup
  <2> QED
    BY <1>7, <2>1 DEF Lists, Onward, caseVars, bookVars, OwnedSearch
<1>8. ASSUME Reads PROVE OwnedSearch'
  BY <1>8 DEF Reads, Live, caseVars, fenceVars, bookVars, OwnedSearch, OwnedGroup
<1>9. ASSUME Scanned PROVE OwnedSearch'
  BY <1>9 DEF Scanned, Onward, caseVars, fenceVars, bookVars, OwnedSearch, OwnedGroup
<1>10. ASSUME Terminates PROVE OwnedSearch'
  BY <1>10 DEF Terminates, Onward, caseVars, fenceVars, bookVars, OwnedSearch, OwnedGroup
<1>11. ASSUME Kills PROVE OwnedSearch'
  BY <1>11 DEF Kills, Onward, caseVars, fenceVars, bookVars, OwnedSearch, OwnedGroup
<1>12. ASSUME ScannedAgain PROVE OwnedSearch'
  BY <1>12 DEF ScannedAgain, Onward, caseVars, fenceVars, bookVars, OwnedSearch, OwnedGroup
<1>13. ASSUME Reaps PROVE OwnedSearch'
  BY <1>13 DEF Reaps, Onward, caseVars, fenceVars, bookVars, OwnedSearch, OwnedGroup
<1>14. ASSUME Interrupted PROVE OwnedSearch'
  BY <1>14 DEF Interrupted, Onward, StopSpent, caseVars, fenceVars, bookVars, OwnedSearch,
    OwnedGroup
<1>15. ASSUME InboundWaits PROVE OwnedSearch'
  BY <1>15 DEF InboundWaits, Onward, StopSpent, caseVars, fenceVars, bookVars, OwnedSearch,
    OwnedGroup
<1>16. ASSUME TakesRow PROVE OwnedSearch'
  BY <1>16 DEF TakesRow, ReceiverRow, PublisherRow, RateRow, LifecycleRow, InboundRow, SoakRow,
    Noted, Onward, caseVars, fenceVars, bookVars, OwnedSearch, OwnedGroup
<1>17. ASSUME AllTaken PROVE OwnedSearch'
  BY <1>17 DEF AllTaken, Onward, RowsOf, caseVars, fenceVars, bookVars, OwnedSearch, OwnedGroup
<1>18. ASSUME Concludes PROVE OwnedSearch'
  BY <1>18 DEF Concludes, Onward, caseVars, fenceVars, bookVars, OwnedSearch, OwnedGroup
<1>19. ASSUME FailsBetween PROVE OwnedSearch'
  BY <1>19 DEF FailsBetween, Onward, StopSpent, caseVars, fenceVars, bookVars, OwnedSearch,
    OwnedGroup
<1>20. ASSUME UNCHANGED ownedVars PROVE OwnedSearch'
  BY <1>20 DEF ownedVars, caseVars, fenceVars, bookVars, OwnedSearch, OwnedGroup
<1> QED
  BY <1>1, <1>2, <1>3, <1>4, <1>5, <1>6, <1>7, <1>8, <1>9, <1>10, <1>11, <1>12, <1>13, <1>14,
    <1>15, <1>16, <1>17, <1>18, <1>19, <1>20 DEF OwnedNext

LEMMA OwnedFlagsKept == OwnedIInv /\ [OwnedNext]_ownedVars => OwnedFlags'
<1> SUFFICES ASSUME OwnedIInv, [OwnedNext]_ownedVars PROVE OwnedFlags'
  OBVIOUS
<1> USE DEF OwnedIInv
<1>1. ASSUME Starts PROVE OwnedFlags'
  BY <1>1 DEF Starts, Live, caseVars, fenceVars, bookVars, OwnedFlags
<1>2. ASSUME ProcessEnds PROVE OwnedFlags'
  BY <1>2 DEF ProcessEnds, caseVars, fenceVars, bookVars, OwnedFlags
<1>3. ASSUME Tells PROVE OwnedFlags'
  BY <1>3 DEF Tells, caseVars, fenceVars, bookVars, OwnedFlags
<1>4. ASSUME FileChanges PROVE OwnedFlags'
  BY <1>4 DEF FileChanges, caseVars, fenceVars, bookVars, OwnedFlags
<1>5. ASSUME StartsCase PROVE OwnedFlags'
  BY <1>5 DEF StartsCase, Onward, RowsOf, caseVars, fenceVars, bookVars, OwnedFlags
<1>6. ASSUME Waits PROVE OwnedFlags'
  BY <1>6 DEF Waits, Onward, StopSpent, caseVars, fenceVars, bookVars, OwnedFlags
<1>7. ASSUME Lists PROVE OwnedFlags'
  BY <1>7 DEF Lists, Onward, caseVars, fenceVars, bookVars, OwnedFlags
<1>8. ASSUME Reads PROVE OwnedFlags'
  BY <1>8 DEF Reads, Live, caseVars, fenceVars, bookVars, OwnedFlags
<1>9. ASSUME Scanned PROVE OwnedFlags'
  BY <1>9 DEF Scanned, Onward, caseVars, fenceVars, bookVars, OwnedFlags
<1>10. ASSUME Terminates PROVE OwnedFlags'
  BY <1>10 DEF Terminates, Onward, caseVars, fenceVars, bookVars, OwnedFlags
<1>11. ASSUME Kills PROVE OwnedFlags'
  BY <1>11 DEF Kills, Onward, caseVars, fenceVars, bookVars, OwnedFlags
<1>12. ASSUME ScannedAgain PROVE OwnedFlags'
  BY <1>12 DEF ScannedAgain, Onward, caseVars, fenceVars, bookVars, OwnedFlags
<1>13. ASSUME Reaps PROVE OwnedFlags'
  BY <1>13 DEF Reaps, Onward, caseVars, fenceVars, bookVars, OwnedFlags
<1>14. ASSUME Interrupted PROVE OwnedFlags'
  BY <1>14 DEF Interrupted, Onward, StopSpent, caseVars, fenceVars, bookVars, OwnedFlags
<1>15. ASSUME InboundWaits PROVE OwnedFlags'
  BY <1>15 DEF InboundWaits, Onward, StopSpent, caseVars, fenceVars, bookVars, OwnedFlags
<1>16. ASSUME TakesRow PROVE OwnedFlags'
  BY <1>16 DEF TakesRow, ReceiverRow, PublisherRow, RateRow, LifecycleRow, InboundRow, SoakRow,
    Noted, Onward, caseVars, fenceVars, bookVars, OwnedFlags
<1>17. ASSUME AllTaken PROVE OwnedFlags'
  BY <1>17 DEF AllTaken, Onward, RowsOf, caseVars, fenceVars, bookVars, OwnedFlags
<1>18. ASSUME Concludes PROVE OwnedFlags'
  BY <1>18 DEF Concludes, Onward, caseVars, fenceVars, bookVars, OwnedFlags
<1>19. ASSUME FailsBetween PROVE OwnedFlags'
  BY <1>19 DEF FailsBetween, Onward, StopSpent, caseVars, fenceVars, bookVars, OwnedFlags
<1>20. ASSUME UNCHANGED ownedVars PROVE OwnedFlags'
  BY <1>20 DEF ownedVars, caseVars, fenceVars, bookVars, OwnedFlags
<1> QED
  BY <1>1, <1>2, <1>3, <1>4, <1>5, <1>6, <1>7, <1>8, <1>9, <1>10, <1>11, <1>12, <1>13, <1>14,
    <1>15, <1>16, <1>17, <1>18, <1>19, <1>20 DEF OwnedNext

LEMMA OwnedBookKept == OwnedIInv /\ [OwnedNext]_ownedVars => OwnedBook'
<1> SUFFICES ASSUME OwnedIInv, [OwnedNext]_ownedVars PROVE OwnedBook'
  OBVIOUS
<1> USE DEF OwnedIInv
<1>1. ASSUME Starts PROVE OwnedBook'
  BY <1>1 DEF Starts, Live, caseVars, fenceVars, bookVars, OwnedBook, OwnedGroup, OwnedFence,
    Codes, Tellings, Inside
<1>2. ASSUME ProcessEnds PROVE OwnedBook'
  BY <1>2 DEF ProcessEnds, caseVars, fenceVars, bookVars, OwnedBook, OwnedGroup, OwnedFence,
    Codes, Tellings, Inside
<1>3. ASSUME Tells PROVE OwnedBook'
  BY <1>3 DEF Tells, caseVars, fenceVars, bookVars, OwnedBook, OwnedGroup, OwnedFence, Codes,
    Tellings, Inside
<1>4. ASSUME FileChanges PROVE OwnedBook'
  BY <1>4 DEF FileChanges, caseVars, fenceVars, bookVars, OwnedBook, OwnedGroup, OwnedFence,
    Codes, Tellings, Inside
<1>5. ASSUME StartsCase PROVE OwnedBook'
  BY <1>5 DEF StartsCase, Onward, RowsOf, caseVars, fenceVars, bookVars, OwnedBook, OwnedGroup,
    OwnedFence, Codes, Tellings, Inside
<1>6. ASSUME Waits PROVE OwnedBook'
  BY <1>6 DEF Waits, Onward, StopSpent, caseVars, fenceVars, bookVars, OwnedBook, OwnedGroup,
    OwnedFence, Codes, Tellings, Inside
<1>7. ASSUME Lists PROVE OwnedBook'
  BY <1>7 DEF Lists, Onward, caseVars, fenceVars, bookVars, OwnedBook, OwnedGroup, OwnedFence,
    Codes, Tellings, Inside
<1>8. ASSUME Reads PROVE OwnedBook'
  BY <1>8 DEF Reads, Live, caseVars, fenceVars, bookVars, OwnedBook, OwnedGroup, OwnedFence,
    Codes, Tellings, Inside
<1>9. ASSUME Scanned PROVE OwnedBook'
  BY <1>9 DEF Scanned, Onward, caseVars, fenceVars, bookVars, OwnedBook, OwnedGroup, OwnedFence,
    Codes, Tellings, Inside
<1>10. ASSUME Terminates PROVE OwnedBook'
  BY <1>10 DEF Terminates, Onward, caseVars, fenceVars, bookVars, OwnedBook, OwnedGroup,
    OwnedFence, Codes, Tellings, Inside
<1>11. ASSUME Kills PROVE OwnedBook'
  BY <1>11 DEF Kills, Onward, caseVars, fenceVars, bookVars, OwnedBook, OwnedGroup, OwnedFence,
    Codes, Tellings, Inside
<1>12. ASSUME ScannedAgain PROVE OwnedBook'
  BY <1>12 DEF ScannedAgain, Onward, caseVars, fenceVars, bookVars, OwnedBook, OwnedGroup,
    OwnedFence, Codes, Tellings, Inside
<1>13. ASSUME Reaps PROVE OwnedBook'
  BY <1>13 DEF Reaps, Onward, caseVars, fenceVars, bookVars, OwnedBook, OwnedGroup, OwnedFence,
    Codes, Tellings, Inside
<1>14. ASSUME Interrupted PROVE OwnedBook'
  BY <1>14 DEF Interrupted, Onward, StopSpent, caseVars, fenceVars, bookVars, OwnedBook,
    OwnedGroup, OwnedFence, Codes, Tellings, Inside
<1>15. ASSUME InboundWaits PROVE OwnedBook'
  BY <1>15 DEF InboundWaits, Onward, StopSpent, caseVars, fenceVars, bookVars, OwnedBook,
    OwnedGroup, OwnedFence, Codes, Tellings, Inside
<1>16. ASSUME TakesRow PROVE OwnedBook'
  <2> DEFINE Row == [code : Codes, valid : BOOLEAN, told : Tellings]
  <2>1. /\ UNCHANGED <<code, told, concluded>>
        /\ \/ UNCHANGED rows
           \/ \E valid \in BOOLEAN :
                rows' = Append(rows, [code |-> code, valid |-> valid, told |-> told])
    BY <1>16, RowsAreTaken
  <2>2. code \in Codes /\ told \in Tellings /\ rows \in Seq(Row)
    BY DEF OwnedBook
  <2>3. \A valid \in BOOLEAN : [code |-> code, valid |-> valid, told |-> told] \in Row
    BY <2>2
  <2> HIDE DEF Row
  <2>4. rows' \in Seq(Row)
    <3>1. ASSUME NEW valid \in BOOLEAN
          PROVE Append(rows, [code |-> code, valid |-> valid, told |-> told]) \in Seq(Row)
      <4>1. [code |-> code, valid |-> valid, told |-> told] \in Row
        BY <2>3
      <4> QED
        BY <2>2, <4>1
    <3> QED
      BY <2>1, <2>2, <3>1
  <2> QED
    BY <2>1, <2>4 DEF OwnedBook, Row
<1>17. ASSUME AllTaken PROVE OwnedBook'
  BY <1>17 DEF AllTaken, Onward, RowsOf, caseVars, fenceVars, bookVars, OwnedBook, OwnedGroup,
    OwnedFence, Codes, Tellings, Inside
<1>18. ASSUME Concludes PROVE OwnedBook'
  BY <1>18 DEF Concludes, Onward, caseVars, fenceVars, bookVars, OwnedBook, OwnedGroup,
    OwnedFence, Codes, Tellings, Inside
<1>19. ASSUME FailsBetween PROVE OwnedBook'
  BY <1>19 DEF FailsBetween, Onward, StopSpent, caseVars, fenceVars, bookVars, OwnedBook,
    OwnedGroup, OwnedFence, Codes, Tellings, Inside
<1>20. ASSUME UNCHANGED ownedVars PROVE OwnedBook'
  BY <1>20 DEF ownedVars, caseVars, fenceVars, bookVars, OwnedBook, OwnedGroup, OwnedFence, Codes,
    Tellings, Inside
<1> QED
  BY <1>1, <1>2, <1>3, <1>4, <1>5, <1>6, <1>7, <1>8, <1>9, <1>10, <1>11, <1>12, <1>13, <1>14,
    <1>15, <1>16, <1>17, <1>18, <1>19, <1>20 DEF OwnedNext

LEMMA OwnedFenceKept == OwnedIInv /\ [OwnedNext]_ownedVars => OwnedFence'
<1> SUFFICES ASSUME OwnedIInv, [OwnedNext]_ownedVars PROVE OwnedFence'
  OBVIOUS
<1> USE DEF OwnedIInv
<1>1. ASSUME Starts PROVE OwnedFence'
  <2>1. /\ started \in Nat /\ started' = started + 1 /\ others' = others \cup {started + 1}
        /\ UNCHANGED <<runner, phase, leader, killed, names, found, listedTo, goal, code, cutShort>>
        /\ ~killed /\ runner # "inbound" /\ Live # {} /\ listedTo \in 0..started
    BY <1>1 DEF Starts, fenceVars, bookVars, OwnedGroup, OwnedSearch
  <2>2. started + 1 > listedTo
    BY <2>1
  <2>3. Live' = Live \cup {started + 1}
    BY <2>1 DEF Live
  <2>4. LetGo => LetGo'
    BY <2>1, <2>2 DEF LetGo
  <2> QED
    BY <2>1, <2>2, <2>3, <2>4 DEF OwnedFence, Inside
<1>2. ASSUME ProcessEnds PROVE OwnedFence'
  BY <1>2 DEF ProcessEnds, caseVars, fenceVars, bookVars, OwnedPlace, OwnedGroup, OwnedSearch,
    OwnedFlags, OwnedFence, LetGo, Live, Inside
<1>3. ASSUME Tells PROVE OwnedFence'
  BY <1>3 DEF Tells, caseVars, fenceVars, bookVars, OwnedPlace, OwnedGroup, OwnedSearch,
    OwnedFlags, OwnedFence, LetGo, Live, Inside
<1>4. ASSUME FileChanges PROVE OwnedFence'
  BY <1>4 DEF FileChanges, caseVars, fenceVars, bookVars, OwnedPlace, OwnedGroup, OwnedSearch,
    OwnedFlags, OwnedFence, LetGo, Live, Inside
<1>5. ASSUME StartsCase PROVE OwnedFence'
  BY <1>5 DEF StartsCase, Onward, RowsOf, caseVars, fenceVars, bookVars, OwnedPlace, OwnedGroup,
    OwnedSearch, OwnedFlags, OwnedFence, LetGo, Live, Inside
<1>6. ASSUME Waits PROVE OwnedFence'
  BY <1>6 DEF Waits, Onward, StopSpent, caseVars, fenceVars, bookVars, OwnedPlace, OwnedGroup,
    OwnedSearch, OwnedFlags, OwnedFence, LetGo, Live, Inside
<1>7. ASSUME Lists PROVE OwnedFence'
  BY <1>7 DEF Lists, Onward, caseVars, fenceVars, bookVars, OwnedPlace, OwnedGroup, OwnedSearch,
    OwnedFlags, OwnedFence, LetGo, Live, Inside
<1>8. ASSUME Reads PROVE OwnedFence'
  BY <1>8 DEF Reads, Live, caseVars, fenceVars, bookVars, OwnedPlace, OwnedGroup, OwnedSearch,
    OwnedFlags, OwnedFence, LetGo, Inside
<1>9. ASSUME Scanned PROVE OwnedFence'
  BY <1>9 DEF Scanned, Onward, caseVars, fenceVars, bookVars, OwnedPlace, OwnedGroup, OwnedSearch,
    OwnedFlags, OwnedFence, LetGo, Live, Inside
<1>10. ASSUME Terminates PROVE OwnedFence'
  BY <1>10 DEF Terminates, Onward, caseVars, fenceVars, bookVars, OwnedPlace, OwnedGroup,
    OwnedSearch, OwnedFlags, OwnedFence, LetGo, Live, Inside
<1>11. ASSUME Kills PROVE OwnedFence'
  BY <1>11 DEF Kills, Onward, caseVars, fenceVars, bookVars, OwnedPlace, OwnedGroup, OwnedSearch,
    OwnedFlags, OwnedFence, LetGo, Live, Inside
<1>12. ASSUME ScannedAgain PROVE OwnedFence'
  BY <1>12 DEF ScannedAgain, Onward, caseVars, fenceVars, bookVars, OwnedPlace, OwnedGroup,
    OwnedSearch, OwnedFlags, OwnedFence, LetGo, Live, Inside
<1>13. ASSUME Reaps PROVE OwnedFence'
  BY <1>13 DEF Reaps, Onward, caseVars, fenceVars, bookVars, OwnedPlace, OwnedGroup, OwnedSearch,
    OwnedFlags, OwnedFence, LetGo, Live, Inside
<1>14. ASSUME Interrupted PROVE OwnedFence'
  BY <1>14 DEF Interrupted, Onward, StopSpent, caseVars, fenceVars, bookVars, OwnedPlace,
    OwnedGroup, OwnedSearch, OwnedFlags, OwnedFence, LetGo, Live, Inside
<1>15. ASSUME InboundWaits PROVE OwnedFence'
  BY <1>15 DEF InboundWaits, Onward, StopSpent, caseVars, fenceVars, bookVars, OwnedPlace,
    OwnedGroup, OwnedSearch, OwnedFlags, OwnedFence, LetGo, Live, Inside
<1>16. ASSUME TakesRow PROVE OwnedFence'
  BY <1>16 DEF TakesRow, ReceiverRow, PublisherRow, RateRow, LifecycleRow, InboundRow, SoakRow,
    Noted, Onward, caseVars, fenceVars, bookVars, OwnedPlace, OwnedGroup, OwnedSearch, OwnedFlags,
    OwnedFence, LetGo, Live, Inside
<1>17. ASSUME AllTaken PROVE OwnedFence'
  BY <1>17 DEF AllTaken, Onward, RowsOf, caseVars, fenceVars, bookVars, OwnedPlace, OwnedGroup,
    OwnedSearch, OwnedFlags, OwnedFence, LetGo, Live, Inside
<1>18. ASSUME Concludes PROVE OwnedFence'
  BY <1>18 DEF Concludes, Onward, caseVars, fenceVars, bookVars, OwnedPlace, OwnedGroup,
    OwnedSearch, OwnedFlags, OwnedFence, LetGo, Live, Inside
<1>19. ASSUME FailsBetween PROVE OwnedFence'
  BY <1>19 DEF FailsBetween, Onward, StopSpent, caseVars, fenceVars, bookVars, OwnedPlace,
    OwnedGroup, OwnedSearch, OwnedFlags, OwnedFence, LetGo, Live, Inside
<1>20. ASSUME UNCHANGED ownedVars PROVE OwnedFence'
  BY <1>20 DEF ownedVars, caseVars, fenceVars, bookVars, OwnedPlace, OwnedGroup, OwnedSearch,
    OwnedFlags, OwnedFence, LetGo, Live, Inside
<1> QED
  BY <1>1, <1>2, <1>3, <1>4, <1>5, <1>6, <1>7, <1>8, <1>9, <1>10, <1>11, <1>12, <1>13, <1>14,
    <1>15, <1>16, <1>17, <1>18, <1>19, <1>20 DEF OwnedNext

LEMMA OwnedRowsKept == OwnedIInv /\ [OwnedNext]_ownedVars => OwnedRows'
<1> SUFFICES ASSUME OwnedIInv, [OwnedNext]_ownedVars PROVE OwnedRows'
  OBVIOUS
<1> USE DEF OwnedIInv
<1>1. ASSUME Starts PROVE OwnedRows'
  BY <1>1 DEF Starts, Live, caseVars, fenceVars, bookVars, OwnedPlace, OwnedBook, OwnedFlags,
    OwnedRows, OwnedFence, RowsOf, Inside
<1>2. ASSUME ProcessEnds PROVE OwnedRows'
  BY <1>2 DEF ProcessEnds, caseVars, fenceVars, bookVars, OwnedPlace, OwnedBook, OwnedFlags,
    OwnedRows, OwnedFence, RowsOf, Inside
<1>3. ASSUME Tells PROVE OwnedRows'
  BY <1>3 DEF Tells, caseVars, fenceVars, bookVars, OwnedPlace, OwnedBook, OwnedFlags, OwnedRows,
    OwnedFence, RowsOf, Inside
<1>4. ASSUME FileChanges PROVE OwnedRows'
  BY <1>4 DEF FileChanges, caseVars, fenceVars, bookVars, OwnedPlace, OwnedBook, OwnedFlags,
    OwnedRows, OwnedFence, RowsOf, Inside
<1>5. ASSUME StartsCase PROVE OwnedRows'
  BY <1>5 DEF StartsCase, Onward, RowsOf, caseVars, fenceVars, bookVars, OwnedPlace, OwnedBook,
    OwnedFlags, OwnedRows, OwnedFence, Inside
<1>6. ASSUME Waits PROVE OwnedRows'
  BY <1>6 DEF Waits, Onward, StopSpent, caseVars, fenceVars, bookVars, OwnedPlace, OwnedBook,
    OwnedFlags, OwnedRows, OwnedFence, RowsOf, Inside
<1>7. ASSUME Lists PROVE OwnedRows'
  BY <1>7 DEF Lists, Onward, caseVars, fenceVars, bookVars, OwnedPlace, OwnedBook, OwnedFlags,
    OwnedRows, OwnedFence, RowsOf, Inside
<1>8. ASSUME Reads PROVE OwnedRows'
  BY <1>8 DEF Reads, Live, caseVars, fenceVars, bookVars, OwnedPlace, OwnedBook, OwnedFlags,
    OwnedRows, OwnedFence, RowsOf, Inside
<1>9. ASSUME Scanned PROVE OwnedRows'
  BY <1>9 DEF Scanned, Onward, caseVars, fenceVars, bookVars, OwnedPlace, OwnedBook, OwnedFlags,
    OwnedRows, OwnedFence, RowsOf, Inside
<1>10. ASSUME Terminates PROVE OwnedRows'
  BY <1>10 DEF Terminates, Onward, caseVars, fenceVars, bookVars, OwnedPlace, OwnedBook,
    OwnedFlags, OwnedRows, OwnedFence, RowsOf, Inside
<1>11. ASSUME Kills PROVE OwnedRows'
  BY <1>11 DEF Kills, Onward, caseVars, fenceVars, bookVars, OwnedPlace, OwnedBook, OwnedFlags,
    OwnedRows, OwnedFence, RowsOf, Inside
<1>12. ASSUME ScannedAgain PROVE OwnedRows'
  BY <1>12 DEF ScannedAgain, Onward, caseVars, fenceVars, bookVars, OwnedPlace, OwnedBook,
    OwnedFlags, OwnedRows, OwnedFence, RowsOf, Inside
<1>13. ASSUME Reaps PROVE OwnedRows'
  BY <1>13 DEF Reaps, Onward, caseVars, fenceVars, bookVars, OwnedPlace, OwnedBook, OwnedFlags,
    OwnedRows, OwnedFence, RowsOf, Inside
<1>14. ASSUME Interrupted PROVE OwnedRows'
  BY <1>14 DEF Interrupted, Onward, StopSpent, caseVars, fenceVars, bookVars, OwnedPlace,
    OwnedBook, OwnedFlags, OwnedRows, OwnedFence, RowsOf, Inside
<1>15. ASSUME InboundWaits PROVE OwnedRows'
  BY <1>15 DEF InboundWaits, Onward, StopSpent, caseVars, fenceVars, bookVars, OwnedPlace,
    OwnedBook, OwnedFlags, OwnedRows, OwnedFence, RowsOf, Inside
<1>16. ASSUME TakesRow PROVE OwnedRows'
  <2> DEFINE Fair(valid) ==
        valid => code = "zero" /\ (runner \notin {"inbound", "soak"} => told = "same")
  <2> DEFINE Goes == phase' \in {"next", "judge", "gone"} /\ (phase' = "gone" => raised')
  <2> DEFINE Adds ==
        \/ UNCHANGED rows
        \/ \E valid \in BOOLEAN : /\ Fair(valid)
             /\ rows' = Append(rows, [code |-> code, valid |-> valid, told |-> told])
  <2>1. UNCHANGED <<runner, goal, concluded, changed>> /\ phase = "row"
    BY <1>16 DEF TakesRow, fenceVars
  <2>2. ASSUME ReceiverRow PROVE Goes /\ Adds
    BY <2>2 DEF ReceiverRow, Noted, Onward
  <2>3. ASSUME PublisherRow PROVE Goes /\ Adds
    BY <2>3 DEF PublisherRow, Noted, Onward
  <2>4. ASSUME RateRow PROVE Goes /\ Adds
    BY <2>4 DEF RateRow, Noted, Onward
  <2>5. ASSUME LifecycleRow PROVE Goes /\ Adds
    BY <2>5 DEF LifecycleRow, Noted, Onward
  <2>6. ASSUME InboundRow PROVE Goes /\ Adds
    BY <2>6 DEF InboundRow, Noted, Onward
  <2>7. ASSUME SoakRow PROVE Goes /\ Adds
    BY <2>7 DEF SoakRow, Noted, Onward
  <2>8. Goes /\ Adds
    BY <1>16, <2>2, <2>3, <2>4, <2>5, <2>6, <2>7 DEF TakesRow
  <2>9. /\ concluded = "none"
        /\ \A i \in DOMAIN rows : rows[i].valid =>
             rows[i].code = "zero" /\ (runner \notin {"inbound", "soak"} => rows[i].told = "same")
    BY <2>1 DEF OwnedRows
  <2>10. \A i \in DOMAIN rows' : rows'[i].valid =>
          rows'[i].code = "zero" /\ (runner \notin {"inbound", "soak"} => rows'[i].told = "same")
    <3>1. CASE UNCHANGED rows
      BY <3>1, <2>9
    <3>2. ASSUME NEW valid \in BOOLEAN, Fair(valid),
                 rows' = Append(rows, [code |-> code, valid |-> valid, told |-> told])
          PROVE \A i \in DOMAIN rows' : rows'[i].valid =>
            rows'[i].code = "zero" /\ (runner \notin {"inbound", "soak"} => rows'[i].told = "same")
      <4>1. rows \in Seq([code : Codes, valid : BOOLEAN, told : Tellings])
        BY DEF OwnedBook
      <4>2. \A i \in DOMAIN rows' : \/ (i \in DOMAIN rows /\ rows'[i] = rows[i])
                                     \/ rows'[i] = [code |-> code, valid |-> valid, told |-> told]
        BY <3>2, <4>1
      <4> QED
        BY <2>9, <3>2, <4>2
    <3> QED
      BY <2>8, <3>1, <3>2
  <2> QED
    BY <2>1, <2>8, <2>9, <2>10 DEF OwnedRows, Inside
<1>17. ASSUME AllTaken PROVE OwnedRows'
  BY <1>17 DEF AllTaken, Onward, RowsOf, caseVars, fenceVars, bookVars, OwnedPlace, OwnedBook,
    OwnedFlags, OwnedRows, OwnedFence, Inside
<1>18. ASSUME Concludes PROVE OwnedRows'
  BY <1>18 DEF Concludes, Onward, caseVars, fenceVars, bookVars, OwnedPlace, OwnedBook,
    OwnedFlags, OwnedRows, OwnedFence, RowsOf, Inside
<1>19. ASSUME FailsBetween PROVE OwnedRows'
  BY <1>19 DEF FailsBetween, Onward, StopSpent, caseVars, fenceVars, bookVars, OwnedPlace,
    OwnedBook, OwnedFlags, OwnedRows, OwnedFence, RowsOf, Inside
<1>20. ASSUME UNCHANGED ownedVars PROVE OwnedRows'
  BY <1>20 DEF ownedVars, caseVars, fenceVars, bookVars, OwnedPlace, OwnedBook, OwnedFlags,
    OwnedRows, OwnedFence, RowsOf, Inside
<1> QED
  BY <1>1, <1>2, <1>3, <1>4, <1>5, <1>6, <1>7, <1>8, <1>9, <1>10, <1>11, <1>12, <1>13, <1>14,
    <1>15, <1>16, <1>17, <1>18, <1>19, <1>20 DEF OwnedNext

\* Whenever a process starts another or ends, and whenever the runner is interrupted: a group
\* is signalled only while its leader holds the number, a case is let go only when nobody it
\* has seen is left, exit zero is noted only of a case that ended by itself, and a completed
\* report is of valid cases on unchanged files.
THEOREM GroupsSafe == OwnedSpec => []GroupsAreOwned
<1>1. OwnedIInv /\ [OwnedNext]_ownedVars => OwnedIInv'
  BY OwnedPlaceKept, OwnedGroupKept, OwnedSearchKept, OwnedFlagsKept, OwnedBookKept,
    OwnedFenceKept, OwnedRowsKept DEF OwnedIInv
<1>2. OwnedIInv => GroupsAreOwned
  BY OwnedRunsAssumption DEF OwnedIInv, OwnedPlace, OwnedGroup, OwnedSearch, OwnedFlags,
    OwnedBook, OwnedFence, OwnedRows, LetGo, GroupsAreOwned, Inside
<1> QED
  BY OwnedBegins, <1>1, <1>2, PTL DEF OwnedSpec

-----------------------------------------------------------------------------
(* The programs that drive two turns.                                      *)

Item == [turn : {1, 2}, n : 1..TurnEvents]
Ways == Settled \cup {"running", "drain"}
Drivers == {"begin", "first", "stopping", "gather", "second", "cleanup", "over"}

\* How much of the turn that was begun the sink has accepted.
Accepted == Len(records) - (IF begun = 2 THEN fencedAt ELSE 0)

\* Every variable has its type.
LocalShapes ==
  /\ program \in {"replay", "tone", "speech"} /\ driver \in Drivers
  /\ turnKey \in {0, begun} /\ begun \in {0, 1, 2} /\ made \in 0..TurnEvents
       /\ fed \in 0..TurnEvents
LocalTasks ==
  /\ task = [t \in LocalTask |-> task[t]]
  /\ task["make"] \in Ways /\ task["feed"] \in Ways /\ task["take"] \in Ways
LocalItems ==
  /\ turnQueue \in Seq(Item) /\ records \in Seq(Item)
  /\ held \in Seq(Item) /\ Len(held) <= 1
LocalDevice ==
  /\ sink = [key |-> sink.key, next |-> sink.next, finished |-> sink.finished, open |-> sink.open,
             failed |-> sink.failed, buffer |-> sink.buffer]
  /\ sink.key \in Nat /\ sink.next \in Nat /\ sink.open \in BOOLEAN
  /\ monitor = [state |-> monitor.state, early |-> monitor.early] /\ monitor.early \in BOOLEAN

\* Where the program stands tells which turn was begun, and whether the first one was cut.
LocalPlace ==
  /\ fencedAt \in Int /\ (begun = 0 <=> driver = "begin")
  /\ driver = "begin" => records = <<>> /\ held = <<>> /\ turnQueue = <<>> /\ fed = 0 /\ turnKey = 0
                          /\ \A t \in LocalTask : task[t] = "off"
  /\ driver = "first" => begun = 1 /\ turnKey = 1 /\ fencedAt = -1
  /\ driver \in {"stopping", "gather"} => begun = 1 /\ fencedAt >= 0
  /\ driver = "second" => begun = 2 /\ turnKey = 2
  /\ begun <= 1 /\ fencedAt >= 0 => turnKey = 0 /\ sink.key = 0 /\ fencedAt = Len(records)
  /\ begun = 2 => fencedAt >= 0 /\ fencedAt <= Len(records)
  /\ begun = 0 => fencedAt = -1

\* What was accepted is in order, turn by turn, and the sink expects what comes next.
LocalRecords ==
  \A i \in DOMAIN records :
    records[i] = IF begun = 2 /\ i > fencedAt THEN [turn |-> 2, n |-> i - fencedAt]
                 ELSE [turn |-> 1, n |-> i]
LocalSink ==
  /\ sink.key # 0 => sink.key = begun /\ sink.next = Accepted + 1
  /\ sink.open => Device

\* Nothing of a turn gets lost while it is consumed, and its end is accepted last.
LocalCount ==
  /\ turnKey = begun /\ task["take"] \in {"off", "running", "drain", "true"} =>
       Accepted + Len(held) + Len(turnQueue) = fed
  /\ task["take"] \in {"drain", "true"} => Accepted = TurnEvents
  /\ driver = "second" => task["take"] # "off"

\* The replay consumes its first turn itself.
LocalReplay ==
  program = "replay" /\ driver = "first" =>
    /\ task["take"] = "off" /\ records = <<>> /\ held = <<>>
    /\ \A i \in DOMAIN turnQueue : turnQueue[i] = [turn |-> 1, n |-> i]

\* What is known at the end.
LocalEnds ==
  /\ monitor.early => monitor.state = "heard"
  /\ outcome = "passed" =>
       /\ driver \in {"cleanup", "over"} /\ begun = 2
       /\ \A t \in LocalTask : task[t] \in {"off", "true"}
       /\ Accepted = TurnEvents /\ turnQueue = <<>> /\ held = <<>>
       /\ program = "speech" => monitor.state = "heard"
  /\ driver = "over" => ~sink.open /\ \A t \in LocalTask : task[t] \in Settled

LocalIInv ==
  /\ LocalShapes /\ LocalTasks /\ LocalItems /\ LocalDevice /\ LocalPlace
  /\ LocalRecords /\ LocalSink /\ LocalCount /\ LocalReplay /\ LocalEnds

-----------------------------------------------------------------------------
\* The constants as the steps need them.
LEMMA LocalConstants == TurnEvents \in Nat /\ TurnEvents >= 1
  BY LocalAssumption

\* What each step does to the sink: its key, the event it expects, whether it is open.
Same == sink'.key = sink.key /\ sink'.next = sink.next /\ (sink'.open <=> sink.open)
Silenced == sink'.key = 0 /\ sink'.next = sink.next /\ (sink'.open => sink.open)
NewSink(t) == sink'.key = t /\ sink'.next = 1 /\ (sink'.open => Device)
SinkRecord ==
  sink = [key |-> sink.key, next |-> sink.next, finished |-> sink.finished, open |-> sink.open,
          failed |-> sink.failed, buffer |-> sink.buffer]

LEMMA DevicePlaysSink ==
  ASSUME LocalDevice, DevicePlays
  PROVE  SinkRecord' /\ (Same)
<1>1. sink' = [sink EXCEPT !.buffer = Tail(sink.buffer)]
  BY DEF DevicePlays
<1> QED
  BY <1>1 DEF Same, SinkRecord, LocalDevice

LEMMA DeviceFailsSink ==
  ASSUME LocalDevice, DeviceFails
  PROVE  SinkRecord' /\ (Silenced)
<1>1. sink' = [sink EXCEPT !.key = 0, !.buffer = <<>>, !.failed = TRUE]
  BY DEF DeviceFails
<1> QED
  BY <1>1 DEF Silenced, SinkRecord, LocalDevice

LEMMA DrainSink ==
  ASSUME LocalDevice, Drain
  PROVE  SinkRecord' /\ (Same)
<1>1. sink' = [sink EXCEPT !.finished = TRUE] \/ sink' = sink
  BY DEF Drain
<1> QED
  BY <1>1 DEF Same, SinkRecord, LocalDevice

LEMMA CutsSink ==
  ASSUME LocalDevice, Cuts
  PROVE  SinkRecord' /\ (Silenced)
<1>1. sink' = [sink EXCEPT !.key = 0, !.buffer = <<>>]
  BY DEF Cuts
<1> QED
  BY <1>1 DEF Silenced, SinkRecord, LocalDevice

LEMMA StoppedSink ==
  ASSUME LocalDevice, Stopped
  PROVE  SinkRecord' /\ (Silenced)
<1>1. sink' = [sink EXCEPT !.open = FALSE, !.key = 0, !.buffer = <<>>]
  BY DEF Stopped
<1> QED
  BY <1>1 DEF Silenced, SinkRecord, LocalDevice

LEMMA FirstSink ==
  ASSUME LocalDevice, First
  PROVE  SinkRecord' /\ (NewSink(1))
<1>1. sink' = [key |-> 1, next |-> 1, finished |-> FALSE, open |-> Device, failed |-> FALSE,
        buffer |-> <<>>]
  BY DEF First, Begins, Closed
<1>2. Device \in BOOLEAN
  BY DEF Device
<1> QED
  BY <1>1, <1>2 DEF NewSink, SinkRecord

LEMMA SecondSink ==
  ASSUME LocalDevice, Second
  PROVE  SinkRecord' /\ (NewSink(2) \/ Same)
<1>1. sink' = [key |-> 2, next |-> 1, finished |-> FALSE, open |-> Device, failed |-> FALSE,
        buffer |-> <<>>] \/ sink' = sink
  BY DEF Second, Begins, Closed
<1>2. Device \in BOOLEAN
  BY DEF Device
<1> QED
  BY <1>1, <1>2 DEF NewSink, Same, SinkRecord, LocalDevice

LEMMA CleansUpSink ==
  ASSUME LocalDevice, CleansUp
  PROVE  SinkRecord' /\ ((Same /\ ~Device) \/ (Silenced /\ ~sink'.open))
<1>1. sink' = [sink EXCEPT !.open = FALSE, !.key = 0, !.buffer = <<>>] \/ (~Device /\ sink' = sink)
  BY Zenon DEF CleansUp
<1> QED
  BY <1>1 DEF Silenced, Same, SinkRecord, LocalDevice

\* A submission: nothing, or the event that is expected, of the sink's own turn.
LEMMA SubmitHeldSink ==
  ASSUME LocalDevice, LocalItems, SubmitHeld
  PROVE  /\ SinkRecord' /\ held # <<>> /\ held' = <<>> /\ held[1] \in Item
         /\ \/ records' = records /\ Same
            \/ /\ records' = Append(records, held[1]) /\ held[1].turn = sink.key
                    /\ held[1].n = sink.next
               /\ sink'.key = sink.key /\ sink'.next = sink.next + 1 /\ (sink'.open <=> sink.open)
<1>1. held # <<>> /\ held' = <<>> /\ held[1] \in Item
  BY DEF SubmitHeld, LocalItems
<1>2. CASE UNCHANGED <<sink, records>>
  BY <1>1, <1>2 DEF Same, SinkRecord, LocalDevice
<1>3. CASE Accepts(held[1]) /\ Submitted(held[1])
  <2>1. PICK f, b : sink' = [sink EXCEPT !.next = @ + 1, !.finished = f, !.buffer = b]
    BY <1>3 DEF Submitted
  <2>2. sink' = [key |-> sink.key, next |-> sink.next + 1, finished |-> f, open |-> sink.open,
                 failed |-> sink.failed, buffer |-> b]
    BY <2>1 DEF LocalDevice
  <2>3. records' = Append(records, held[1]) /\ held[1].turn = sink.key /\ held[1].n = sink.next
    BY <1>3 DEF Submitted, Accepts
  <2> QED
    BY <1>1, <2>2, <2>3 DEF SinkRecord
<1> QED
  BY <1>2, <1>3 DEF SubmitHeld

LEMMA AcceptedStays ==
  ASSUME records' = records, begun' = begun, fencedAt' = fencedAt
  PROVE  Accepted' = Accepted
  BY DEF Accepted

LEMMA LocalFeeds ==
  ASSUME LocalPlace, LocalShapes, task["feed"] = "running"
  PROVE  begun \in {1, 2}
  BY DEF LocalPlace, LocalShapes, LocalTask

LEMMA FreshMonitor ==
  ASSUME monitor' = [state |-> IF program = "speech" THEN "armed" ELSE monitor.state,
    early |-> FALSE]
  PROVE  /\ monitor' = [state |-> monitor'.state, early |-> monitor'.early]
         /\ (monitor'.early <=> FALSE) /\ monitor'.early \in BOOLEAN
  OBVIOUS

LEMMA DeviceStays ==
  ASSUME LocalDevice, SinkRecord', Same \/ Silenced \/ NewSink(1)
    \/ NewSink(2), sink'.open \in BOOLEAN,
         monitor' = [state |-> monitor'.state, early |-> monitor'.early], monitor'.early \in BOOLEAN
  PROVE  LocalDevice'
  BY DEF LocalDevice, SinkRecord, Same, Silenced, NewSink

LEMMA FreshDevice ==
  ASSUME NEW t \in {1, 2}, Begins(t)
  PROVE  NewSink(t)
<1>1. sink' = [key |-> t, next |-> 1, finished |-> FALSE, open |-> Device, failed |-> FALSE,
        buffer |-> <<>>]
  BY DEF Begins, Closed
<1>2. Device \in BOOLEAN
  BY DEF Device
<1> QED
  BY <1>1, <1>2 DEF NewSink

\* Two facts of numbers the steps below need.
LEMMA OneLeft == ASSUME NEW n \in Nat, n # 0, n <= 1 PROVE n = 1
  OBVIOUS

LEMMA SameGap == ASSUME NEW a, NEW b \in Int, NEW c \in Int, a = b + 1 PROVE a - c = b + 1 - c
  OBVIOUS

\* The initial states satisfy the invariant.
LEMMA LocalBegins == LocalInit => LocalIInv
  BY LocalAssumption DEF LocalInit, LocalIInv, LocalShapes, LocalTasks, LocalItems, LocalDevice,
    LocalPlace, LocalRecords, LocalSink, LocalCount, LocalReplay, LocalEnds, Accepted, Item,
    Ways, Drivers, LocalTask, Settled, Closed, Device

\* Every step keeps every part of it: one lemma per part, one step per action.
LEMMA LocalShapesKept == LocalIInv /\ [LocalNext]_localVars => LocalShapes'
<1> SUFFICES ASSUME LocalIInv, [LocalNext]_localVars PROVE LocalShapes'
  OBVIOUS
<1> USE DEF LocalIInv
<1>1. ASSUME DevicePlays PROVE LocalShapes'
  BY <1>1 DEF DevicePlays, Tasking, Ends, LocalShapes, Drivers, LocalPlace
<1>2. ASSUME DeviceFails PROVE LocalShapes'
  BY <1>2 DEF DeviceFails, Tasking, Ends, LocalShapes, Drivers, LocalPlace
<1>3. ASSUME Make PROVE LocalShapes'
  <2>1. made \in 0..TurnEvents /\ made < TurnEvents /\ made' = made + 1
        /\ UNCHANGED <<program, driver, turnKey, begun, fed>>
    BY <1>3 DEF Make, Tasking, LocalShapes
  <2> QED
    BY <2>1, LocalConstants DEF LocalShapes
<1>4. ASSUME Feed PROVE LocalShapes'
  <2>1. /\ made \in 0..TurnEvents /\ fed \in 0..TurnEvents
             /\ UNCHANGED <<program, driver, turnKey, begun, made>>
        /\ fed' = fed \/ (fed' = fed + 1 /\ fed < made)
    BY <1>4 DEF Feed, Tasking, LocalShapes
  <2>2. fed' \in 0..TurnEvents
    BY <2>1, LocalConstants
  <2> QED
    BY <2>1, <2>2 DEF LocalShapes
<1>5. ASSUME Take PROVE LocalShapes'
  BY <1>5 DEF Take, Tasking, Ends, LocalShapes, Drivers, LocalPlace
<1>6. ASSUME SubmitHeld PROVE LocalShapes'
  BY <1>6 DEF SubmitHeld, Accepts, Submitted, Device, Tasking, Ends, LocalShapes, Drivers,
    LocalPlace
<1>7. ASSUME Drain PROVE LocalShapes'
  BY <1>7 DEF Drain, Tasking, Ends, LocalShapes, Drivers, LocalPlace
<1>8. ASSUME First PROVE LocalShapes'
  <2>1. program' = program /\ driver' \in Drivers
    BY <1>8 DEF First, Driving, Drivers
  <2>2. /\ turnKey' = 1 /\ begun' = 1 /\ fed' = 0 /\ made' \in {0, TurnEvents}
    BY <1>8 DEF First, Begins
  <2> QED
    BY <2>1, <2>2, LocalConstants DEF LocalShapes
<1>9. ASSUME Cuts PROVE LocalShapes'
  BY <1>9 DEF Cuts, Device, LocalShapes, Drivers, LocalPlace
<1>10. ASSUME Stopped PROVE LocalShapes'
  BY <1>10 DEF Stopped, Driving, LocalShapes, Drivers, LocalPlace
<1>11. ASSUME Second PROVE LocalShapes'
  <2>1. program' = program /\ driver' \in Drivers
    BY <1>11 DEF Second, Driving, Drivers
  <2>2. \/ turnKey' = 2 /\ begun' = 2 /\ fed' = 0 /\ made' \in {0, TurnEvents}
        \/ UNCHANGED <<turnKey, begun, made, fed>>
    BY <1>11 DEF Second, Begins
  <2> QED
    BY <2>1, <2>2, LocalConstants DEF LocalShapes
<1>12. ASSUME Judges PROVE LocalShapes'
  BY <1>12 DEF Judges, Driving, TurnPassed, LocalShapes, Drivers, LocalPlace
<1>13. ASSUME TimesOut PROVE LocalShapes'
  BY <1>13 DEF TimesOut, LocalShapes, Drivers, LocalPlace
<1>14. ASSUME CleansUp PROVE LocalShapes'
  BY <1>14 DEF CleansUp, Driving, Device, LocalShapes, Drivers, LocalPlace
<1>15. ASSUME UNCHANGED localVars PROVE LocalShapes'
  BY <1>15 DEF localVars, LocalShapes, Drivers, LocalPlace
<1> QED
  BY <1>1, <1>2, <1>3, <1>4, <1>5, <1>6, <1>7, <1>8, <1>9, <1>10, <1>11, <1>12, <1>13, <1>14,
    <1>15 DEF LocalNext

LEMMA LocalTasksKept == LocalIInv /\ [LocalNext]_localVars => LocalTasks'
<1> SUFFICES ASSUME LocalIInv, [LocalNext]_localVars PROVE LocalTasks'
  OBVIOUS
<1> USE DEF LocalIInv
<1>1. ASSUME DevicePlays PROVE LocalTasks'
  BY <1>1 DEF DevicePlays, Tasking, Ends, LocalTasks, LocalTask, Settled, Ways
<1>2. ASSUME DeviceFails PROVE LocalTasks'
  BY <1>2 DEF DeviceFails, Tasking, Ends, LocalTasks, LocalTask, Settled, Ways
<1>3. ASSUME Make PROVE LocalTasks'
  BY <1>3 DEF Make, Tasking, Ends, LocalTasks, LocalTask, Settled, Ways
<1>4. ASSUME Feed PROVE LocalTasks'
  BY <1>4 DEF Feed, Tasking, Ends, LocalTasks, LocalTask, Settled, Ways
<1>5. ASSUME Take PROVE LocalTasks'
  BY <1>5 DEF Take, Tasking, Ends, LocalTasks, LocalTask, Settled, Ways
<1>6. ASSUME SubmitHeld PROVE LocalTasks'
  BY <1>6 DEF SubmitHeld, Accepts, Submitted, Device, Tasking, Ends, LocalTasks, LocalTask,
    Settled, Ways
<1>7. ASSUME Drain PROVE LocalTasks'
  BY <1>7 DEF Drain, Tasking, Ends, LocalTasks, LocalTask, Settled, Ways
<1>8. ASSUME First PROVE LocalTasks'
  BY <1>8 DEF First, Driving, Begins, Closed, Device, LocalTasks, LocalTask, Settled, Ways
<1>9. ASSUME Cuts PROVE LocalTasks'
  BY <1>9 DEF Cuts, Device, LocalTasks, LocalTask, Settled, Ways
<1>10. ASSUME Stopped PROVE LocalTasks'
  BY <1>10 DEF Stopped, Driving, LocalTasks, LocalTask, Settled, Ways
<1>11. ASSUME Second PROVE LocalTasks'
  BY <1>11 DEF Second, Accepts, Begins, Closed, Device, LocalTasks, LocalTask, Settled, Ways
<1>12. ASSUME Judges PROVE LocalTasks'
  BY <1>12 DEF Judges, Driving, TurnPassed, LocalTasks, LocalTask, Settled, Ways
<1>13. ASSUME TimesOut PROVE LocalTasks'
  BY <1>13 DEF TimesOut, LocalTasks, LocalTask, Settled, Ways
<1>14. ASSUME CleansUp PROVE LocalTasks'
  BY <1>14 DEF CleansUp, Driving, Device, LocalTasks, LocalTask, Settled, Ways
<1>15. ASSUME UNCHANGED localVars PROVE LocalTasks'
  BY <1>15 DEF localVars, LocalTasks, LocalTask, Settled, Ways
<1> QED
  BY <1>1, <1>2, <1>3, <1>4, <1>5, <1>6, <1>7, <1>8, <1>9, <1>10, <1>11, <1>12, <1>13, <1>14,
    <1>15 DEF LocalNext

LEMMA LocalItemsKept == LocalIInv /\ [LocalNext]_localVars => LocalItems'
<1> SUFFICES ASSUME LocalIInv, [LocalNext]_localVars PROVE LocalItems'
  OBVIOUS
<1> USE DEF LocalIInv
<1>1. ASSUME DevicePlays PROVE LocalItems'
  BY <1>1 DEF DevicePlays, Tasking, Ends, LocalItems, LocalShapes, Item
<1>2. ASSUME DeviceFails PROVE LocalItems'
  BY <1>2 DEF DeviceFails, Tasking, Ends, LocalItems, LocalShapes, Item
<1>3. ASSUME Make PROVE LocalItems'
  BY <1>3 DEF Make, Tasking, Ends, LocalItems, LocalShapes, Item
<1>4. ASSUME Feed PROVE LocalItems'
  <2>1. /\ records' = records /\ held' = held
        /\ turnQueue' = turnQueue \/ (turnKey = begun /\ fed < made
             /\ turnQueue' = Append(turnQueue, [turn |-> begun, n |-> fed + 1]))
    BY <1>4 DEF Feed, Tasking
  <2>2. ASSUME fed < made, task["feed"] = "running" PROVE [turn |-> begun, n |-> fed + 1] \in Item
    BY <2>2, LocalFeeds, LocalConstants DEF Item, LocalShapes
  <2>3. task["feed"] = "running"
    BY <1>4 DEF Feed
  <2> HIDE DEF Item
  <2>4. turnQueue' \in Seq(Item)
    BY <2>1, <2>2, <2>3 DEF LocalItems
  <2> QED
    BY <2>1, <2>4 DEF LocalItems
<1>5. ASSUME Take PROVE LocalItems'
  <2>1. /\ records' = records /\ turnQueue \in Seq(Item) /\ held \in Seq(Item) /\ Len(held) <= 1
        /\ records \in Seq(Item)
    BY <1>5 DEF Take, Tasking, LocalItems
  <2>2. \/ turnQueue' = turnQueue /\ held' = held
        \/ turnQueue # <<>> /\ held' = <<Head(turnQueue)>> /\ turnQueue' = Tail(turnQueue)
    BY <1>5 DEF Take
  <2> HIDE DEF Item
  <2>3. turnQueue # <<>> => Head(turnQueue) \in Item /\ Tail(turnQueue) \in Seq(Item)
    BY <2>1
  <2>4. \A x \in Item : <<x>> \in Seq(Item) /\ Len(<<x>>) = 1
    OBVIOUS
  <2>5. /\ turnQueue' \in Seq(Item) /\ held' \in Seq(Item) /\ Len(held') <= 1
    <3>1. CASE turnQueue' = turnQueue /\ held' = held
      BY <2>1, <3>1
    <3>2. CASE turnQueue # <<>> /\ held' = <<Head(turnQueue)>> /\ turnQueue' = Tail(turnQueue)
      BY <2>3, <2>4, <3>2
    <3> QED
      BY <2>2, <3>1, <3>2
  <2> QED
    BY <2>1, <2>5 DEF LocalItems
<1>6. ASSUME SubmitHeld PROVE LocalItems'
  <2>1. /\ turnQueue' = turnQueue /\ turnQueue \in Seq(Item) /\ records \in Seq(Item)
    BY <1>6 DEF SubmitHeld, LocalItems
  <2>2. /\ held' = <<>> /\ held[1] \in Item
        /\ records' = records \/ records' = Append(records, held[1])
    BY <1>6, SubmitHeldSink
  <2> HIDE DEF Item
  <2>3. records' \in Seq(Item)
    BY <2>1, <2>2
  <2>4. <<>> \in Seq(Item) /\ Len(<<>>) = 0
    OBVIOUS
  <2> QED
    BY <2>1, <2>2, <2>3, <2>4 DEF LocalItems
<1>7. ASSUME Drain PROVE LocalItems'
  BY <1>7 DEF Drain, Tasking, Ends, LocalItems, LocalShapes, Item
<1>8. ASSUME First PROVE LocalItems'
  BY <1>8 DEF First, Driving, Begins, Closed, Device, LocalItems, LocalShapes, Item
<1>9. ASSUME Cuts PROVE LocalItems'
  <2>1. turnQueue \in Seq(Item) /\ held \in Seq(Item) /\ Len(held) <= 1 /\ records \in Seq(Item)
    BY DEF LocalItems
  <2>2. /\ turnQueue' = <<>>
        /\ \/ held' = held /\ records' = records
           \/ /\ Len(turnQueue) >= 2
              /\ records' = Append(records, turnQueue[1]) /\ held' = <<turnQueue[2]>>
    BY <1>9 DEF Cuts
  <2> HIDE DEF Item
  <2>3. Len(turnQueue) >= 2 => turnQueue[1] \in Item /\ turnQueue[2] \in Item
    BY <2>1
  <2>4. /\ \A x \in Item : <<x>> \in Seq(Item) /\ Len(<<x>>) = 1 /\ Append(records, x) \in Seq(Item)
        /\ <<>> \in Seq(Item)
    BY <2>1
  <2>5. records' \in Seq(Item) /\ held' \in Seq(Item) /\ Len(held') <= 1
    <3>1. CASE held' = held /\ records' = records
      BY <2>1, <3>1
    <3>2. CASE Len(turnQueue) >= 2 /\ records' = Append(records, turnQueue[1])
            /\ held' = <<turnQueue[2]>>
      BY <2>3, <2>4, <3>2
    <3> QED
      BY <2>2, <3>1, <3>2
  <2> QED
    BY <2>2, <2>4, <2>5 DEF LocalItems
<1>10. ASSUME Stopped PROVE LocalItems'
  BY <1>10 DEF Stopped, Driving, LocalItems, LocalShapes, Item
<1>11. ASSUME Second PROVE LocalItems'
  <2>1. /\ records' = records /\ held' \in {held, <<>>} /\ turnQueue' \in {turnQueue, <<>>}
    BY <1>11 DEF Second, Begins
  <2> HIDE DEF Item
  <2>2. <<>> \in Seq(Item) /\ Len(<<>>) = 0
    OBVIOUS
  <2>3. held \in Seq(Item) /\ Len(held) <= 1 /\ turnQueue \in Seq(Item) /\ records \in Seq(Item)
    BY DEF LocalItems
  <2>4. held' \in Seq(Item) /\ Len(held') <= 1
    <3>1. CASE held' = held
      BY <2>3, <3>1
    <3>2. CASE held' = <<>>
      BY <2>2, <3>2
    <3> QED
      BY <2>1, <3>1, <3>2
  <2>5. turnQueue' \in Seq(Item) /\ records' \in Seq(Item)
    BY <2>1, <2>2, <2>3
  <2> QED
    BY <2>4, <2>5 DEF LocalItems
<1>12. ASSUME Judges PROVE LocalItems'
  BY <1>12 DEF Judges, Driving, TurnPassed, LocalItems, LocalShapes, Item
<1>13. ASSUME TimesOut PROVE LocalItems'
  BY <1>13 DEF TimesOut, LocalItems, LocalShapes, Item
<1>14. ASSUME CleansUp PROVE LocalItems'
  BY <1>14 DEF CleansUp, Driving, Device, LocalItems, LocalShapes, Item
<1>15. ASSUME UNCHANGED localVars PROVE LocalItems'
  BY <1>15 DEF localVars, LocalItems, LocalShapes, Item
<1> QED
  BY <1>1, <1>2, <1>3, <1>4, <1>5, <1>6, <1>7, <1>8, <1>9, <1>10, <1>11, <1>12, <1>13, <1>14,
    <1>15 DEF LocalNext

LEMMA LocalDeviceKept == LocalIInv /\ [LocalNext]_localVars => LocalDevice'
<1> SUFFICES ASSUME LocalIInv, [LocalNext]_localVars PROVE LocalDevice'
  OBVIOUS
<1> USE DEF LocalIInv
<1>1. ASSUME DevicePlays PROVE LocalDevice'
  BY <1>1 DEF DevicePlays, Tasking, Ends, LocalDevice, LocalItems, LocalShapes
<1>2. ASSUME DeviceFails PROVE LocalDevice'
  BY <1>2 DEF DeviceFails, Tasking, Ends, LocalDevice, LocalItems, LocalShapes
<1>3. ASSUME Make PROVE LocalDevice'
  BY <1>3 DEF Make, Tasking, Ends, LocalDevice, LocalItems, LocalShapes
<1>4. ASSUME Feed PROVE LocalDevice'
  BY <1>4 DEF Feed, Tasking, Ends, LocalDevice, LocalItems, LocalShapes
<1>5. ASSUME Take PROVE LocalDevice'
  BY <1>5 DEF Take, Tasking, Ends, LocalDevice, LocalItems, LocalShapes
<1>6. ASSUME SubmitHeld PROVE LocalDevice'
  <2>1. monitor' = monitor
    BY <1>6 DEF SubmitHeld
  <2>2. SinkRecord' /\ sink'.key = sink.key /\ sink'.next \in {sink.next, sink.next + 1}
        /\ (sink'.open <=> sink.open)
    BY <1>6, SubmitHeldSink DEF Same
  <2>3. sink'.open \in BOOLEAN
    <3>1. sink' = sink
            \/ \E f, b : sink' = [sink EXCEPT !.next = sink.next + 1, !.finished = f, !.buffer = b]
      BY <1>6 DEF SubmitHeld, Submitted
    <3> QED
      BY <3>1 DEF LocalDevice
  <2> QED
    BY <2>1, <2>2, <2>3 DEF SinkRecord, LocalDevice
<1>7. ASSUME Drain PROVE LocalDevice'
  BY <1>7 DEF Drain, Tasking, Ends, LocalDevice, LocalItems, LocalShapes
<1>8. ASSUME First PROVE LocalDevice'
  BY <1>8 DEF First, Driving, Begins, Closed, Device, LocalDevice, LocalItems, LocalShapes
<1>9. ASSUME Cuts PROVE LocalDevice'
  BY <1>9 DEF Cuts, Device, LocalDevice, LocalItems, LocalShapes
<1>10. ASSUME Stopped PROVE LocalDevice'
  BY <1>10 DEF Stopped, Driving, LocalDevice, LocalItems, LocalShapes
<1>11. ASSUME Second PROVE LocalDevice'
  <2>1. CASE UNCHANGED <<sink, monitor>>
    BY <2>1 DEF LocalDevice
  <2>2. CASE Begins(2)
    <3>1. sink' = [key |-> 2, next |-> 1, finished |-> FALSE, open |-> Device, failed |-> FALSE,
                   buffer |-> <<>>]
      BY <2>2 DEF Begins, Closed
    <3>2. Device \in BOOLEAN
      BY DEF Device
    <3>3. /\ monitor' = [state |-> monitor'.state, early |-> monitor'.early]
          /\ monitor'.early \in BOOLEAN
      BY <2>2, FreshMonitor DEF Begins
    <3> QED
      BY <3>1, <3>2, <3>3 DEF LocalDevice
  <2> QED
    BY <1>11, <2>1, <2>2 DEF Second
<1>12. ASSUME Judges PROVE LocalDevice'
  BY <1>12 DEF Judges, Driving, TurnPassed, LocalDevice, LocalItems, LocalShapes
<1>13. ASSUME TimesOut PROVE LocalDevice'
  BY <1>13 DEF TimesOut, LocalDevice, LocalItems, LocalShapes
<1>14. ASSUME CleansUp PROVE LocalDevice'
  BY <1>14 DEF CleansUp, Driving, Device, LocalDevice, LocalItems, LocalShapes
<1>15. ASSUME UNCHANGED localVars PROVE LocalDevice'
  BY <1>15 DEF localVars, LocalDevice, LocalItems, LocalShapes
<1> QED
  BY <1>1, <1>2, <1>3, <1>4, <1>5, <1>6, <1>7, <1>8, <1>9, <1>10, <1>11, <1>12, <1>13, <1>14,
    <1>15 DEF LocalNext

LEMMA LocalPlaceKept == LocalIInv /\ [LocalNext]_localVars => LocalPlace'
<1> SUFFICES ASSUME LocalIInv, [LocalNext]_localVars PROVE LocalPlace'
  OBVIOUS
<1> USE DEF LocalIInv
<1>1. ASSUME DevicePlays PROVE LocalPlace'
  BY <1>1 DEF DevicePlays, Tasking, Ends, LocalPlace, LocalShapes, LocalSink, LocalItems,
    LocalDevice, Item, Drivers
<1>2. ASSUME DeviceFails PROVE LocalPlace'
  BY <1>2 DEF DeviceFails, Tasking, Ends, LocalPlace, LocalShapes, LocalSink, LocalItems,
    LocalDevice, Item, Drivers
<1>3. ASSUME Make PROVE LocalPlace'
  <2>1. driver # "begin"
    BY <1>3 DEF Make, LocalPlace, LocalTask
  <2>2. UNCHANGED <<driver, begun, turnKey, fencedAt, records>> /\ sink'.key = sink.key
    BY <1>3 DEF Make, Tasking, Same
  <2> QED
    BY <2>1, <2>2 DEF LocalPlace
<1>4. ASSUME Feed PROVE LocalPlace'
  <2>1. driver # "begin"
    BY <1>4 DEF Feed, LocalPlace, LocalTask
  <2>2. UNCHANGED <<driver, begun, turnKey, fencedAt, records>> /\ sink'.key = sink.key
    BY <1>4 DEF Feed, Tasking, Same
  <2> QED
    BY <2>1, <2>2 DEF LocalPlace
<1>5. ASSUME Take PROVE LocalPlace'
  <2>1. driver # "begin"
    BY <1>5 DEF Take, LocalPlace, LocalTask
  <2>2. UNCHANGED <<driver, begun, turnKey, fencedAt, records>> /\ sink'.key = sink.key
    BY <1>5 DEF Take, Tasking, Same
  <2> QED
    BY <2>1, <2>2 DEF LocalPlace
<1>6. ASSUME SubmitHeld PROVE LocalPlace'
  <2>1. driver # "begin"
    BY <1>6 DEF SubmitHeld, LocalPlace, LocalTask
  <2>2. UNCHANGED <<driver, begun, turnKey, fencedAt>> /\ sink'.key = sink.key
    BY <1>6, SubmitHeldSink DEF SubmitHeld, Tasking, Same
  <2>3. records' = records \/ (sink.key # 0 /\ Len(records') = Len(records) + 1)
    <3>1. held[1].turn # 0
      BY <1>6, SubmitHeldSink DEF Item
    <3>2. records' = records \/ (records' = Append(records, held[1]) /\ held[1].turn = sink.key)
      BY <1>6, SubmitHeldSink
    <3> QED
      BY <3>1, <3>2 DEF LocalItems
  <2>4. Len(records) \in Nat
    BY DEF LocalItems
  <2>5. CASE records' = records
    BY <2>1, <2>2, <2>5 DEF LocalPlace
  <2>6. CASE sink.key # 0 /\ Len(records') = Len(records) + 1
    BY <2>1, <2>2, <2>4, <2>6 DEF LocalPlace
  <2> QED
    BY <2>3, <2>5, <2>6
<1>7. ASSUME Drain PROVE LocalPlace'
  <2>1. driver # "begin"
    BY <1>7 DEF Drain, LocalPlace, LocalTask
  <2>2. UNCHANGED <<driver, begun, turnKey, fencedAt, records>> /\ sink'.key = sink.key
    BY <1>7, DrainSink DEF Drain, Tasking, Same
  <2> QED
    BY <2>1, <2>2 DEF LocalPlace
<1>8. ASSUME First PROVE LocalPlace'
  BY <1>8 DEF First, Driving, Begins, Closed, Device, LocalPlace, LocalShapes, LocalSink,
    LocalItems, LocalDevice, Item, Drivers
<1>9. ASSUME Cuts PROVE LocalPlace'
  <2>1. driver = "first" /\ driver' = "stopping" /\ turnKey' = 0 /\ begun' = begun
    BY <1>9 DEF Cuts
  <2>2. begun = 1
    BY <2>1 DEF LocalPlace
  <2>3. fencedAt' = Len(records') /\ fencedAt' \in Nat
    <3>1. CASE Device
      BY <1>9, <3>1 DEF Cuts, LocalItems
    <3>2. CASE ~Device
      <4>1. program = "replay"
        BY <3>2 DEF Device
      <4>2. records = <<>>
        BY <2>1, <4>1 DEF LocalReplay
      <4>3. records' = Append(records, turnQueue[1]) /\ fencedAt' = 1
        BY <1>9, <3>2 DEF Cuts
      <4> QED
        BY <4>2, <4>3
    <3> QED
      BY <3>1, <3>2
  <2>4. sink'.key = 0
    BY <1>9, CutsSink DEF Silenced
  <2> QED
    BY <2>1, <2>2, <2>3, <2>4 DEF LocalPlace
<1>10. ASSUME Stopped PROVE LocalPlace'
  BY <1>10 DEF Stopped, Driving, LocalPlace, LocalShapes, LocalSink, LocalItems, LocalDevice,
    Item, Drivers
<1>11. ASSUME Second PROVE LocalPlace'
  BY <1>11 DEF Second, Accepts, Begins, Closed, Device, LocalPlace, LocalShapes, LocalSink,
    LocalItems, LocalDevice, Item, Drivers
<1>12. ASSUME Judges PROVE LocalPlace'
  BY <1>12 DEF Judges, Driving, TurnPassed, LocalPlace, LocalShapes, LocalSink, LocalItems,
    LocalDevice, Item, Drivers
<1>13. ASSUME TimesOut PROVE LocalPlace'
  BY <1>13 DEF TimesOut, LocalPlace, LocalShapes, LocalSink, LocalItems, LocalDevice, Item,
    Drivers
<1>14. ASSUME CleansUp PROVE LocalPlace'
  BY <1>14 DEF CleansUp, Driving, Device, LocalPlace, LocalShapes, LocalSink, LocalItems,
    LocalDevice, Item, Drivers
<1>15. ASSUME UNCHANGED localVars PROVE LocalPlace'
  BY <1>15 DEF localVars, LocalPlace, LocalShapes, LocalSink, LocalItems, LocalDevice, Item,
    Drivers
<1> QED
  BY <1>1, <1>2, <1>3, <1>4, <1>5, <1>6, <1>7, <1>8, <1>9, <1>10, <1>11, <1>12, <1>13, <1>14,
    <1>15 DEF LocalNext

LEMMA LocalRecordsKept == LocalIInv /\ [LocalNext]_localVars => LocalRecords'
<1> SUFFICES ASSUME LocalIInv, [LocalNext]_localVars PROVE LocalRecords'
  OBVIOUS
<1> USE DEF LocalIInv
<1>1. ASSUME DevicePlays PROVE LocalRecords'
  BY <1>1 DEF DevicePlays, Tasking, Ends, LocalRecords, LocalPlace, LocalShapes, LocalReplay,
    LocalItems
<1>2. ASSUME DeviceFails PROVE LocalRecords'
  BY <1>2 DEF DeviceFails, Tasking, Ends, LocalRecords, LocalPlace, LocalShapes, LocalReplay,
    LocalItems
<1>3. ASSUME Make PROVE LocalRecords'
  BY <1>3 DEF Make, Tasking, Ends, LocalRecords, LocalPlace, LocalShapes, LocalReplay, LocalItems
<1>4. ASSUME Feed PROVE LocalRecords'
  BY <1>4 DEF Feed, Tasking, Ends, LocalRecords, LocalPlace, LocalShapes, LocalReplay, LocalItems
<1>5. ASSUME Take PROVE LocalRecords'
  BY <1>5 DEF Take, Tasking, Ends, LocalRecords, LocalPlace, LocalShapes, LocalReplay, LocalItems
<1>6. ASSUME SubmitHeld PROVE LocalRecords'
  <2>1. begun' = begun /\ fencedAt' = fencedAt
    BY <1>6 DEF SubmitHeld, Tasking
  <2>2. CASE records' = records
    BY <2>1, <2>2 DEF LocalRecords
  <2>3. ASSUME records' = Append(records, held[1]), held[1].turn = sink.key, held[1].n = sink.next
        PROVE  LocalRecords'
    <3>1. held[1] = [turn |-> held[1].turn, n |-> held[1].n] /\ held[1].turn \in {1, 2}
      BY <1>6, SubmitHeldSink DEF Item
    <3>2. sink.key = begun /\ sink.next = Accepted + 1
      BY <2>3, <3>1 DEF LocalSink
    <3>3. held[1] = IF begun = 2 THEN [turn |-> 2, n |-> Len(records) + 1 - fencedAt]
                    ELSE [turn |-> 1, n |-> Len(records) + 1]
      BY <2>3, <3>1, <3>2 DEF Accepted, LocalItems, LocalPlace
    <3>4. begun = 2 => Len(records) + 1 > fencedAt
      BY DEF LocalPlace, LocalItems
    <3>5. \A i \in DOMAIN records' : \/ i \in DOMAIN records /\ records'[i] = records[i]
                                     \/ i = Len(records) + 1 /\ records'[i] = held[1]
      BY <2>3 DEF LocalItems
    <3>6. \A i \in DOMAIN records :
            records[i] = IF begun = 2 /\ i > fencedAt THEN [turn |-> 2, n |-> i - fencedAt]
                         ELSE [turn |-> 1, n |-> i]
      BY DEF LocalRecords
    <3>7. ASSUME NEW i \in DOMAIN records'
          PROVE  records'[i] = IF begun = 2 /\ i > fencedAt THEN [turn |-> 2, n |-> i - fencedAt]
                               ELSE [turn |-> 1, n |-> i]
      <4>1. CASE i \in DOMAIN records /\ records'[i] = records[i]
        BY <3>6, <4>1
      <4>2. CASE i = Len(records) + 1 /\ records'[i] = held[1]
        <5>1. CASE begun = 2
          <6>1. held[1] = [turn |-> 2, n |-> i - fencedAt] /\ i > fencedAt
            <7>1. held[1] = [turn |-> 2, n |-> Len(records) + 1 - fencedAt]
              BY <3>3, <5>1
            <7>2. Len(records) + 1 > fencedAt
              BY <3>4, <5>1
            <7>3. i = Len(records) + 1
              BY <4>2
            <7>4. i - fencedAt = Len(records) + 1 - fencedAt
              <8>1. Len(records) \in Int /\ fencedAt \in Int
                BY DEF LocalItems, LocalPlace
              <8> QED
                BY <7>3, <8>1, SameGap
            <7>5. i > fencedAt
              BY <7>2, <7>3
            <7> QED
              BY <7>1, <7>4, <7>5
          <6> QED
            BY <4>2, <5>1, <6>1
        <5>2. CASE begun # 2
          BY <3>3, <4>2, <5>2
        <5> QED
          BY <5>1, <5>2
      <4> QED
        BY <3>5, <3>7, <4>1, <4>2
    <3> QED
      BY <2>1, <3>7 DEF LocalRecords
  <2> QED
    BY <1>6, <2>2, <2>3, SubmitHeldSink
<1>7. ASSUME Drain PROVE LocalRecords'
  BY <1>7 DEF Drain, Tasking, Ends, LocalRecords, LocalPlace, LocalShapes, LocalReplay, LocalItems
<1>8. ASSUME First PROVE LocalRecords'
  BY <1>8 DEF First, Driving, Begins, Closed, Device, LocalRecords, LocalPlace, LocalShapes,
    LocalReplay, LocalItems
<1>9. ASSUME Cuts PROVE LocalRecords'
  BY <1>9 DEF Cuts, Device, LocalRecords, LocalPlace, LocalShapes, LocalReplay, LocalItems
<1>10. ASSUME Stopped PROVE LocalRecords'
  BY <1>10 DEF Stopped, Driving, LocalRecords, LocalPlace, LocalShapes, LocalReplay, LocalItems
<1>11. ASSUME Second PROVE LocalRecords'
  BY <1>11 DEF Second, Accepts, Begins, Closed, Device, LocalRecords, LocalPlace, LocalShapes,
    LocalReplay, LocalItems
<1>12. ASSUME Judges PROVE LocalRecords'
  BY <1>12 DEF Judges, Driving, TurnPassed, LocalRecords, LocalPlace, LocalShapes, LocalReplay,
    LocalItems
<1>13. ASSUME TimesOut PROVE LocalRecords'
  BY <1>13 DEF TimesOut, LocalRecords, LocalPlace, LocalShapes, LocalReplay, LocalItems
<1>14. ASSUME CleansUp PROVE LocalRecords'
  BY <1>14 DEF CleansUp, Driving, Device, LocalRecords, LocalPlace, LocalShapes, LocalReplay,
    LocalItems
<1>15. ASSUME UNCHANGED localVars PROVE LocalRecords'
  BY <1>15 DEF localVars, LocalRecords, LocalPlace, LocalShapes, LocalReplay, LocalItems
<1> QED
  BY <1>1, <1>2, <1>3, <1>4, <1>5, <1>6, <1>7, <1>8, <1>9, <1>10, <1>11, <1>12, <1>13, <1>14,
    <1>15 DEF LocalNext

LEMMA LocalSinkKept == LocalIInv /\ [LocalNext]_localVars => LocalSink'
<1> SUFFICES ASSUME LocalIInv, [LocalNext]_localVars PROVE LocalSink'
  OBVIOUS
<1> USE DEF LocalIInv
<1>1. ASSUME DevicePlays PROVE LocalSink'
  <2>1. Accepted' = Accepted /\ begun' = begun /\ program' = program
    BY <1>1, AcceptedStays DEF DevicePlays, Tasking, Driving
  <2> QED
    BY <1>1, <2>1, DevicePlaysSink DEF Same, Silenced, LocalSink, Device
<1>2. ASSUME DeviceFails PROVE LocalSink'
  <2>1. Accepted' = Accepted /\ begun' = begun /\ program' = program
    BY <1>2, AcceptedStays DEF DeviceFails, Tasking, Driving
  <2> QED
    BY <1>2, <2>1, DeviceFailsSink DEF Same, Silenced, LocalSink, Device
<1>3. ASSUME Make PROVE LocalSink'
  <2>1. Accepted' = Accepted /\ begun' = begun /\ program' = program /\ sink' = sink
    BY <1>3, AcceptedStays DEF Make, Tasking, Driving
  <2> QED
    BY <2>1 DEF LocalSink, Device
<1>4. ASSUME Feed PROVE LocalSink'
  <2>1. Accepted' = Accepted /\ begun' = begun /\ program' = program /\ sink' = sink
    BY <1>4, AcceptedStays DEF Feed, Tasking, Driving
  <2> QED
    BY <2>1 DEF LocalSink, Device
<1>5. ASSUME Take PROVE LocalSink'
  <2>1. Accepted' = Accepted /\ begun' = begun /\ program' = program /\ sink' = sink
    BY <1>5, AcceptedStays DEF Take, Tasking, Driving
  <2> QED
    BY <2>1 DEF LocalSink, Device
<1>6. ASSUME SubmitHeld PROVE LocalSink'
  <2>1. begun' = begun /\ program' = program /\ fencedAt' = fencedAt
    BY <1>6 DEF SubmitHeld, Tasking
  <2>2. CASE records' = records /\ Same
    <3>1. Accepted' = Accepted
      BY <2>1, <2>2, AcceptedStays
    <3> QED
      BY <2>1, <2>2, <3>1 DEF Same, LocalSink, Device
  <2>3. ASSUME records' = Append(records, held[1]), sink'.key = sink.key,
          sink'.next = sink.next + 1,
               (sink'.open <=> sink.open)
        PROVE  LocalSink'
    <3>1. Accepted' = Accepted + 1 /\ Accepted \in Int
      BY <2>1, <2>3 DEF Accepted, LocalItems, LocalPlace
    <3>2. sink.key # 0 => sink.next = Accepted + 1 /\ sink.key = begun
      BY DEF LocalSink
    <3> QED
      BY <2>1, <2>3, <3>1, <3>2 DEF LocalSink, Device
  <2> QED
    BY <1>6, <2>2, <2>3, SubmitHeldSink
<1>7. ASSUME Drain PROVE LocalSink'
  <2>1. Accepted' = Accepted /\ begun' = begun /\ program' = program
    BY <1>7, AcceptedStays DEF Drain, Tasking, Driving
  <2> QED
    BY <1>7, <2>1, DrainSink DEF Same, Silenced, LocalSink, Device
<1>8. ASSUME First PROVE LocalSink'
  <2>1. records' = records /\ begun' = 1 /\ program' = program /\ records = <<>>
    BY <1>8 DEF First, Driving, Begins, LocalPlace
  <2>2. Accepted' = 0
    BY <2>1 DEF Accepted
  <2> QED
    BY <1>8, <2>1, <2>2, FirstSink DEF NewSink, LocalSink, Device
<1>9. ASSUME Cuts PROVE LocalSink'
  <2>1. program' = program
    BY <1>9 DEF Cuts
  <2> QED
    BY <1>9, <2>1, CutsSink DEF Silenced, LocalSink, Device
<1>10. ASSUME Stopped PROVE LocalSink'
  <2>1. Accepted' = Accepted /\ begun' = begun /\ program' = program
    BY <1>10, AcceptedStays DEF Stopped, Tasking, Driving
  <2> QED
    BY <1>10, <2>1, StoppedSink DEF Same, Silenced, LocalSink, Device
<1>11. ASSUME Second PROVE LocalSink'
  <2>1. program' = program
    BY <1>11 DEF Second
  <2>2. CASE Begins(2)
    <3>1. NewSink(2)
      BY <2>2, FreshDevice
    <3>2. begun' = 2 /\ records' = records /\ fencedAt' = fencedAt /\ fencedAt = Len(records)
      BY <1>11, <2>2 DEF Second, Begins, LocalPlace
    <3>3. Accepted' = 0
      BY <3>2 DEF Accepted, LocalItems
    <3> QED
      BY <2>1, <3>1, <3>2, <3>3 DEF NewSink, LocalSink, Device
  <2>3. CASE UNCHANGED <<sink, begun>>
    <3>1. Accepted' = Accepted
      BY <1>11, <2>3, AcceptedStays DEF Second
    <3> QED
      BY <2>1, <2>3, <3>1 DEF LocalSink, Device
  <2> QED
    BY <1>11, <2>2, <2>3 DEF Second
<1>12. ASSUME Judges PROVE LocalSink'
  <2>1. Accepted' = Accepted /\ begun' = begun /\ program' = program /\ sink' = sink
    BY <1>12, AcceptedStays DEF Judges, Tasking, Driving
  <2> QED
    BY <2>1 DEF LocalSink, Device
<1>13. ASSUME TimesOut PROVE LocalSink'
  <2>1. Accepted' = Accepted /\ begun' = begun /\ program' = program /\ sink' = sink
    BY <1>13, AcceptedStays DEF TimesOut, Tasking, Driving
  <2> QED
    BY <2>1 DEF LocalSink, Device
<1>14. ASSUME CleansUp PROVE LocalSink'
  <2>1. Accepted' = Accepted /\ begun' = begun /\ program' = program
    BY <1>14, AcceptedStays DEF CleansUp, Tasking, Driving
  <2> QED
    BY <1>14, <2>1, CleansUpSink DEF Same, Silenced, LocalSink, Device
<1>15. ASSUME UNCHANGED localVars PROVE LocalSink'
  <2>1. Accepted' = Accepted /\ begun' = begun /\ program' = program /\ sink' = sink
    BY <1>15, AcceptedStays DEF localVars
  <2> QED
    BY <2>1 DEF LocalSink, Device
<1> QED
  BY <1>1, <1>2, <1>3, <1>4, <1>5, <1>6, <1>7, <1>8, <1>9, <1>10, <1>11, <1>12, <1>13, <1>14,
    <1>15 DEF LocalNext

LEMMA LocalCountKept == LocalIInv /\ [LocalNext]_localVars => LocalCount'
<1> SUFFICES ASSUME LocalIInv, [LocalNext]_localVars PROVE LocalCount'
  OBVIOUS
<1> USE DEF LocalIInv
<1>1. ASSUME DevicePlays PROVE LocalCount'
  BY <1>1 DEF DevicePlays, Tasking, Ends, LocalCount, Accepted, LocalShapes, LocalTasks,
    LocalTask, LocalPlace, LocalItems
<1>2. ASSUME DeviceFails PROVE LocalCount'
  BY <1>2 DEF DeviceFails, Tasking, Ends, LocalCount, Accepted, LocalShapes, LocalTasks,
    LocalTask, LocalPlace, LocalItems
<1>3. ASSUME Make PROVE LocalCount'
  BY <1>3 DEF Make, Tasking, Ends, LocalCount, Accepted, LocalShapes, LocalTasks, LocalTask,
    LocalPlace, LocalItems
<1>4. ASSUME Feed PROVE LocalCount'
  <2>1. UNCHANGED <<begun, fencedAt, records, driver, turnKey, held>>
          /\ task'["take"] = task["take"]
    BY <1>4 DEF Feed, Tasking, Ends, LocalTasks, LocalTask
  <2>2. Accepted' = Accepted /\ Accepted \in Int /\ Len(held) \in Nat
          /\ Len(turnQueue) \in Nat /\ fed \in Nat
    BY <2>1, AcceptedStays, LocalConstants DEF Accepted, LocalItems, LocalPlace, LocalShapes
  <2>3. \/ turnQueue' = turnQueue /\ fed' = fed
        \/ Len(turnQueue') = Len(turnQueue) + 1 /\ fed' = fed + 1
    BY <1>4 DEF Feed, LocalItems
  <2>4. /\ turnKey = begun /\ task["take"] \in {"off", "running", "drain", "true"} =>
             Accepted + Len(held) + Len(turnQueue) = fed
        /\ task["take"] \in {"drain", "true"} => Accepted = TurnEvents
        /\ driver = "second" => task["take"] # "off"
    BY DEF LocalCount
  <2>5. turnKey' = begun' /\ task'["take"] \in {"off", "running", "drain", "true"} =>
          Accepted' + Len(held') + Len(turnQueue') = fed'
    BY <2>1, <2>2, <2>3, <2>4
  <2> QED
    BY <2>1, <2>2, <2>4, <2>5 DEF LocalCount
<1>5. ASSUME Take PROVE LocalCount'
  <2>1. UNCHANGED <<begun, fencedAt, records, driver, turnKey, fed>>
        /\ task'["take"] \in {task["take"], "false"} /\ task["take"] = "running"
    BY <1>5 DEF Take, Tasking, Ends, LocalTasks, LocalTask
  <2>2. Accepted' = Accepted /\ Accepted \in Int
    BY <2>1, AcceptedStays DEF Accepted, LocalItems, LocalPlace
  <2>3. Len(held') + Len(turnQueue') = Len(held) + Len(turnQueue)
        /\ Len(held) \in Nat /\ Len(turnQueue) \in Nat /\ Len(held') \in Nat
             /\ Len(turnQueue') \in Nat
    <3>1. Len(held) \in Nat /\ turnQueue \in Seq(Item)
      BY DEF LocalItems
    <3>2. \/ UNCHANGED <<held, turnQueue>>
          \/ held = <<>> /\ turnQueue # <<>> /\ held' = <<Head(turnQueue)>>
               /\ turnQueue' = Tail(turnQueue)
      BY <1>5 DEF Take
    <3> HIDE DEF Item
    <3>3. CASE UNCHANGED <<held, turnQueue>>
      BY <3>1, <3>3
    <3>4. CASE held = <<>> /\ turnQueue # <<>> /\ held' = <<Head(turnQueue)>>
            /\ turnQueue' = Tail(turnQueue)
      <4>1. Len(held) = 0 /\ Len(held') = 1
        BY <3>4
      <4>2. Len(turnQueue) \in Nat /\ Len(turnQueue) >= 1 /\ Len(turnQueue') = Len(turnQueue) - 1
        BY <3>1, <3>4
      <4> QED
        BY <4>1, <4>2
    <3> QED
      BY <3>2, <3>3, <3>4
  <2>4. turnKey = begun => Accepted + Len(held) + Len(turnQueue) = fed
    BY <2>1 DEF LocalCount
  <2>5. turnKey' = begun' => Accepted' + Len(held') + Len(turnQueue') = fed'
    BY <2>1, <2>2, <2>3, <2>4
  <2> QED
    BY <2>1, <2>5 DEF LocalCount
<1>6. ASSUME SubmitHeld PROVE LocalCount'
  <2>1. UNCHANGED <<begun, fencedAt, driver, turnKey, fed, turnQueue>> /\ task["take"] = "running"
        /\ Len(held) = 1 /\ Len(held') = 0
    <3>1. UNCHANGED <<begun, fencedAt, driver, turnKey, fed, turnQueue>> /\ task["take"] = "running"
          /\ held # <<>> /\ held' = <<>>
      BY <1>6 DEF SubmitHeld, Tasking
    <3>2. held \in Seq(Item) /\ Len(held) <= 1
      BY DEF LocalItems
    <3>3. Len(held) = 1
      <4>1. Len(held) \in Nat /\ (Len(held) = 0 => held = <<>>)
        BY <3>2, EmptySeq
      <4>2. Len(held) # 0 /\ Len(held) <= 1
        BY <3>1, <3>2, <4>1
      <4>3. Len(held) \in Nat
        BY <4>1
      <4> QED
        BY <4>2, <4>3, OneLeft
    <3> QED
      BY <3>1, <3>3
  <2>2. task'["take"] # "off"
    BY <1>6 DEF SubmitHeld, Ends, LocalTasks, LocalTask
  <2>3. turnKey = begun => Accepted + 1 + Len(turnQueue) = fed
    BY <2>1 DEF LocalCount
  <2>4. CASE task'["take"] \in {"false", "raised"}
    BY <2>4, <2>2 DEF LocalCount
  <2>5. CASE task'["take"] \notin {"false", "raised"}
    <3>1. Accepts(held[1]) /\ Submitted(held[1])
      BY <1>6, <2>5 DEF SubmitHeld, Ends, LocalTasks, LocalTask
    <3>2. task'["take"] = IF held[1].n < TurnEvents THEN "running"
                     ELSE IF Device THEN "drain" ELSE "true"
      BY <1>6, <2>1, <2>5 DEF SubmitHeld, Ends, LocalTasks, LocalTask
    <3>3. records' = Append(records, held[1]) /\ held[1].n = sink.next /\ held[1].turn = sink.key
      BY <3>1 DEF Accepts, Submitted
    <3>4. held[1].turn # 0 /\ held[1].n \in 1..TurnEvents
      BY <1>6, SubmitHeldSink DEF Item
    <3>5. held[1].n = Accepted + 1
      BY <3>3, <3>4 DEF LocalSink
    <3>6. Accepted' = Accepted + 1 /\ Accepted \in Int
      BY <2>1, <3>3 DEF Accepted, LocalItems, LocalPlace
    <3>7. task'["take"] \in {"drain", "true"} => Accepted' = TurnEvents
      BY <3>2, <3>4, <3>5, <3>6, LocalConstants
    <3>8. turnKey' = begun' => Accepted' + Len(held') + Len(turnQueue') = fed'
      BY <2>1, <2>3, <3>6 DEF LocalItems
    <3> QED
      BY <2>1, <2>2, <3>7, <3>8 DEF LocalCount
  <2> QED
    BY <2>4, <2>5
<1>7. ASSUME Drain PROVE LocalCount'
  BY <1>7 DEF Drain, Tasking, Ends, LocalCount, Accepted, LocalShapes, LocalTasks, LocalTask,
    LocalPlace, LocalItems
<1>8. ASSUME First PROVE LocalCount'
  BY <1>8 DEF First, Driving, Begins, Closed, Device, LocalCount, Accepted, LocalShapes,
    LocalTasks, LocalTask, LocalPlace, LocalItems
<1>9. ASSUME Cuts PROVE LocalCount'
  BY <1>9 DEF Cuts, Device, LocalCount, Accepted, LocalShapes, LocalTasks, LocalTask, LocalPlace,
    LocalItems
<1>10. ASSUME Stopped PROVE LocalCount'
  BY <1>10 DEF Stopped, Driving, LocalCount, Accepted, LocalShapes, LocalTasks, LocalTask,
    LocalPlace, LocalItems
<1>11. ASSUME Second PROVE LocalCount'
  BY <1>11 DEF Second, Accepts, Begins, Closed, Device, LocalCount, Accepted, LocalShapes,
    LocalTasks, LocalTask, LocalPlace, LocalItems
<1>12. ASSUME Judges PROVE LocalCount'
  BY <1>12 DEF Judges, Driving, TurnPassed, LocalCount, Accepted, LocalShapes, LocalTasks,
    LocalTask, LocalPlace, LocalItems
<1>13. ASSUME TimesOut PROVE LocalCount'
  BY <1>13 DEF TimesOut, LocalCount, Accepted, LocalShapes, LocalTasks, LocalTask, LocalPlace,
    LocalItems
<1>14. ASSUME CleansUp PROVE LocalCount'
  BY <1>14 DEF CleansUp, Driving, Device, LocalCount, Accepted, LocalShapes, LocalTasks,
    LocalTask, LocalPlace, LocalItems
<1>15. ASSUME UNCHANGED localVars PROVE LocalCount'
  BY <1>15 DEF localVars, LocalCount, Accepted, LocalShapes, LocalTasks, LocalTask, LocalPlace,
    LocalItems
<1> QED
  BY <1>1, <1>2, <1>3, <1>4, <1>5, <1>6, <1>7, <1>8, <1>9, <1>10, <1>11, <1>12, <1>13, <1>14,
    <1>15 DEF LocalNext

LEMMA LocalReplayKept == LocalIInv /\ [LocalNext]_localVars => LocalReplay'
<1> SUFFICES ASSUME LocalIInv, [LocalNext]_localVars PROVE LocalReplay'
  OBVIOUS
<1> USE DEF LocalIInv
<1>1. ASSUME DevicePlays PROVE LocalReplay'
  BY <1>1 DEF DevicePlays, Tasking, Ends, LocalReplay, LocalTasks, LocalTask, LocalPlace,
    LocalItems
<1>2. ASSUME DeviceFails PROVE LocalReplay'
  BY <1>2 DEF DeviceFails, Tasking, Ends, LocalReplay, LocalTasks, LocalTask, LocalPlace,
    LocalItems
<1>3. ASSUME Make PROVE LocalReplay'
  BY <1>3 DEF Make, Tasking, Ends, LocalReplay, LocalTasks, LocalTask, LocalPlace, LocalItems
<1>4. ASSUME Feed PROVE LocalReplay'
  <2>1. UNCHANGED <<program, driver, records, held, begun>> /\ task'["take"] = task["take"]
    BY <1>4 DEF Feed, Tasking, Ends, LocalTasks, LocalTask
  <2>2. turnQueue' = turnQueue \/ turnQueue' = Append(turnQueue, [turn |-> begun, n |-> fed + 1])
    BY <1>4 DEF Feed
  <2>3. ASSUME program = "replay", driver = "first"
        PROVE  \A i \in DOMAIN turnQueue' : turnQueue'[i] = [turn |-> 1, n |-> i]
    <3>1. /\ task["take"] = "off" /\ records = <<>> /\ held = <<>> /\ begun = 1 /\ turnKey = 1
          /\ \A i \in DOMAIN turnQueue : turnQueue[i] = [turn |-> 1, n |-> i]
      BY <2>3 DEF LocalReplay, LocalPlace
    <3>2. Len(turnQueue) = fed
      <4>1. Accepted = 0 /\ Len(held) = 0
        BY <3>1 DEF Accepted
      <4>2. Accepted + Len(held) + Len(turnQueue) = fed
        BY <3>1 DEF LocalCount
      <4> QED
        BY <4>1, <4>2 DEF LocalItems
    <3>3. CASE turnQueue' = turnQueue
      BY <3>1, <3>3
    <3>4. CASE turnQueue' = Append(turnQueue, [turn |-> begun, n |-> fed + 1])
      <4>1. \A i \in DOMAIN turnQueue' : \/ i \in DOMAIN turnQueue /\ turnQueue'[i] = turnQueue[i]
                                         \/ i = fed + 1
                                              /\ turnQueue'[i] = [turn |-> 1, n |-> fed + 1]
        BY <3>1, <3>2, <3>4 DEF LocalItems
      <4> QED
        BY <3>1, <4>1
    <3> QED
      BY <2>2, <3>3, <3>4
  <2> QED
    BY <2>1, <2>3 DEF LocalReplay
<1>5. ASSUME Take PROVE LocalReplay'
  BY <1>5 DEF Take, Tasking, Ends, LocalReplay, LocalTasks, LocalTask, LocalPlace, LocalItems
<1>6. ASSUME SubmitHeld PROVE LocalReplay'
  BY <1>6 DEF SubmitHeld, Accepts, Submitted, Device, Tasking, Ends, LocalReplay, LocalTasks,
    LocalTask, LocalPlace, LocalItems
<1>7. ASSUME Drain PROVE LocalReplay'
  BY <1>7 DEF Drain, Tasking, Ends, LocalReplay, LocalTasks, LocalTask, LocalPlace, LocalItems
<1>8. ASSUME First PROVE LocalReplay'
  BY <1>8 DEF First, Driving, Begins, Closed, Device, LocalReplay, LocalTasks, LocalTask,
    LocalPlace, LocalItems
<1>9. ASSUME Cuts PROVE LocalReplay'
  BY <1>9 DEF Cuts, Device, LocalReplay, LocalTasks, LocalTask, LocalPlace, LocalItems
<1>10. ASSUME Stopped PROVE LocalReplay'
  BY <1>10 DEF Stopped, Driving, LocalReplay, LocalTasks, LocalTask, LocalPlace, LocalItems
<1>11. ASSUME Second PROVE LocalReplay'
  BY <1>11 DEF Second, Accepts, Begins, Closed, Device, LocalReplay, LocalTasks, LocalTask,
    LocalPlace, LocalItems
<1>12. ASSUME Judges PROVE LocalReplay'
  BY <1>12 DEF Judges, Driving, TurnPassed, LocalReplay, LocalTasks, LocalTask, LocalPlace,
    LocalItems
<1>13. ASSUME TimesOut PROVE LocalReplay'
  BY <1>13 DEF TimesOut, LocalReplay, LocalTasks, LocalTask, LocalPlace, LocalItems
<1>14. ASSUME CleansUp PROVE LocalReplay'
  BY <1>14 DEF CleansUp, Driving, Device, LocalReplay, LocalTasks, LocalTask, LocalPlace,
    LocalItems
<1>15. ASSUME UNCHANGED localVars PROVE LocalReplay'
  BY <1>15 DEF localVars, LocalReplay, LocalTasks, LocalTask, LocalPlace, LocalItems
<1> QED
  BY <1>1, <1>2, <1>3, <1>4, <1>5, <1>6, <1>7, <1>8, <1>9, <1>10, <1>11, <1>12, <1>13, <1>14,
    <1>15 DEF LocalNext

LEMMA LocalEndsKept == LocalIInv /\ [LocalNext]_localVars => LocalEnds'
<1> SUFFICES ASSUME LocalIInv, [LocalNext]_localVars PROVE LocalEnds'
  OBVIOUS
<1> USE DEF LocalIInv
<1>1. ASSUME DevicePlays PROVE LocalEnds'
  BY <1>1 DEF DevicePlays, Tasking, Ends, LocalEnds, Accepted, LocalTasks, LocalTask, Settled,
    LocalDevice, LocalPlace
<1>2. ASSUME DeviceFails PROVE LocalEnds'
  BY <1>2 DEF DeviceFails, Tasking, Ends, LocalEnds, Accepted, LocalTasks, LocalTask, Settled,
    LocalDevice, LocalPlace
<1>3. ASSUME Make PROVE LocalEnds'
  BY <1>3 DEF Make, Tasking, Ends, LocalEnds, Accepted, LocalTasks, LocalTask, Settled,
    LocalDevice, LocalPlace
<1>4. ASSUME Feed PROVE LocalEnds'
  BY <1>4 DEF Feed, Tasking, Ends, LocalEnds, Accepted, LocalTasks, LocalTask, Settled,
    LocalDevice, LocalPlace
<1>5. ASSUME Take PROVE LocalEnds'
  BY <1>5 DEF Take, Tasking, Ends, LocalEnds, Accepted, LocalTasks, LocalTask, Settled,
    LocalDevice, LocalPlace
<1>6. ASSUME SubmitHeld PROVE LocalEnds'
  BY <1>6 DEF SubmitHeld, Accepts, Submitted, Device, Tasking, Ends, LocalEnds, Accepted,
    LocalTasks, LocalTask, Settled, LocalDevice, LocalPlace
<1>7. ASSUME Drain PROVE LocalEnds'
  BY <1>7 DEF Drain, Tasking, Ends, LocalEnds, Accepted, LocalTasks, LocalTask, Settled,
    LocalDevice, LocalPlace
<1>8. ASSUME First PROVE LocalEnds'
  BY <1>8 DEF First, Driving, Begins, Closed, Device, LocalEnds, Accepted, LocalTasks, LocalTask,
    Settled, LocalDevice, LocalPlace
<1>9. ASSUME Cuts PROVE LocalEnds'
  BY <1>9 DEF Cuts, Device, LocalEnds, Accepted, LocalTasks, LocalTask, Settled, LocalDevice,
    LocalPlace
<1>10. ASSUME Stopped PROVE LocalEnds'
  BY <1>10 DEF Stopped, Driving, LocalEnds, Accepted, LocalTasks, LocalTask, Settled, LocalDevice,
    LocalPlace
<1>11. ASSUME Second PROVE LocalEnds'
  BY <1>11 DEF Second, Accepts, Begins, Closed, Device, LocalEnds, Accepted, LocalTasks,
    LocalTask, Settled, LocalDevice, LocalPlace
<1>12. ASSUME Judges PROVE LocalEnds'
  <2>1. /\ UNCHANGED <<program, records, begun, fencedAt, held, turnQueue, turnKey, task, sink,
             monitor, fed>>
        /\ driver = "second" /\ driver' = "cleanup"
    BY <1>12 DEF Judges, Driving
  <2>2. outcome' = "passed" => TurnPassed /\ (program = "speech" => monitor.early)
    BY <1>12 DEF Judges
  <2>3. Accepted' = Accepted /\ begun = 2 /\ turnKey = 2
    BY <2>1, AcceptedStays DEF LocalPlace
  <2>4. ASSUME TurnPassed PROVE Accepted = TurnEvents /\ turnQueue = <<>> /\ held = <<>>
    <3>1. task["take"] = "true"
      BY <2>1, <2>4 DEF TurnPassed, LocalCount, LocalTask
    <3>2. Accepted = TurnEvents /\ Accepted + Len(held) + Len(turnQueue) = fed
      BY <2>3, <3>1 DEF LocalCount
    <3>3. Len(held) = 0 /\ Len(turnQueue) = 0
      BY <3>2, LocalConstants DEF LocalShapes, LocalItems
    <3> QED
      BY <3>2, <3>3 DEF LocalItems
  <2> QED
    BY <2>1, <2>2, <2>3, <2>4 DEF LocalEnds, TurnPassed
<1>13. ASSUME TimesOut PROVE LocalEnds'
  BY <1>13 DEF TimesOut, LocalEnds, Accepted, LocalTasks, LocalTask, Settled, LocalDevice,
    LocalPlace
<1>14. ASSUME CleansUp PROVE LocalEnds'
  <2>1. /\ UNCHANGED <<program, records, begun, fencedAt, held, monitor, outcome>>
        /\ driver = "cleanup" /\ driver' = "over"
        /\ task' = [t \in LocalTask |-> IF task[t] \in Settled THEN task[t] ELSE "gone"]
    BY <1>14 DEF CleansUp, Driving
  <2>2. ~sink'.open
    BY <1>14, CleansUpSink DEF Same, Silenced, LocalSink
  <2>3. \A t \in LocalTask : task'[t] \in Settled
          /\ (task[t] \in {"off", "true"} => task'[t] = task[t])
    BY <2>1 DEF Settled
  <2>4. turnQueue = <<>> => turnQueue' = <<>>
    BY <1>14 DEF CleansUp
  <2>5. Accepted' = Accepted
    BY <2>1, AcceptedStays
  <2> QED
    BY <2>1, <2>2, <2>3, <2>4, <2>5 DEF LocalEnds
<1>15. ASSUME UNCHANGED localVars PROVE LocalEnds'
  BY <1>15 DEF localVars, LocalEnds, Accepted, LocalTasks, LocalTask, Settled, LocalDevice,
    LocalPlace
<1> QED
  BY <1>1, <1>2, <1>3, <1>4, <1>5, <1>6, <1>7, <1>8, <1>9, <1>10, <1>11, <1>12, <1>13, <1>14,
    <1>15 DEF LocalNext

\* Whatever the producers, the consumer, the device and the cancellation interleave: the sink
\* accepts a beginning of the first turn and then one of the second, each in order, nothing
\* of the first after its fence; a program that passes put out the second turn whole, and one
\* that is over has settled its tasks and closed its device.
THEOREM TurnsSafe == LocalSpec => []TurnsAreSeparate
<1>1. LocalIInv /\ [LocalNext]_localVars => LocalIInv'
  BY LocalShapesKept, LocalTasksKept, LocalItemsKept, LocalDeviceKept, LocalPlaceKept,
    LocalRecordsKept, LocalSinkKept, LocalCountKept, LocalReplayKept, LocalEndsKept DEF
    LocalIInv
<1>2. LocalIInv => TurnsAreSeparate
  <2> SUFFICES ASSUME LocalIInv PROVE TurnsAreSeparate
    OBVIOUS
  <2>1. LocalItems /\ LocalShapes /\ LocalPlace /\ LocalRecords /\ LocalEnds
    BY DEF LocalIInv
  <2>2. DOMAIN records = 1..Len(records) /\ Len(records) \in Nat /\ fencedAt \in Int
    BY <2>1 DEF LocalItems, LocalPlace
  <2>3. \A i \in DOMAIN records :
          records[i] = IF begun = 2 /\ i > fencedAt THEN [turn |-> 2, n |-> i - fencedAt]
                       ELSE [turn |-> 1, n |-> i]
    BY <2>1 DEF LocalRecords
  <2>4. begun = 2 => fencedAt >= 0
    BY <2>1 DEF LocalPlace
  <2>5. begun # 2 /\ fencedAt >= 0 => fencedAt = Len(records)
    BY <2>1 DEF LocalPlace, LocalShapes
  <2>6. ASSUME NEW i \in DOMAIN records
        PROVE  /\ records[i].n = IF i > 1
                    /\ records[i-1].turn = records[i].turn THEN records[i-1].n + 1 ELSE 1
               /\ i > 1 => records[i-1].turn <= records[i].turn
               /\ fencedAt >= 0 /\ i > fencedAt => records[i].turn = 2
    <3>1. i \in Nat /\ i >= 1 /\ (i > 1 => i - 1 \in DOMAIN records) /\ i <= Len(records)
      BY <2>2
    <3>2. /\ records[i].turn = (IF begun = 2 /\ i > fencedAt THEN 2 ELSE 1)
          /\ records[i].n = (IF begun = 2 /\ i > fencedAt THEN i - fencedAt ELSE i)
      BY <2>3
    <3>3. i > 1 => /\ records[i - 1].turn = (IF begun = 2 /\ i - 1 > fencedAt THEN 2 ELSE 1)
                   /\ records[i - 1].n = (IF begun = 2
                        /\ i - 1 > fencedAt THEN i - 1 - fencedAt ELSE i - 1)
      BY <2>3, <3>1
    <3>4. CASE begun = 2
      BY <2>2, <2>4, <3>1, <3>2, <3>3, <3>4
    <3>5. CASE begun # 2
      <4>1. records[i].turn = 1 /\ records[i].n = i
        BY <3>2, <3>5
      <4>2. i > 1 => records[i - 1].turn = 1 /\ records[i - 1].n = i - 1
        BY <3>3, <3>5
      <4>3. ~(fencedAt >= 0 /\ i > fencedAt)
        <5>1. fencedAt >= 0 => fencedAt = Len(records)
          BY <2>5, <3>5
        <5>2. i \in Int /\ i <= Len(records)
          BY <3>1
        <5>3. fencedAt \in Int /\ Len(records) \in Int
          BY <2>2
        <5> QED
          BY <5>1, <5>2, <5>3
      <4> QED
        BY <3>1, <4>1, <4>2, <4>3
    <3> QED
      BY <3>4, <3>5
  <2>7. outcome = "passed" =>
          /\ Len(records) = fencedAt + TurnEvents /\ turnQueue = <<>> /\ held = <<>>
          /\ program = "speech" => monitor.state = "heard"
    BY <2>1, <2>2 DEF LocalEnds, Accepted
  <2>8. driver = "over" => ~sink.open /\ \A t \in LocalTask : task[t] \in Settled
    BY <2>1 DEF LocalEnds
  <2> QED
    BY <2>6, <2>7, <2>8 DEF TurnsAreSeparate
<1> QED
  BY LocalBegins, <1>1, <1>2, PTL DEF LocalSpec

=============================================================================
