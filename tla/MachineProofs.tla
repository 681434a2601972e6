----------------------------- MODULE MachineProofs -----------------------------
(***************************************************************************)
(* Machines of one host, for any number of processes, files, frames and    *)
(* kills:                                                                  *)
(*   - OwnershipIsKept of the local profiles.  Records outlive their       *)
(*     processes and pids are used again; what holds them together is that *)
(*     a command knows, while it has operation.lock, which API can be past *)
(*     its record: none, or the one that it saw.                           *)
(*   - CacheIsWhole of the artifact cache.  Who works has the lock: what a *)
(*     process found when it took the lock is still so when it publishes,  *)
(*     and a named temporary is that of the one process that downloads.    *)
(*   - HearingIsExact of the way of the user's voice into a turn.  What    *)
(*     was heard, what the receive task holds, what lies in the queue and  *)
(*     what was sent follow each other without a hole; and the detector    *)
(*     keeps what the property reads off everything that was heard.        *)
(*   - PictureFollowsSound of the motion timeline and the frame mailbox.   *)
(*     Whatever was dropped from either has a successor that is due, or is *)
(*     over, so that both answer out of what is left as they would out of  *)
(*     everything that came.                                               *)
(***************************************************************************)
EXTENDS Profile, Artifacts, TurnInput, MotionTimeline,
        FiniteSetTheorems, SequenceTheorems, WellFoundedInduction, TLAPS

-----------------------------------------------------------------------------
(* The local profiles.                                                     *)

CmdRow ==
  [at : {"idle", "init", "sync", "compose", "spawn", "wait", "open", "confirm", "signal",
         "drain", "services", "unlink"},
   seen : Api \cup {None}, handle : Api \cup {None, Alien}]
ApiRow == [st : Live \cup {"none", "dead"}, pid : Pid \cup {None}, term : BOOLEAN]
SessRow == [api : Api \cup {None}, held : BOOLEAN, child : BOOLEAN]

\* Every variable has its type.
ProfileShapes ==
  /\ files \in 0..Whole /\ software \in {"none", "partial", "ready"}
  /\ services \in BOOLEAN /\ hit \in BOOLEAN
  /\ recorded \in Api \cup {None} /\ owner \in Api \cup {None} /\ orphans \subseteq Api
  /\ opLock \in Operator \cup {None} /\ alien \in Pid \cup {None} /\ crashes \in 0..MaxCrashes
  /\ device \in Session \cup {None}
  /\ cmd \in [Operator -> CmdRow] /\ api \in [Api -> ApiRow] /\ sess \in [Session -> SessRow]

\* Live processes have pids of their own.
PidsDiffer ==
  \A a \in Api : api[a].st \in Live =>
    /\ api[a].pid \in Pid /\ api[a].pid # alien
    /\ \A b \in Api : api[b].st \in Live /\ api[b].pid = api[a].pid => a = b

\* An API that may write a record holds api-owner.lock.
OwnerHolds ==
  \A a \in Api : api[a].st \in {"locked", "recorded", "serving", "leaving"} => owner = a

\* An API that is not recorded yet has its launcher, which holds operation.lock.
LaunchersWait ==
  \A a \in Api \ orphans : api[a].st \in {"starting", "locked"} =>
    opLock \in Operator /\ cmd[opLock].at = "wait" /\ cmd[opLock].seen = a

Unkept(a) == a \in orphans \/ api[a].st \notin Kept

\* What an operator knows at each stage of its command.
StageIsSound(o) ==
  /\ cmd[o].at \notin {"idle", "init"} => opLock = o
  /\ cmd[o].at = "init" =>
       files \in 1..(Whole - 1) /\ \A q \in Operator : cmd[q].at = "init" => q = o
  /\ cmd[o].at \in {"compose", "spawn", "services", "unlink"} => \A a \in Api : Unkept(a)
  /\ cmd[o].at \in {"spawn", "wait"} => services
  /\ cmd[o].at = "wait" => cmd[o].seen \in Api
  /\ cmd[o].at \in {"open", "confirm", "signal", "drain"} =>
       /\ cmd[o].seen \in Api /\ api[cmd[o].seen].st # "none"
       /\ \A a \in Api \ {cmd[o].seen} : Unkept(a)
  /\ cmd[o].at = "confirm" =>
       cmd[o].handle = cmd[o].seen \/ api[cmd[o].seen].st \notin Live
  /\ cmd[o].at \in {"signal", "drain"} => cmd[o].handle = cmd[o].seen

\* Only the session whose description has the lock has a descriptor or a child.
LeaseIsHeld == \A s \in Session : sess[s].held \/ sess[s].child => device = s

ProfileConsistent ==
  /\ ProfileShapes /\ PidsDiffer /\ OwnerHolds /\ LaunchersWait
  /\ \A o \in Operator : StageIsSound(o)
  /\ OwnedApiIsKept /\ LeaseIsHeld /\ hit = FALSE

-----------------------------------------------------------------------------
(* Constants and the kernel.                                               *)

\* Nothing is named like anything else.
LEMMA Names ==
  /\ None \notin Operator /\ None \notin Pid /\ None \notin Api /\ None \notin Session
  /\ Alien \notin Api /\ Refused \notin Api /\ Refused # Alien
  /\ Api \subseteq Nat /\ Session \subseteq Nat
BY ProfileAssumption DEF Api, Session, Alien, Refused

\* The process that has the pid of a live API is that API.
LEMMA AtPidOfLive ==
  ASSUME ProfileConsistent, NEW a \in Api, api[a].st \in Live
  PROVE  AtPid(PidOf(a)) = a
<1>1. a \in LiveApis /\ PidOf(a) # alien
  BY DEF LiveApis, ProfileConsistent, PidsDiffer, PidOf
<1>2. \A b \in LiveApis : PidOf(b) = PidOf(a) => b = a
  BY DEF LiveApis, ProfileConsistent, PidsDiffer, PidOf
<1>3. (CHOOSE b \in LiveApis : PidOf(b) = PidOf(a)) = a
  BY <1>1, <1>2
<1> QED  BY <1>1, <1>3 DEF AtPid

\* An API that is found by its record is recorded and lives.
LEMMA FoundIsLive ==
  ASSUME ProfileConsistent, NEW a \in Api, OwnedProcess = a
  PROVE  recorded = a /\ api[a].st \in Live
<1>1. recorded # None /\ AtPid(PidOf(recorded)) = a /\ recorded = a
  BY Names DEF OwnedProcess
<1>2. PidOf(a) # alien
  BY <1>1, Names DEF AtPid
<1>3. a \in LiveApis
  <2>1. CASE \E b \in LiveApis : PidOf(b) = PidOf(a)
    BY <1>1, <1>2, <2>1 DEF AtPid
  <2>2. CASE ~\E b \in LiveApis : PidOf(b) = PidOf(a)
    BY <1>1, <1>2, <2>2, Names DEF AtPid
  <2> QED  BY <2>1, <2>2
<1> QED  BY <1>1, <1>3 DEF LiveApis

\* An API past its record is found, unless its launcher was gone before the record.
LEMMA KeptIsFound ==
  ASSUME ProfileConsistent, NEW a \in Api, ~Unkept(a)
  PROVE  OwnedProcess = a
<1>1. recorded = a /\ api[a].st \in Live
  BY DEF ProfileConsistent, OwnedApiIsKept, Unkept, Kept, Live
<1>2. AtPid(PidOf(recorded)) = recorded
  BY <1>1, AtPidOfLive
<1> QED  BY <1>1, <1>2, Names DEF OwnedProcess

\* While one operator has operation.lock, the others are idle or make the profile.
LEMMA OneCommand ==
  ASSUME ProfileConsistent, NEW o \in Operator, opLock \in {None, o}, NEW q \in Operator \ {o}
  PROVE  cmd[q].at \in {"idle", "init"}
BY Names DEF ProfileConsistent, StageIsSound

-----------------------------------------------------------------------------
(* The device lease.                                                       *)

\* Descriptors that are closed, or inherited, keep the lease with its session.
LEMMA LeaseFollows ==
  ASSUME ProfileConsistent, NEW t \in [Session -> SessRow], NowOpen(t),
         \A s \in Session : t[s].held \/ t[s].child => sess[s].held \/ sess[s].child
  PROVE  LeaseIsHeld' /\ sess' \in [Session -> SessRow] /\ device' \in Session \cup {None}
<1>1. sess' = t /\ (device' = device \/ device' = None)
  BY DEF NowOpen, Freed
<1>2. ASSUME NEW s \in Session, t[s].held \/ t[s].child
      PROVE  device' = s
  <2>1. device = s
    BY <1>2 DEF ProfileConsistent, LeaseIsHeld
  <2> QED  BY <1>2, <2>1 DEF NowOpen, Freed
<1> QED  BY <1>1, <1>2 DEF ProfileConsistent, ProfileShapes, LeaseIsHeld

\* Steps that change the lease only.
LEMMA LeaseOnly ==
  ASSUME ProfileConsistent, DeviceOnly, LeaseIsHeld', sess' \in [Session -> SessRow],
         device' \in Session \cup {None}
  PROVE  ProfileConsistent'
BY DEF ProfileConsistent, ProfileShapes, DeviceOnly, setupVars, opVars, apiVars, PidsDiffer,
       OwnerHolds, LaunchersWait, StageIsSound, Unkept, OwnedApiIsKept

\* Taking the device, inheriting it, ending a child and releasing it.
LEMMA DeviceKeeps ==
  ASSUME ProfileConsistent, DeviceStep
  PROVE  ProfileConsistent'
<1>1. sess \in [Session -> SessRow] /\ device \in Session \cup {None}
  BY DEF ProfileConsistent, ProfileShapes
<1>2. ASSUME NEW s \in Session, NEW a \in Api, Acquire(a, s)
      PROVE  ProfileConsistent'
  <2> DEFINE row == [api |-> a, held |-> TRUE, child |-> FALSE]
  <2>1. sess' = [sess EXCEPT ![s] = row] /\ device' = s /\ device = None
    BY <1>2 DEF Acquire
  <2>2. row \in SessRow
    BY DEF SessRow
  <2>3. \A t \in Session : ~(sess[t].held \/ sess[t].child)
    BY <2>1, Names DEF ProfileConsistent, LeaseIsHeld
  <2> HIDE DEF row
  <2>4. LeaseIsHeld' /\ sess' \in [Session -> SessRow]
    BY <1>1, <2>1, <2>2, <2>3 DEF LeaseIsHeld
  <2> QED  BY <1>2, <2>1, <2>4, LeaseOnly DEF Acquire
<1>3. ASSUME NEW s \in Session, ChildStarts(s)
      PROVE  ProfileConsistent'
  <2> DEFINE row == [sess[s] EXCEPT !.child = TRUE]
             t == [sess EXCEPT ![s] = row]
  <2>1. row \in SessRow /\ sess[s].held
    BY <1>1, <1>3 DEF SessRow, ChildStarts
  <2>2. NowOpen(t)
    BY <1>3 DEF ChildStarts
  <2> HIDE DEF row
  <2>3. t \in [Session -> SessRow]
        /\ \A u \in Session : t[u].held \/ t[u].child => sess[u].held \/ sess[u].child
    BY <1>1, <2>1
  <2> HIDE DEF t
  <2> QED  BY <1>3, <2>2, <2>3, LeaseFollows, LeaseOnly DEF ChildStarts
<1>4. ASSUME NEW s \in Session, ChildEnds(s)
      PROVE  ProfileConsistent'
  <2> DEFINE row == [sess[s] EXCEPT !.child = FALSE]
             t == [sess EXCEPT ![s] = row]
  <2>1. row \in SessRow /\ sess[s].child
    BY <1>1, <1>4 DEF SessRow, ChildEnds
  <2>2. NowOpen(t)
    BY <1>4 DEF ChildEnds
  <2> HIDE DEF row
  <2>3. t \in [Session -> SessRow]
        /\ \A u \in Session : t[u].held \/ t[u].child => sess[u].held \/ sess[u].child
    BY <1>1, <2>1
  <2> HIDE DEF t
  <2> QED  BY <1>4, <2>2, <2>3, LeaseFollows, LeaseOnly DEF ChildEnds
<1>5. ASSUME NEW s \in Session, Release(s)
      PROVE  ProfileConsistent'
  <2> DEFINE row == [sess[s] EXCEPT !.held = FALSE]
             t == [sess EXCEPT ![s] = row]
  <2>1. row \in SessRow /\ sess[s].held
    BY <1>1, <1>5 DEF SessRow, Release
  <2>2. NowOpen(t)
    BY <1>5 DEF Release
  <2> HIDE DEF row
  <2>3. t \in [Session -> SessRow]
        /\ \A u \in Session : t[u].held \/ t[u].child => sess[u].held \/ sess[u].child
    BY <1>1, <2>1
  <2> HIDE DEF t
  <2> QED  BY <1>5, <2>2, <2>3, LeaseFollows, LeaseOnly DEF Release
<1> QED  BY <1>2, <1>3, <1>4, <1>5 DEF DeviceStep

-----------------------------------------------------------------------------
(* API processes.                                                          *)

\* A step of one live API: its row, the record, its lock and its descriptors.
LEMMA ApiMoves ==
  ASSUME ProfileConsistent, NEW a \in Api, NEW r \in ApiRow, api[a].st \in Live,
         api' = [api EXCEPT ![a] = r], r.pid = api[a].pid, r.st # "none",
         r.st \in {"starting", "locked"} => api[a].st \in {"starting", "locked"},
         \/ r.st \notin Kept \/ ~Unkept(a) \/ a \in orphans
         \/ api[a].st = "locked",
         recorded' \in Api \cup {None}, owner' \in Api \cup {None},
         crashes' \in 0..MaxCrashes,
         OwnerHolds', OwnedApiIsKept', LeaseIsHeld', sess' \in [Session -> SessRow],
         device' \in Session \cup {None}, UNCHANGED orphans, ApiOnly
  PROVE  ProfileConsistent'
<1> USE DEF ApiOnly, setupVars, opVars
<1>1. /\ api' \in [Api -> ApiRow] /\ api'[a] = r
      /\ \A b \in Api \ {a} : api'[b] = api[b]
  BY DEF ProfileConsistent, ProfileShapes
<1>2. ProfileShapes' /\ hit' = FALSE
  BY <1>1 DEF ProfileConsistent, ProfileShapes
<1>3. PidsDiffer'
  BY <1>1 DEF ProfileConsistent, PidsDiffer
<1>4. LaunchersWait'
  BY <1>1 DEF ProfileConsistent, LaunchersWait
<1>5. ASSUME NEW o \in Operator
      PROVE  StageIsSound(o)'
  <2>1. StageIsSound(o)
    BY DEF ProfileConsistent
  <2>2. ASSUME NEW b \in Api, Unkept(b), ~Unkept(b)'
        PROVE  opLock \in Operator /\ cmd[opLock].at = "wait"
    <3>1. b = a /\ a \notin orphans /\ api[a].st = "locked"
      BY <1>1, <2>2 DEF Unkept
    <3> QED  BY <3>1 DEF ProfileConsistent, LaunchersWait
  <2>3. cmd[o].at \in {"compose", "spawn", "services", "unlink", "open", "confirm", "signal", "drain"}
          => \A b \in Api : Unkept(b) => Unkept(b)'
    BY <2>1, <2>2 DEF StageIsSound
  <2> QED  BY <1>1, <2>1, <2>3 DEF StageIsSound
<1> QED  BY <1>2, <1>3, <1>4, <1>5 DEF ProfileConsistent

\* A live API that moves on, or is told to end.
LEMMA ApiGoesOn ==
  ASSUME ProfileConsistent, NEW a \in Api, NEW st \in Live, Becomes(a, st)
  PROVE  \E r \in ApiRow : /\ r.st = st /\ r.pid = api[a].pid
                           /\ api' = [api EXCEPT ![a] = r] /\ r.st # "none"
<1> DEFINE r == [api[a] EXCEPT !.st = st]
<1>1. r \in ApiRow /\ r.st = st /\ r.pid = api[a].pid
  BY DEF ProfileConsistent, ProfileShapes, ApiRow
<1>2. api' = [api EXCEPT ![a] = r]
  BY DEF ProfileConsistent, ProfileShapes, Becomes
<1> HIDE DEF r
<1> QED  BY <1>1, <1>2 DEF Live

\* The end of a process.
LEMMA DeadKeeps ==
  ASSUME ProfileConsistent, NEW a \in Api, api[a].st \in Live, Dead(a), ApiOnly,
         recorded' = recorded \/ (recorded = a /\ recorded' = None),
         crashes' \in 0..MaxCrashes, UNCHANGED orphans
  PROVE  ProfileConsistent'
<1> DEFINE r == [api[a] EXCEPT !.st = "dead", !.term = FALSE]
           t == [s \in Session |->
                   IF sess[s].api = a THEN [sess[s] EXCEPT !.held = FALSE] ELSE sess[s]]
<1>1. /\ api \in [Api -> ApiRow] /\ sess \in [Session -> SessRow]
      /\ recorded \in Api \cup {None} /\ owner \in Api \cup {None} /\ services' = services
  BY DEF ProfileConsistent, ProfileShapes, ApiOnly
<1>2. r \in ApiRow /\ r.st = "dead" /\ r.pid = api[a].pid
  BY <1>1 DEF ApiRow
<1>3. api' = [api EXCEPT ![a] = r]
  BY <1>1 DEF Dead
<1>4. NowOpen(t) /\ owner' = IF owner = a THEN None ELSE owner
  BY DEF Dead
<1>5. \A s \in Session : t[s] \in SessRow /\ (t[s].held => sess[s].held) /\ t[s].child = sess[s].child
  BY <1>1 DEF SessRow
<1> HIDE DEF r
<1>6. t \in [Session -> SessRow]
  BY <1>5
<1> HIDE DEF t
<1>7. LeaseIsHeld' /\ sess' \in [Session -> SessRow] /\ device' \in Session \cup {None}
  BY <1>4, <1>5, <1>6, LeaseFollows
<1>8. OwnerHolds'
  BY <1>1, <1>2, <1>3, <1>4 DEF ProfileConsistent, OwnerHolds
<1>9. OwnedApiIsKept'
  BY <1>1, <1>2, <1>3 DEF ProfileConsistent, OwnedApiIsKept, Kept
<1>10. recorded' \in Api \cup {None} /\ owner' \in Api \cup {None} /\ r.st \notin Kept
  BY <1>1, <1>2, <1>4 DEF Kept
<1> QED  BY <1>2, <1>3, <1>7, <1>8, <1>9, <1>10, ApiMoves

\* The owner lock, the record, serving, a signal, the end and a kill.
LEMMA ApiKeeps ==
  ASSUME ProfileConsistent, NEW a \in Api, ApiStep(a)
  PROVE  ProfileConsistent'
<1>1. /\ api \in [Api -> ApiRow] /\ sess \in [Session -> SessRow]
      /\ recorded \in Api \cup {None} /\ owner \in Api \cup {None}
      /\ device \in Session \cup {None} /\ crashes \in 0..MaxCrashes
      /\ LeaseIsHeld
  BY DEF ProfileConsistent, ProfileShapes
<1>2. UNCHANGED <<sess, device>> => LeaseIsHeld' /\ sess' \in [Session -> SessRow]
                                    /\ device' \in Session \cup {None}
  BY <1>1 DEF LeaseIsHeld
<1>3. CASE ApiGuard(a)
  <2>1. CASE Dead(a)
    BY <1>1, <1>3, <2>1, DeadKeeps DEF ApiGuard, Live
  <2>2. CASE owner = None /\ owner' = a /\ Becomes(a, "locked") /\ UNCHANGED deviceVars
    <3>1. /\ UNCHANGED <<sess, device, recorded, orphans, crashes>> /\ ApiOnly
          /\ api[a].st = "starting"
      BY <1>3, <2>2 DEF ApiGuard, deviceVars
    <3>2. PICK r \in ApiRow : /\ r.st = "locked" /\ r.pid = api[a].pid
                              /\ api' = [api EXCEPT ![a] = r]
      BY <2>2, ApiGoesOn DEF Live
    <3>3. OwnerHolds'
      BY <1>1, <2>2, <3>2, Names DEF ProfileConsistent, OwnerHolds
    <3>4. OwnedApiIsKept'
      BY <1>1, <3>1, <3>2 DEF ProfileConsistent, OwnedApiIsKept, Kept, ApiOnly
    <3>5. r.st \notin Kept /\ api[a].st \in Live
      BY <3>1, <3>2 DEF Kept, Live
    <3> QED  BY <1>1, <1>2, <2>2, <3>1, <3>2, <3>3, <3>4, <3>5, ApiMoves
  <2> QED  BY <1>3, <2>1, <2>2 DEF ApiGuard
<1>4. CASE ApiRecord(a)
  <2>1. /\ UNCHANGED <<sess, device, owner, orphans, crashes>> /\ ApiOnly /\ services' = services
        /\ api[a].st = "locked" /\ recorded' = a /\ Becomes(a, "recorded")
    BY <1>4 DEF ApiRecord, deviceVars, ApiOnly
  <2>2. PICK r \in ApiRow : /\ r.st = "recorded" /\ r.pid = api[a].pid
                            /\ api' = [api EXCEPT ![a] = r]
    BY <2>1, ApiGoesOn DEF Live
  <2>3. OwnerHolds'
    BY <1>1, <2>1, <2>2 DEF ProfileConsistent, OwnerHolds
  <2>4. OwnedApiIsKept'
    <3>1. ASSUME NEW b \in Api \ orphans, api'[b].st \in Kept
          PROVE  b = a
      <4>1. CASE b # a
        <5>1. owner = b /\ owner = a
          BY <1>1, <2>1, <2>2, <3>1, <4>1 DEF ProfileConsistent, OwnerHolds, Kept
        <5> QED  BY <4>1, <5>1
      <4> QED  BY <4>1
    <3>2. a \notin orphans => services
      BY <2>1 DEF ProfileConsistent, LaunchersWait, StageIsSound
    <3> QED  BY <2>1, <3>1, <3>2 DEF OwnedApiIsKept
  <2>5. api[a].st \in Live
    BY <2>1 DEF Live
  <2> QED  BY <1>1, <1>2, <2>1, <2>2, <2>3, <2>4, <2>5, ApiMoves
<1>5. CASE ApiServe(a)
  <2>1. /\ UNCHANGED <<sess, device, owner, orphans, crashes, recorded>> /\ ApiOnly
        /\ services' = services /\ api[a].st = "recorded"
    BY <1>5 DEF ApiServe, deviceVars, ApiOnly
  <2>2. PICK r \in ApiRow : /\ r.st \in {"serving", "leaving"} /\ r.pid = api[a].pid
                            /\ api' = [api EXCEPT ![a] = r]
    BY <1>5, ApiGoesOn DEF Live, ApiServe
  <2>3. OwnerHolds'
    BY <1>1, <2>1, <2>2 DEF ProfileConsistent, OwnerHolds
  <2>4. OwnedApiIsKept'
    BY <1>1, <2>1, <2>2 DEF ProfileConsistent, OwnedApiIsKept, Kept
  <2>5. api[a].st \in Live /\ (~Unkept(a) \/ a \in orphans)
    BY <2>1 DEF Live, Unkept, Kept
  <2> QED  BY <1>1, <1>2, <2>1, <2>2, <2>3, <2>4, <2>5, ApiMoves
<1>6. CASE ApiTerm(a)
  <2>1. UNCHANGED <<recorded, orphans, crashes>> /\ ApiOnly
    BY <1>6 DEF ApiTerm
  <2>2. CASE api[a].st = "recorded" /\ Dead(a)
    BY <1>1, <2>1, <2>2, DeadKeeps DEF Live
  <2>3. CASE api[a].st = "serving" /\ Becomes(a, "leaving") /\ UNCHANGED <<owner, deviceVars>>
    <3>1. PICK r \in ApiRow : /\ r.st = "leaving" /\ r.pid = api[a].pid
                              /\ api' = [api EXCEPT ![a] = r]
      BY <2>3, ApiGoesOn DEF Live
    <3>2. OwnerHolds'
      BY <1>1, <2>3, <3>1 DEF ProfileConsistent, OwnerHolds
    <3>3. OwnedApiIsKept'
      BY <1>1, <2>1, <3>1 DEF ProfileConsistent, OwnedApiIsKept, Kept, ApiOnly
    <3>4. api[a].st \in Live /\ r.st \notin Kept /\ UNCHANGED <<sess, device, owner>>
      BY <2>3, <3>1 DEF Live, Kept, deviceVars
    <3> QED  BY <1>1, <1>2, <2>1, <3>1, <3>2, <3>3, <3>4, ApiMoves
  <2> QED  BY <1>6, <2>2, <2>3 DEF ApiTerm
<1>7. CASE ApiLeave(a)
  BY <1>1, <1>7, DeadKeeps DEF ApiLeave, Live
<1>8. CASE ApiKilled(a)
  <2>1. crashes' \in 0..MaxCrashes
    BY <1>1, <1>8, ProfileAssumption DEF ApiKilled, Crash
  <2> QED  BY <1>1, <1>8, <2>1, DeadKeeps DEF ApiKilled
<1> QED  BY <1>3, <1>4, <1>5, <1>6, <1>7, <1>8 DEF ApiStep

-----------------------------------------------------------------------------
(* Operators.                                                              *)

\* A step of one operator: its row and its lock, and what it may change with them.
LEMMA OperatorMoves ==
  ASSUME ProfileConsistent, NEW o \in Operator, NEW r \in CmdRow,
         cmd' = [cmd EXCEPT ![o] = r],
         \/ /\ r.at \in {"idle", "init"}
            /\ opLock' = opLock \/ (opLock = o /\ opLock' = None)
         \/ opLock \in {None, o} /\ opLock' = o,
         opLock = o \/ opLock' = o \/ UNCHANGED <<services, recorded, orphans>>,
         files' \in 0..Whole, files' = files \/ \A q \in Operator \ {o} : cmd[q].at # "init",
         software' \in {"none", "partial", "ready"}, services' \in BOOLEAN,
         recorded' \in Api \cup {None}, orphans \subseteq orphans', orphans' \subseteq Api,
         api' \in [Api -> ApiRow],
         \A a \in Api : api'[a].st = api[a].st /\ api'[a].pid = api[a].pid,
         crashes' \in 0..MaxCrashes,
         StageIsSound(o)', OwnedApiIsKept', LaunchersWait',
         UNCHANGED <<owner, alien, hit, sess, device>>
  PROVE  ProfileConsistent'
<1>1. /\ cmd' \in [Operator -> CmdRow] /\ cmd'[o] = r
      /\ \A q \in Operator \ {o} : cmd'[q] = cmd[q]
  BY DEF ProfileConsistent, ProfileShapes
<1>2. opLock' \in Operator \cup {None}
  BY DEF ProfileConsistent, ProfileShapes
<1>3. ProfileShapes' /\ hit' = FALSE
  BY <1>1, <1>2 DEF ProfileConsistent, ProfileShapes
<1>4. PidsDiffer' /\ OwnerHolds' /\ LeaseIsHeld'
  BY DEF ProfileConsistent, PidsDiffer, OwnerHolds, LeaseIsHeld
<1>5. ASSUME NEW q \in Operator \ {o}
      PROVE  StageIsSound(q)'
  <2>1. StageIsSound(q) /\ cmd'[q] = cmd[q]
    BY <1>1 DEF ProfileConsistent
  <2>2. cmd[q].at = "init" =>
          /\ files' \in 1..(Whole - 1)
          /\ \A p \in Operator : cmd'[p].at = "init" => p = q
    <3>1. CASE cmd[q].at = "init"
      <4>1. files' = files /\ files \in 1..(Whole - 1) /\ cmd[o].at # "init"
        BY <2>1, <3>1 DEF StageIsSound
      <4>2. r.at # "init"
        BY <1>1, <2>1, <3>1 DEF StageIsSound
      <4> QED  BY <1>1, <2>1, <3>1, <4>1, <4>2 DEF StageIsSound
    <3> QED  BY <3>1
  <2>3. CASE cmd[q].at \in {"idle", "init"}
    BY <2>1, <2>2, <2>3 DEF StageIsSound
  <2>4. CASE cmd[q].at \notin {"idle", "init"}
    <3>1. opLock = q /\ q # None
      BY <2>1, <2>4, Names DEF StageIsSound
    <3>2. opLock' = q /\ UNCHANGED <<services, recorded, orphans>>
      BY <3>1
    <3> QED  BY <2>1, <2>2, <2>4, <3>2 DEF StageIsSound, Unkept
  <2> QED  BY <2>3, <2>4
<1> QED  BY <1>3, <1>4, <1>5 DEF ProfileConsistent

\* The end of a command, by itself or by a kill; if it waited for an API that is not
\* recorded yet, that one is an orphan.
LEMMA OperatorQuits ==
  ASSUME ProfileConsistent, NEW o \in Operator, Quits(o),
         \/ cmd[o].at # "wait" /\ orphans' = orphans
         \/ Leaves(o),
         opLock = o \/ UNCHANGED <<services, recorded>>,
         UNCHANGED <<files, api, owner, alien, hit, sess, device>>,
         software' \in {"none", "partial", "ready"}, services' \in BOOLEAN,
         recorded' \in Api \cup {None}, crashes' \in 0..MaxCrashes, OwnedApiIsKept'
  PROVE  ProfileConsistent'
<1>1. /\ cmd \in [Operator -> CmdRow] /\ api \in [Api -> ApiRow] /\ files \in 0..Whole
      /\ orphans \subseteq Api
  BY DEF ProfileConsistent, ProfileShapes
<1>2. /\ NoCommand \in CmdRow /\ NoCommand.at = "idle" /\ cmd' = [cmd EXCEPT ![o] = NoCommand]
      /\ opLock' = IF opLock = o THEN None ELSE opLock
  BY DEF NoCommand, CmdRow, Quits
<1>3. /\ orphans \subseteq orphans' /\ orphans' \subseteq Api
      /\ opLock = o \/ orphans' = orphans
      /\ cmd[o].at = "wait" /\ api[cmd[o].seen].st \in {"starting", "locked"} =>
           cmd[o].seen \in orphans'
  <2>1. cmd[o].at = "wait" => cmd[o].seen \in Api /\ opLock = o
    BY DEF ProfileConsistent, StageIsSound
  <2> QED  BY <1>1, <2>1 DEF Leaves
<1>4. StageIsSound(o)'
  BY <1>1, <1>2 DEF StageIsSound
<1>5. LaunchersWait'
  <2>1. ASSUME NEW a \in Api \ orphans', api[a].st \in {"starting", "locked"}
        PROVE  opLock # o /\ opLock \in Operator /\ cmd[opLock].at = "wait" /\ cmd[opLock].seen = a
    <3>1. opLock \in Operator /\ cmd[opLock].at = "wait" /\ cmd[opLock].seen = a
      BY <1>3, <2>1 DEF ProfileConsistent, LaunchersWait
    <3> QED  BY <1>3, <2>1, <3>1
  <2> QED  BY <1>1, <1>2, <2>1 DEF LaunchersWait
<1> QED  BY <1>1, <1>2, <1>3, <1>4, <1>5, OperatorMoves

\* A step that keeps or takes operation.lock and is none of a launcher that waits.
LEMMA OperatorGoes ==
  ASSUME ProfileConsistent, NEW o \in Operator, NEW r \in CmdRow,
         cmd' = [cmd EXCEPT ![o] = r], r.at # "wait", cmd[o].at # "wait",
         opLock \in {None, o}, opLock' = o,
         UNCHANGED <<files, orphans, crashes, owner, alien, hit, sess, device>>,
         software' \in {"none", "partial", "ready"}, services' \in BOOLEAN,
         recorded' \in Api \cup {None}, api' \in [Api -> ApiRow],
         \A a \in Api : api'[a].st = api[a].st /\ api'[a].pid = api[a].pid,
         StageIsSound(o)', OwnedApiIsKept'
  PROVE  ProfileConsistent'
<1>1. files \in 0..Whole /\ orphans \subseteq Api /\ crashes \in 0..MaxCrashes
  BY DEF ProfileConsistent, ProfileShapes
<1>2. LaunchersWait'
  <2>1. ASSUME NEW a \in Api \ orphans, api[a].st \in {"starting", "locked"}
        PROVE  FALSE
    BY <2>1, Names DEF ProfileConsistent, LaunchersWait
  <2> QED  BY <2>1 DEF LaunchersWait
<1> QED  BY <1>1, <1>2, OperatorMoves

\* What a command learns when it takes the lock.
LEMMA Entered ==
  ASSUME ProfileConsistent, NEW o \in Operator, NEW found \in Api \cup {None}, Enter(o, found)
  PROVE  /\ opLock = None /\ opLock' = o /\ cmd[o].at = "idle"
         /\ \A a \in Api \ {found} : Unkept(a)
         /\ found \in Api => api[found].st \in Live
<1>1. \A a \in Api : ~Unkept(a) => found = a
  BY KeptIsFound DEF Enter
<1>2. found \in Api => api[found].st \in Live
  BY FoundIsLive DEF Enter
<1> QED  BY <1>1, <1>2 DEF Enter

\* init and provision.
LEMMA SetupKeeps ==
  ASSUME ProfileConsistent, NEW o \in Operator,
         InitBegin(o) \/ InitWrite(o) \/ ProvisionBegin(o) \/ ProvisionEnd(o)
  PROVE  ProfileConsistent'
<1>1. /\ cmd \in [Operator -> CmdRow] /\ api \in [Api -> ApiRow] /\ files \in 0..Whole
      /\ orphans \subseteq Api /\ crashes \in 0..MaxCrashes /\ services \in BOOLEAN
      /\ recorded \in Api \cup {None} /\ opLock \in Operator \cup {None} /\ StageIsSound(o)
      /\ software \in {"none", "partial", "ready"}
  BY DEF ProfileConsistent, ProfileShapes
<1>2. UNCHANGED <<services, recorded, api, orphans>> => OwnedApiIsKept'
  BY DEF ProfileConsistent, OwnedApiIsKept
<1>3. CASE InitBegin(o)
  <2> DEFINE r == [cmd[o] EXCEPT !.at = "init"]
  <2>1. r \in CmdRow /\ r.at = "init"
    BY <1>1 DEF CmdRow
  <2>2. /\ cmd' = [cmd EXCEPT ![o] = r] /\ files = 0 /\ files' = 1 /\ cmd[o].at = "idle"
        /\ UNCHANGED <<software, services, opLock, recorded, api, owner, orphans, alien, hit,
                       sess, device, crashes>>
    BY <1>1, <1>3 DEF InitBegin, Goes, apiVars, deviceVars
  <2> HIDE DEF r
  <2>3. \A q \in Operator : cmd[q].at # "init"
    BY <2>2 DEF ProfileConsistent, StageIsSound
  <2>4. StageIsSound(o)' /\ files' \in 0..Whole
    BY <1>1, <2>1, <2>2, <2>3 DEF StageIsSound, Whole
  <2>5. LaunchersWait'
    BY <1>1, <2>1, <2>2 DEF ProfileConsistent, LaunchersWait
  <2> QED  BY <1>1, <1>2, <2>1, <2>2, <2>3, <2>4, <2>5, OperatorMoves
<1>4. CASE InitWrite(o)
  <2>1. /\ files' = files + 1 /\ cmd[o].at = "init" /\ files \in 1..(Whole - 1)
        /\ \A q \in Operator \ {o} : cmd[q].at # "init"
        /\ UNCHANGED <<software, services, opLock, recorded, api, owner, orphans, alien, hit,
                       sess, device, crashes>>
    BY <1>1, <1>4 DEF InitWrite, apiVars, deviceVars, StageIsSound
  <2>2. PICK r \in CmdRow : /\ cmd' = [cmd EXCEPT ![o] = r]
                            /\ \/ r.at = "idle"
                               \/ r.at = "init" /\ files' \in 1..(Whole - 1)
    <3>1. CASE files' = Whole
      <4>1. NoCommand \in CmdRow /\ NoCommand.at = "idle"
        BY DEF NoCommand, CmdRow
      <4> QED  BY <1>4, <3>1, <4>1 DEF InitWrite
    <3>2. CASE files' # Whole
      <4>1. cmd' = [cmd EXCEPT ![o] = cmd[o]] /\ cmd[o] \in CmdRow
        BY <1>1, <1>4, <3>2 DEF InitWrite
      <4>2. files' \in 1..(Whole - 1)
        BY <2>1, <3>2 DEF Whole
      <4> QED  BY <2>1, <4>1, <4>2
    <3> QED  BY <3>1, <3>2
  <2>3. StageIsSound(o)' /\ files' \in 0..Whole
    BY <1>1, <2>1, <2>2 DEF StageIsSound, Whole
  <2>4. LaunchersWait'
    BY <1>1, <2>1, <2>2 DEF ProfileConsistent, LaunchersWait
  <2> QED  BY <1>1, <1>2, <2>1, <2>2, <2>3, <2>4, OperatorMoves
<1>5. CASE ProvisionBegin(o)
  <2> DEFINE r == [cmd[o] EXCEPT !.at = "sync"]
  <2>1. r \in CmdRow /\ r.at = "sync"
    BY <1>1 DEF CmdRow
  <2>2. /\ cmd' = [cmd EXCEPT ![o] = r] /\ Enter(o, None) /\ software' = "partial"
        /\ UNCHANGED <<files, services, recorded, api, owner, orphans, alien, hit,
                       sess, device, crashes>>
    BY <1>1, <1>5 DEF ProvisionBegin, Goes, apiVars, deviceVars
  <2> HIDE DEF r
  <2>3. opLock = None /\ opLock' = o /\ cmd[o].at = "idle"
    BY <2>2 DEF Enter
  <2>4. StageIsSound(o)'
    BY <1>1, <2>1, <2>2, <2>3 DEF StageIsSound
  <2> QED  BY <1>1, <1>2, <2>1, <2>2, <2>3, <2>4, OperatorGoes
<1>6. CASE ProvisionEnd(o)
  <2>1. /\ Quits(o) /\ cmd[o].at = "sync" /\ software' \in {"partial", "ready"}
        /\ UNCHANGED <<files, services, recorded, api, owner, orphans, alien, hit,
                       sess, device, crashes>>
    BY <1>6 DEF ProvisionEnd, apiVars, deviceVars
  <2> QED  BY <1>1, <1>2, <2>1, OperatorQuits
<1> QED  BY <1>3, <1>4, <1>5, <1>6

\* up: compose, the child that it starts, and the wait for it.
LEMMA UpKeeps ==
  ASSUME ProfileConsistent, NEW o \in Operator,
         UpBegin(o) \/ UpCompose(o) \/ UpSpawn(o) \/ UpEnd(o)
  PROVE  ProfileConsistent'
<1>1. /\ cmd \in [Operator -> CmdRow] /\ api \in [Api -> ApiRow] /\ files \in 0..Whole
      /\ orphans \subseteq Api /\ crashes \in 0..MaxCrashes /\ services \in BOOLEAN
      /\ recorded \in Api \cup {None} /\ opLock \in Operator \cup {None} /\ StageIsSound(o)
      /\ software \in {"none", "partial", "ready"}
  BY DEF ProfileConsistent, ProfileShapes
<1>2. UNCHANGED <<services, recorded, api, orphans>> => OwnedApiIsKept'
  BY DEF ProfileConsistent, OwnedApiIsKept
<1>3. CASE UpBegin(o)
  <2> DEFINE r == [cmd[o] EXCEPT !.at = "compose"]
  <2>1. r \in CmdRow /\ r.at = "compose"
    BY <1>1 DEF CmdRow
  <2>2. /\ cmd' = [cmd EXCEPT ![o] = r] /\ Enter(o, None)
        /\ UNCHANGED <<files, software, services, recorded, api, owner, orphans, alien, hit,
                       sess, device, crashes>>
    BY <1>1, <1>3 DEF UpBegin, Goes, Untouched, setupVars, apiVars, deviceVars
  <2> HIDE DEF r
  <2>3. opLock = None /\ opLock' = o /\ cmd[o].at = "idle" /\ \A a \in Api : Unkept(a)
    BY <2>2, Entered, Names
  <2>4. StageIsSound(o)'
    BY <1>1, <2>1, <2>2, <2>3 DEF StageIsSound, Unkept
  <2> QED  BY <1>1, <1>2, <2>1, <2>2, <2>3, <2>4, OperatorGoes
<1>4. CASE UpCompose(o)
  <2>1. /\ cmd[o].at = "compose" /\ opLock = o /\ \A a \in Api : Unkept(a)
        /\ UNCHANGED <<files, software, recorded, api, owner, orphans, alien, hit,
                       sess, device, crashes>>
    BY <1>1, <1>4 DEF UpCompose, StageIsSound, setupVars, apiVars, deviceVars
  <2>2. OwnedApiIsKept'
    BY <2>1 DEF OwnedApiIsKept, Unkept
  <2>3. CASE services' = TRUE /\ Goes(o, "spawn") /\ UNCHANGED opLock
    <3> DEFINE r == [cmd[o] EXCEPT !.at = "spawn"]
    <3>1. r \in CmdRow /\ r.at = "spawn" /\ cmd' = [cmd EXCEPT ![o] = r]
      BY <1>1, <2>3 DEF CmdRow, Goes
    <3> HIDE DEF r
    <3>2. StageIsSound(o)'
      BY <1>1, <2>1, <2>3, <3>1 DEF StageIsSound, Unkept
    <3> QED  BY <1>1, <2>1, <2>2, <2>3, <3>1, <3>2, OperatorGoes
  <2>4. CASE services' \in BOOLEAN /\ Quits(o)
    BY <1>1, <2>1, <2>2, <2>4, OperatorQuits
  <2> QED  BY <1>4, <2>3, <2>4 DEF UpCompose
<1>5. CASE UpSpawn(o)
  <2>1. /\ cmd[o].at = "spawn" /\ opLock = o /\ services /\ \A a \in Api : Unkept(a)
        /\ UNCHANGED <<files, software, services, opLock, recorded, owner, orphans, alien, hit,
                       sess, device, crashes>>
    BY <1>1, <1>5 DEF UpSpawn, StageIsSound, setupVars, deviceVars
  <2>2. PICK a \in Api, p \in Pid \ InUse :
          /\ api[a].st = "none"
          /\ api' = [api EXCEPT ![a] = [st |-> "starting", pid |-> p, term |-> FALSE]]
          /\ cmd' = [cmd EXCEPT ![o].at = "wait", ![o].seen = a]
    BY <1>5 DEF UpSpawn
  <2> DEFINE r == [cmd[o] EXCEPT !.at = "wait", !.seen = a]
             new == [st |-> "starting", pid |-> p, term |-> FALSE]
  <2>3. r \in CmdRow /\ r.at = "wait" /\ r.seen = a /\ cmd' = [cmd EXCEPT ![o] = r]
    BY <1>1, <2>2 DEF CmdRow
  <2>4. new \in ApiRow /\ new.st = "starting" /\ new.pid = p /\ api' = [api EXCEPT ![a] = new]
    BY <2>2 DEF ApiRow, Live
  <2> HIDE DEF r, new
  <2>5. /\ cmd' \in [Operator -> CmdRow] /\ cmd'[o] = r
        /\ \A q \in Operator \ {o} : cmd'[q] = cmd[q] /\ cmd[q].at \in {"idle", "init"}
    BY <1>1, <2>1, <2>3, OneCommand
  <2>6. /\ api' \in [Api -> ApiRow] /\ api'[a] = new
        /\ \A b \in Api \ {a} : api'[b] = api[b]
    BY <1>1, <2>4
  <2>7. ProfileShapes' /\ hit' = FALSE
    BY <2>1, <2>5, <2>6 DEF ProfileConsistent, ProfileShapes
  <2>8. PidsDiffer'
    <3>1. p # alien /\ \A b \in Api : api[b].st \in Live => api[b].pid # p
      BY <2>2, Names DEF InUse, LiveApis, PidOf
    <3> QED  BY <2>1, <2>2, <2>4, <2>6, <3>1 DEF ProfileConsistent, PidsDiffer
  <2>9. OwnerHolds' /\ LeaseIsHeld'
    BY <2>1, <2>4, <2>6 DEF ProfileConsistent, OwnerHolds, LeaseIsHeld
  <2>10. LaunchersWait'
    <3>1. \A b \in Api \ orphans : api[b].st \notin {"starting", "locked"}
      BY <2>1 DEF ProfileConsistent, LaunchersWait
    <3> QED  BY <2>1, <2>3, <2>5, <2>6, <3>1 DEF LaunchersWait
  <2>11. \A b \in Api : Unkept(b)'
    BY <2>1, <2>4, <2>6 DEF Unkept, Kept
  <2>12. OwnedApiIsKept'
    BY <2>11 DEF OwnedApiIsKept, Unkept
  <2>13. ASSUME NEW q \in Operator
         PROVE  StageIsSound(q)'
    <3>1. CASE q = o
      BY <2>1, <2>3, <2>5, <3>1 DEF StageIsSound
    <3>2. CASE q # o
      <4>1. StageIsSound(q) /\ cmd'[q] = cmd[q] /\ cmd[q].at \in {"idle", "init"}
        BY <2>5, <3>2 DEF ProfileConsistent
      <4> QED  BY <2>1, <2>3, <2>5, <4>1 DEF StageIsSound
    <3> QED  BY <3>1, <3>2
  <2> QED  BY <2>7, <2>8, <2>9, <2>10, <2>12, <2>13 DEF ProfileConsistent
<1>6. CASE UpEnd(o)
  <2>1. /\ Quits(o) /\ Leaves(o)
        /\ UNCHANGED <<files, software, services, recorded, api, owner, alien, hit,
                       sess, device, crashes>>
    BY <1>6 DEF UpEnd, setupVars, deviceVars
  <2>2. OwnedApiIsKept'
    BY <2>1 DEF ProfileConsistent, OwnedApiIsKept, Leaves
  <2> QED  BY <1>1, <2>1, <2>2, OperatorQuits
<1> QED  BY <1>3, <1>4, <1>5, <1>6

\* What has a pid is a live API, some other process, or nothing.
LEMMA AtPidType ==
  ASSUME NEW p
  PROVE  AtPid(p) \in LiveApis \cup {None, Alien}
BY DEF AtPid

\* down: the record, the pidfd, the second look, the signal and the wait for the end.
LEMMA DownKeeps ==
  ASSUME ProfileConsistent, NEW o \in Operator,
         \/ DownBegin(o) \/ DownOpen(o) \/ DownConfirm(o) \/ DownSignal(o)
         \/ DownDrain(o) \/ DownServices(o) \/ DownUnlink(o)
  PROVE  ProfileConsistent'
<1>1. /\ cmd \in [Operator -> CmdRow] /\ api \in [Api -> ApiRow] /\ files \in 0..Whole
      /\ orphans \subseteq Api /\ crashes \in 0..MaxCrashes /\ services \in BOOLEAN
      /\ recorded \in Api \cup {None} /\ opLock \in Operator \cup {None} /\ StageIsSound(o)
      /\ software \in {"none", "partial", "ready"}
  BY DEF ProfileConsistent, ProfileShapes
<1>2. UNCHANGED <<services, recorded, api, orphans>> => OwnedApiIsKept'
  BY DEF ProfileConsistent, OwnedApiIsKept
<1>3. Untouched => UNCHANGED <<files, software, services, recorded, api, owner, orphans, alien,
                               hit, sess, device, crashes>>
  BY DEF Untouched, setupVars, apiVars, deviceVars
<1>4. ASSUME Quits(o), Untouched, cmd[o].at # "wait"
      PROVE  ProfileConsistent'
  BY <1>1, <1>2, <1>3, <1>4, OperatorQuits
<1>5. ASSUME NEW at \in {"services", "confirm", "signal", "drain", "unlink"}, Goes(o, at)
      PROVE  \E r \in CmdRow : /\ r.at = at /\ r.seen = cmd[o].seen /\ r.handle = cmd[o].handle
                               /\ cmd' = [cmd EXCEPT ![o] = r]
  <2> DEFINE r == [cmd[o] EXCEPT !.at = at]
  <2>1. r \in CmdRow /\ r.at = at /\ r.seen = cmd[o].seen /\ r.handle = cmd[o].handle
    BY <1>1, <1>5 DEF CmdRow
  <2>2. cmd' = [cmd EXCEPT ![o] = r]
    BY <1>1, <1>5 DEF Goes
  <2> HIDE DEF r
  <2> QED  BY <2>1, <2>2
<1>6. CASE DownBegin(o)
  <2>1. CASE Enter(o, None) /\ Goes(o, "services")
    <3>1. opLock = None /\ opLock' = o /\ cmd[o].at = "idle" /\ \A a \in Api : Unkept(a)
      BY <2>1, Entered, Names
    <3>2. PICK r \in CmdRow : r.at = "services" /\ cmd' = [cmd EXCEPT ![o] = r]
      BY <1>5, <2>1
    <3>3. StageIsSound(o)'
      BY <1>1, <1>3, <1>6, <3>1, <3>2 DEF StageIsSound, Unkept, DownBegin
    <3> QED  BY <1>1, <1>2, <1>3, <1>6, <3>1, <3>2, <3>3, OperatorGoes DEF DownBegin
  <2>2. ASSUME NEW a \in Api, Enter(o, a), cmd' = [cmd EXCEPT ![o].at = "open", ![o].seen = a]
        PROVE  ProfileConsistent'
    <3>1. /\ opLock = None /\ opLock' = o /\ cmd[o].at = "idle" /\ api[a].st \in Live
          /\ \A b \in Api \ {a} : Unkept(b)
      BY <2>2, Entered
    <3> DEFINE r == [cmd[o] EXCEPT !.at = "open", !.seen = a]
    <3>2. r \in CmdRow /\ r.at = "open" /\ r.seen = a /\ cmd' = [cmd EXCEPT ![o] = r]
      BY <1>1, <2>2 DEF CmdRow
    <3> HIDE DEF r
    <3>3. StageIsSound(o)'
      BY <1>1, <1>3, <1>6, <3>1, <3>2 DEF StageIsSound, Unkept, DownBegin, Live
    <3> QED  BY <1>1, <1>2, <1>3, <1>6, <3>1, <3>2, <3>3, OperatorGoes DEF DownBegin
  <2> QED  BY <1>6, <2>1, <2>2 DEF DownBegin
<1>7. CASE DownOpen(o)
  <2> DEFINE seen == cmd[o].seen
             who == AtPid(PidOf(seen))
  <2>1. /\ cmd[o].at = "open" /\ Untouched /\ opLock = o /\ seen \in Api
        /\ api[seen].st # "none" /\ \A a \in Api \ {seen} : Unkept(a)
    BY <1>1, <1>7 DEF DownOpen, StageIsSound
  <2>2. CASE who = None /\ Quits(o)
    BY <1>4, <2>1, <2>2
  <2>3. CASE UNCHANGED opLock /\ cmd' = [cmd EXCEPT ![o].at = "confirm", ![o].handle = who]
    <3> DEFINE r == [cmd[o] EXCEPT !.at = "confirm", !.handle = who]
    <3>1. who \in Api \cup {None, Alien}
      BY AtPidType DEF LiveApis
    <3>2. api[seen].st \in Live => who = seen
      BY <2>1, AtPidOfLive
    <3> HIDE DEF who
    <3>3. r \in CmdRow /\ r.at = "confirm" /\ r.seen = seen /\ r.handle = who
          /\ cmd' = [cmd EXCEPT ![o] = r]
      BY <1>1, <2>3, <3>1 DEF CmdRow
    <3> HIDE DEF r
    <3>4. StageIsSound(o)'
      BY <1>1, <1>3, <2>1, <2>3, <3>2, <3>3 DEF StageIsSound, Unkept
    <3> QED  BY <1>1, <1>2, <1>3, <2>1, <2>3, <3>3, <3>4, OperatorGoes
  <2> QED  BY <1>7, <2>2, <2>3 DEF DownOpen
<1>8. CASE DownConfirm(o)
  <2>1. /\ cmd[o].at = "confirm" /\ Untouched /\ opLock = o /\ cmd[o].seen \in Api
        /\ api[cmd[o].seen].st # "none" /\ \A a \in Api \ {cmd[o].seen} : Unkept(a)
        /\ cmd[o].handle = cmd[o].seen \/ api[cmd[o].seen].st \notin Live
    BY <1>1, <1>8 DEF DownConfirm, StageIsSound
  <2>2. CASE OwnedProcess = cmd[o].seen /\ Goes(o, "signal") /\ UNCHANGED opLock
    <3>1. cmd[o].handle = cmd[o].seen
      BY <2>1, <2>2, FoundIsLive
    <3>2. PICK r \in CmdRow : /\ r.at = "signal" /\ r.seen = cmd[o].seen /\ r.handle = cmd[o].handle
                              /\ cmd' = [cmd EXCEPT ![o] = r]
      BY <1>5, <2>2
    <3>3. StageIsSound(o)'
      BY <1>1, <1>3, <2>1, <2>2, <3>1, <3>2 DEF StageIsSound, Unkept
    <3> QED  BY <1>1, <1>2, <1>3, <2>1, <2>2, <3>2, <3>3, OperatorGoes
  <2>3. CASE Quits(o)
    BY <1>4, <2>1, <2>3
  <2> QED  BY <1>8, <2>2, <2>3 DEF DownConfirm
<1>9. CASE DownSignal(o)
  <2>1. /\ cmd[o].at = "signal" /\ opLock = o /\ cmd[o].seen \in Api
        /\ api[cmd[o].seen].st # "none" /\ \A a \in Api \ {cmd[o].seen} : Unkept(a)
        /\ cmd[o].handle = cmd[o].seen
        /\ UNCHANGED <<files, software, services, recorded, owner, orphans, alien, sess, device,
                       crashes>>
    BY <1>1, <1>9 DEF DownSignal, StageIsSound, setupVars, deviceVars
  <2>2. CASE cmd[o].handle \in LiveApis /\ Goes(o, "drain") /\ UNCHANGED <<hit, opLock>>
             /\ api' = [api EXCEPT ![cmd[o].handle].term = TRUE]
    <3>1. PICK r \in CmdRow : /\ r.at = "drain" /\ r.seen = cmd[o].seen /\ r.handle = cmd[o].handle
                              /\ cmd' = [cmd EXCEPT ![o] = r]
      BY <1>5, <2>2
    <3>2. /\ api' \in [Api -> ApiRow]
          /\ \A a \in Api : api'[a].st = api[a].st /\ api'[a].pid = api[a].pid
      BY ZenonT(30), <1>1, <2>2 DEF ApiRow, LiveApis
    <3>3. StageIsSound(o)'
      BY <1>1, <2>1, <2>2, <3>1, <3>2 DEF StageIsSound, Unkept
    <3>4. OwnedApiIsKept'
      BY <2>1, <3>2 DEF ProfileConsistent, OwnedApiIsKept
    <3> QED  BY <1>1, <2>1, <2>2, <3>1, <3>2, <3>3, <3>4, OperatorGoes
  <2>3. CASE Quits(o) /\ UNCHANGED <<hit, api>>
    BY <1>1, <1>2, <2>1, <2>3, OperatorQuits
  <2>4. cmd[o].handle # Alien
    BY <2>1, Names
  <2> QED  BY <1>9, <2>2, <2>3, <2>4 DEF DownSignal
<1>10. CASE DownDrain(o)
  <2>1. /\ cmd[o].at = "drain" /\ Untouched /\ opLock = o /\ cmd[o].seen \in Api
        /\ \A a \in Api \ {cmd[o].seen} : Unkept(a)
        /\ cmd[o].handle = cmd[o].seen
    BY <1>1, <1>10 DEF DownDrain, StageIsSound
  <2>2. CASE cmd[o].handle \notin LiveApis /\ Goes(o, "services") /\ UNCHANGED opLock
    <3>1. PICK r \in CmdRow : r.at = "services" /\ cmd' = [cmd EXCEPT ![o] = r]
      BY <1>5, <2>2
    <3>2. \A a \in Api : Unkept(a)
      BY <2>1, <2>2 DEF Unkept, LiveApis, Kept, Live
    <3>3. StageIsSound(o)'
      BY <1>1, <1>3, <2>1, <2>2, <3>1, <3>2 DEF StageIsSound, Unkept
    <3> QED  BY <1>1, <1>2, <1>3, <2>1, <2>2, <3>1, <3>3, OperatorGoes
  <2>3. CASE Quits(o)
    BY <1>4, <2>1, <2>3
  <2> QED  BY <1>10, <2>2, <2>3 DEF DownDrain
<1>11. CASE DownServices(o)
  <2>1. /\ cmd[o].at = "services" /\ opLock = o /\ \A a \in Api : Unkept(a)
        /\ UNCHANGED <<files, software, recorded, api, owner, orphans, alien, hit,
                       sess, device, crashes>>
    BY <1>1, <1>11 DEF DownServices, StageIsSound, setupVars, apiVars, deviceVars
  <2>2. OwnedApiIsKept'
    BY <2>1 DEF OwnedApiIsKept, Unkept
  <2>3. CASE services' = FALSE /\ Goes(o, "unlink") /\ UNCHANGED opLock
    <3>1. PICK r \in CmdRow : r.at = "unlink" /\ cmd' = [cmd EXCEPT ![o] = r]
      BY <1>5, <2>3
    <3>2. StageIsSound(o)'
      BY <1>1, <2>1, <2>3, <3>1 DEF StageIsSound, Unkept
    <3> QED  BY <1>1, <2>1, <2>2, <2>3, <3>1, <3>2, OperatorGoes
  <2>4. CASE services' \in {services, FALSE} /\ Quits(o)
    BY <1>1, <2>1, <2>2, <2>4, OperatorQuits
  <2> QED  BY <1>11, <2>3, <2>4 DEF DownServices
<1>12. CASE DownUnlink(o)
  <2>1. /\ cmd[o].at = "unlink" /\ opLock = o /\ recorded' = None /\ Quits(o)
        /\ \A a \in Api : Unkept(a)
        /\ UNCHANGED <<files, software, services, api, owner, orphans, alien, hit,
                       sess, device, crashes>>
    BY <1>1, <1>12 DEF DownUnlink, StageIsSound, setupVars, deviceVars
  <2>2. OwnedApiIsKept'
    BY <2>1 DEF OwnedApiIsKept, Unkept
  <2> QED  BY <1>1, <2>1, <2>2, OperatorQuits
<1> QED  BY <1>6, <1>7, <1>8, <1>9, <1>10, <1>11, <1>12

-----------------------------------------------------------------------------
(* The theorem.                                                            *)

\* A profile that does not exist yet, with nothing running.
LEMMA ProfileStarts ==
  ASSUME ProfileInit
  PROVE  ProfileConsistent
<1>1. NoCommand \in CmdRow /\ NoApi \in ApiRow /\ NoSession \in SessRow
  BY DEF NoCommand, NoApi, NoSession, CmdRow, ApiRow, SessRow
<1>2. ProfileShapes
  <2>1. cmd \in [Operator -> CmdRow] /\ api \in [Api -> ApiRow] /\ sess \in [Session -> SessRow]
    BY <1>1 DEF ProfileInit
  <2>2. crashes \in 0..MaxCrashes /\ files \in 0..Whole
    BY ProfileAssumption DEF ProfileInit, Whole
  <2> QED  BY <2>1, <2>2 DEF ProfileInit, ProfileShapes
<1>3. PidsDiffer /\ OwnerHolds /\ LaunchersWait /\ OwnedApiIsKept
  BY DEF ProfileInit, NoApi, PidsDiffer, OwnerHolds, LaunchersWait, OwnedApiIsKept, Kept, Live
<1>4. \A o \in Operator : StageIsSound(o)
  BY DEF ProfileInit, NoCommand, StageIsSound
<1>5. LeaseIsHeld
  BY DEF ProfileInit, NoSession, LeaseIsHeld
<1> QED  BY <1>2, <1>3, <1>4, <1>5 DEF ProfileConsistent, ProfileInit

\* An operator that is killed leaves what it did, and nothing else.
LEMMA KilledKeeps ==
  ASSUME ProfileConsistent, NEW o \in Operator, Killed(o)
  PROVE  ProfileConsistent'
<1>1. /\ Quits(o) /\ Leaves(o) /\ crashes' = crashes + 1 /\ crashes < MaxCrashes
      /\ UNCHANGED <<files, software, services, recorded, api, owner, alien, hit, sess, device>>
  BY DEF Killed, Crash, setupVars, deviceVars
<1>2. /\ crashes' \in 0..MaxCrashes /\ services' \in BOOLEAN /\ recorded' \in Api \cup {None}
      /\ software' \in {"none", "partial", "ready"}
  BY <1>1, ProfileAssumption DEF ProfileConsistent, ProfileShapes
<1>3. OwnedApiIsKept'
  BY <1>1 DEF ProfileConsistent, OwnedApiIsKept, Leaves
<1> QED  BY <1>1, <1>2, <1>3, OperatorQuits

\* Some other process comes, with a pid that is free, or goes.
LEMMA OtherKeeps ==
  ASSUME ProfileConsistent, Other
  PROVE  ProfileConsistent'
<1>1. /\ UNCHANGED <<files, software, services, opLock, cmd, recorded, api, owner, orphans, hit,
                     sess, device, crashes>>
      /\ alien' = None \/ alien' \in Pid \ InUse
  BY DEF Other, setupVars, opVars, apiVars, deviceVars
<1>2. PidsDiffer'
  BY <1>1, Names DEF ProfileConsistent, PidsDiffer, InUse, LiveApis, PidOf
<1>3. ProfileShapes'
  BY <1>1 DEF ProfileConsistent, ProfileShapes
<1> QED  BY <1>1, <1>2, <1>3 DEF ProfileConsistent, OwnerHolds, LaunchersWait, StageIsSound, Unkept,
            OwnedApiIsKept, LeaseIsHeld

\* ProfileConsistent is inductive.
LEMMA ProfileStep ==
  ASSUME ProfileConsistent, [ProfileNext]_profileVars
  PROVE  ProfileConsistent'
<1>1. ASSUME NEW o \in Operator, OperatorStep(o)
      PROVE  ProfileConsistent'
  BY <1>1, SetupKeeps, UpKeeps, DownKeeps DEF OperatorStep
<1>2. ASSUME NEW o \in Operator, Killed(o)
      PROVE  ProfileConsistent'
  BY <1>2, KilledKeeps
<1>3. ASSUME NEW a \in Api, ApiStep(a)
      PROVE  ProfileConsistent'
  BY <1>3, ApiKeeps
<1>4. CASE DeviceStep
  BY <1>4, DeviceKeeps
<1>5. CASE Other
  BY <1>5, OtherKeeps
<1>6. CASE UNCHANGED profileVars
  BY <1>6 DEF profileVars, setupVars, opVars, apiVars, deviceVars, ProfileConsistent,
     ProfileShapes, PidsDiffer, OwnerHolds, LaunchersWait, StageIsSound, Unkept, OwnedApiIsKept,
     LeaseIsHeld
<1> QED  BY <1>1, <1>2, <1>3, <1>4, <1>5, <1>6 DEF ProfileNext

\* The lease has one owner at most.
LEMMA LeaseHasOneOwner ==
  ASSUME LeaseIsHeld
  PROVE  OneDeviceOwner
<1> DEFINE users == {s \in Session : sess[s].held \/ sess[s].child}
<1>1. users = {} \/ users = {device}
  BY DEF LeaseIsHeld
<1>2. Cardinality({}) = 0 /\ Cardinality({device}) = 1
  BY FS_EmptySet, FS_Singleton
<1> HIDE DEF users
<1>3. CASE users = {}
  BY <1>2, <1>3 DEF OneDeviceOwner, users
<1>4. CASE users = {device}
  <2>1. Cardinality(users) = 1
    BY <1>2, <1>4
  <2> QED  BY <2>1 DEF OneDeviceOwner, users
<1> QED  BY <1>1, <1>3, <1>4

\* What the run checks follows from ProfileConsistent.
LEMMA ConsistentIsKept ==
  ASSUME ProfileConsistent
  PROVE  OwnershipIsKept
<1>1. ProfileTypeOK
  BY Names DEF ProfileConsistent, ProfileShapes, PidsDiffer, StageIsSound, LiveApis, PidOf,
     ProfileTypeOK
<1>2. NoForeignSignal /\ OwnedApiIsKept /\ OneDeviceOwner
  BY LeaseHasOneOwner DEF ProfileConsistent, NoForeignSignal
<1> QED  BY <1>1, <1>2 DEF OwnershipIsKept

\* Whatever is killed, and however pids are used again: nobody but an API of the profile
\* is signalled, an API stays recorded with its services up from its record to its end,
\* and the device has one owner (local.py, local_server.py, device.py).
THEOREM OwnershipStays == ProfileSpec => []OwnershipIsKept
<1>1. ProfileInit => ProfileConsistent
  BY ProfileStarts
<1>2. ProfileConsistent /\ [ProfileNext]_profileVars => ProfileConsistent'
  BY ProfileStep
<1>3. ProfileConsistent => OwnershipIsKept
  BY ConsistentIsKept
<1> QED  BY <1>1, <1>2, <1>3, PTL DEF ProfileSpec

-----------------------------------------------------------------------------
(* The artifact cache.                                                     *)

Stages == {"idle", "lock", "files", "open", "download", "verify"}

JobRow ==
  [at : Stages, snapshot : Snapshot \cup {Nobody}, file : File \cup {Nobody},
   good : SUBSET File, staged : SUBSET File]

\* Every variable has its type, and a job what its stage needs.
CacheShapes ==
  /\ blobs \subseteq File /\ rotten \subseteq blobs
  /\ parts \in [File -> Provisioner \cup {Nobody, Left}]
  /\ published \in [Snapshot -> SUBSET (File \cup {Nobody})]
  /\ holder \in Provisioner \cup {Nobody}
  /\ job \in [Provisioner -> JobRow]
  /\ \A p \in Provisioner :
       /\ job[p].at # "idle" => job[p].snapshot \in Snapshot
       /\ job[p].at \in {"open", "download"} => job[p].file \in File

\* Who works has the lock.
WorkersHoldLock ==
  \A p \in Provisioner : job[p].at \notin {"idle", "lock"} => holder = p

\* A destination that was absent stays so until the holder of the lock publishes it.
DestinationIsAsFound ==
  \A p \in Provisioner :
    /\ job[p].at \in {"files", "open", "download"} => published[job[p].snapshot] = Absent
    /\ job[p].at = "verify" => published[job[p].snapshot] = Wanted(p)

\* A named temporary is that of the download under way, and no download is without.
PartsAreDownloads ==
  /\ \A f \in File : parts[f] \in Provisioner =>
       job[parts[f]].at = "download" /\ job[parts[f]].file = f /\ Named(parts[f])
  /\ \A p \in Provisioner : job[p].at = "download" /\ Named(p) => parts[job[p].file] = p

CacheConsistent ==
  /\ CacheShapes /\ WorkersHoldLock /\ SnapshotIsWhole
  /\ DestinationIsAsFound /\ PartsAreDownloads /\ undeserved = FALSE

-----------------------------------------------------------------------------
\* The cache starts empty.
LEMMA CacheStarts ==
  ASSUME CacheInit
  PROVE  CacheConsistent
<1>1. NoJob \in JobRow
  BY DEF NoJob, JobRow, Stages
<1>2. CacheShapes
  BY <1>1 DEF CacheInit, CacheShapes, NoJob, Absent
<1>3. WorkersHoldLock /\ DestinationIsAsFound
  BY DEF CacheInit, WorkersHoldLock, DestinationIsAsFound, NoJob
<1>4. PartsAreDownloads
  BY ArtifactsAssumption DEF CacheInit, PartsAreDownloads, NoJob
<1>5. SnapshotIsWhole /\ undeserved = FALSE
  BY DEF CacheInit, SnapshotIsWhole
<1> QED  BY <1>2, <1>3, <1>4, <1>5 DEF CacheConsistent

\* The end of a run that leaves no named temporary of its own: by a return, by an
\* exception after the temporary was unlinked, or by a kill.
LEMMA RunThatEnds ==
  ASSUME CacheConsistent, NEW p \in Provisioner, RunEnds(p),
         UNCHANGED <<blobs, rotten, published>>,
         parts' \in [File -> Provisioner \cup {Nobody, Left}],
         \A f \in File : parts'[f] # p,
         \A f \in File : parts'[f] \in Provisioner => parts'[f] = parts[f],
         \A q \in Provisioner \ {p} : job[q].at = "download" /\ Named(q) =>
           parts'[job[q].file] = q,
         undeserved' = FALSE
  PROVE  CacheConsistent'
<1> USE DEF CacheConsistent, RunEnds
<1>1. NoJob \in JobRow /\ NoJob.at = "idle"
  BY DEF NoJob, JobRow, Stages
<1>2. /\ job \in [Provisioner -> JobRow] /\ job'[p] = NoJob
      /\ \A q \in Provisioner \ {p} : job'[q] = job[q]
  BY DEF CacheShapes
<1>3. CacheShapes'
  <2>1. job' \in [Provisioner -> JobRow] /\ holder' \in Provisioner \cup {Nobody}
    BY <1>1, <1>2 DEF CacheShapes
  <2> QED  BY <1>1, <1>2, <2>1 DEF CacheShapes
<1>4. WorkersHoldLock'
  BY <1>1, <1>2 DEF WorkersHoldLock
<1>5. DestinationIsAsFound' /\ SnapshotIsWhole'
  BY <1>1, <1>2 DEF DestinationIsAsFound, SnapshotIsWhole, Wanted
<1>6. PartsAreDownloads'
  BY <1>1, <1>2 DEF PartsAreDownloads, Named
<1> QED  BY <1>3, <1>4, <1>5, <1>6

\* A process that holds the lock is alone at work.
LEMMA AloneAtWork ==
  ASSUME CacheConsistent, NEW p \in Provisioner, job[p].at \notin {"idle", "lock"},
         NEW q \in Provisioner \ {p}
  PROVE  job[q].at \in {"idle", "lock"}
BY DEF CacheConsistent, WorkersHoldLock

\* Unlinking on failure removes at most the process's own temporary, and that always.
LEMMA UnlinkedIsOwn ==
  ASSUME CacheConsistent, NEW p \in Provisioner, job[p].at \in {"open", "download"},
         parts' = Unlinked(p)
  PROVE  /\ parts' \in [File -> Provisioner \cup {Nobody, Left}]
         /\ \A f \in File : parts'[f] # p
         /\ \A f \in File : parts'[f] \in Provisioner => parts'[f] = parts[f]
         /\ \A q \in Provisioner \ {p} : job[q].at # "download"
<1>1. job[p].file \in File
  BY DEF CacheConsistent, CacheShapes
<1>2. \A q \in Provisioner \ {p} : job[q].at # "download"
  BY AloneAtWork
<1>3. CASE Named(p)
  BY <1>1, <1>2, <1>3, ArtifactsAssumption
     DEF CacheConsistent, CacheShapes, PartsAreDownloads, Unlinked
<1>4. CASE ~Named(p)
  BY <1>2, <1>4, ArtifactsAssumption
     DEF CacheConsistent, CacheShapes, PartsAreDownloads, Unlinked
<1> QED  BY <1>2, <1>3, <1>4

-----------------------------------------------------------------------------
\* A step of p alone, with the lock if it works, that leaves the temporaries.
LEMMA OwnStep ==
  ASSUME CacheConsistent, NEW p \in Provisioner, NEW r \in JobRow,
         job' = [job EXCEPT ![p] = r], r.at # "download", job[p].at # "download",
         r.at # "idle" => r.snapshot \in Snapshot,
         r.at = "open" => r.file \in File,
         r.at \notin {"idle", "lock"} => holder' = p,
         job[p].at \in {"idle", "lock"} =>
           \A q \in Provisioner : job[q].at \in {"idle", "lock"} \/ r.at = "lock",
         holder' = holder \/ (holder = Nobody /\ holder' = p),
         r.at \in {"files", "open"} => published'[r.snapshot] = Absent,
         r.at = "verify" => published'[r.snapshot] = Inventory[r.snapshot],
         published' = published
           \/ /\ job[p].at \notin {"idle", "lock"}
              /\ published' \in [Snapshot -> SUBSET (File \cup {Nobody})] /\ SnapshotIsWhole',
         UNCHANGED <<blobs, rotten, parts>>, undeserved' = FALSE
  PROVE  CacheConsistent'
<1> USE DEF CacheConsistent
<1>1. /\ job' \in [Provisioner -> JobRow] /\ job'[p] = r
      /\ \A q \in Provisioner \ {p} : job'[q] = job[q]
  BY DEF CacheShapes
<1>2. CacheShapes'
  BY <1>1 DEF CacheShapes
<1>3. WorkersHoldLock'
  BY <1>1, ArtifactsAssumption DEF WorkersHoldLock
<1>4. SnapshotIsWhole'
  BY DEF SnapshotIsWhole
<1>5. DestinationIsAsFound'
  <2>1. CASE published' = published
    BY <1>1, <2>1 DEF DestinationIsAsFound, Wanted
  <2>2. CASE job[p].at \notin {"idle", "lock"}
    <3>1. \A q \in Provisioner \ {p} : job[q].at \in {"idle", "lock"}
      BY <2>2, AloneAtWork
    <3> QED  BY <1>1, <3>1 DEF DestinationIsAsFound, Wanted
  <2> QED  BY <2>1, <2>2
<1>6. PartsAreDownloads'
  BY <1>1 DEF PartsAreDownloads, Named
<1> QED  BY <1>2, <1>3, <1>4, <1>5, <1>6

\* A call waits for the lock.
LEMMA ProvisionKeeps ==
  ASSUME CacheConsistent, NEW p \in Provisioner, NEW s \in Snapshot, Provision(p, s)
  PROVE  CacheConsistent'
<1> DEFINE r == [job[p] EXCEPT !.at = "lock", !.snapshot = s]
<1>1. r \in JobRow /\ r.at = "lock" /\ r.snapshot = s
  BY DEF CacheConsistent, CacheShapes, JobRow, Stages
<1>2. job' = [job EXCEPT ![p] = r]
  BY DEF CacheConsistent, CacheShapes, Provision
<1>3. /\ job[p].at = "idle" /\ undeserved' = FALSE
      /\ UNCHANGED <<blobs, rotten, parts, published, holder>>
  BY DEF Provision, CacheConsistent
<1> HIDE DEF r
<1> QED  BY <1>1, <1>2, <1>3, OwnStep

\* The lock goes to one who finds the destination absent, or whole.
LEMMA LockedKeeps ==
  ASSUME CacheConsistent, NEW p \in Provisioner, Locked(p)
  PROVE  CacheConsistent'
<1> DEFINE s == job[p].snapshot
           at == IF published[s] = Absent THEN "files" ELSE "verify"
           r == [job[p] EXCEPT !.at = at]
<1>1. s \in Snapshot /\ job[p] \in JobRow /\ at \in {"files", "verify"}
  BY DEF CacheConsistent, CacheShapes, Locked
<1>2. r \in JobRow /\ r.at = at /\ r.snapshot = s
  BY <1>1 DEF JobRow, Stages
<1>3. job' = [job EXCEPT ![p] = r]
  BY DEF CacheConsistent, CacheShapes, Locked, Moves
<1>4. \A q \in Provisioner : job[q].at \in {"idle", "lock"}
  BY ArtifactsAssumption DEF CacheConsistent, WorkersHoldLock, Locked, LockFree
<1>5. /\ at = "files" => published[s] = Absent
      /\ at = "verify" => published[s] = Inventory[s]
  BY <1>1 DEF CacheConsistent, SnapshotIsWhole
<1>6. holder = Nobody /\ holder' = p /\ job[p].at = "lock"
      /\ UNCHANGED <<blobs, rotten, parts, published, undeserved>>
  BY DEF Locked, LockFree
<1> HIDE DEF r, at, s
<1> QED  BY <1>1, <1>2, <1>3, <1>4, <1>5, <1>6, OwnStep DEF CacheConsistent

\* Steps of the holder that only change its row.
LEMMA WorkStep ==
  ASSUME CacheConsistent, NEW p \in Provisioner, job[p].at \in {"files", "open"},
         NEW r \in JobRow, job' = [job EXCEPT ![p] = r],
         r.at \in {"files", "open"}, r.snapshot = job[p].snapshot,
         r.at = "open" => r.file \in File,
         UNCHANGED <<blobs, rotten, parts, published, holder, undeserved>>
  PROVE  CacheConsistent'
<1>1. holder = p /\ published[r.snapshot] = Absent /\ r.snapshot \in Snapshot
  BY DEF CacheConsistent, CacheShapes, WorkersHoldLock, DestinationIsAsFound
<1> QED  BY <1>1, OwnStep DEF CacheConsistent

\* Blobs are checked, looked for and linked.
LEMMA CheckKeeps ==
  ASSUME CacheConsistent, NEW p \in Provisioner, NEW f \in File,
         Check(p, f) \/ Fetch(p, f) \/ Link(p, f)
  PROVE  CacheConsistent'
<1>1. job \in [Provisioner -> JobRow]
  BY DEF CacheConsistent, CacheShapes
<1>2. CASE Check(p, f)
  <2> DEFINE r == [job[p] EXCEPT !.good = @ \cup {f}]
  <2>1. r \in JobRow /\ r.at = "files" /\ r.snapshot = job[p].snapshot
    BY <1>1, <1>2 DEF JobRow, Stages, Check
  <2>2. job' = [job EXCEPT ![p] = r]
    BY <1>1, <1>2 DEF Check
  <2> HIDE DEF r
  <2> QED  BY <1>2, <2>1, <2>2, WorkStep DEF Check
<1>3. CASE Fetch(p, f)
  <2> DEFINE r == [job[p] EXCEPT !.at = "open", !.file = f]
  <2>1. r \in JobRow /\ r.at = "open" /\ r.snapshot = job[p].snapshot /\ r.file = f
    BY <1>1, <1>3 DEF JobRow, Stages
  <2>2. job' = [job EXCEPT ![p] = r]
    BY <1>1, <1>3 DEF Fetch
  <2> HIDE DEF r
  <2> QED  BY <1>3, <2>1, <2>2, WorkStep DEF Fetch
<1>4. CASE Link(p, f)
  <2> DEFINE r == [job[p] EXCEPT !.staged = @ \cup {f}]
  <2>1. r \in JobRow /\ r.at = "files" /\ r.snapshot = job[p].snapshot
    BY <1>1, <1>4 DEF JobRow, Stages, Link
  <2>2. job' = [job EXCEPT ![p] = r]
    BY <1>1, <1>4 DEF Link
  <2> HIDE DEF r
  <2> QED  BY <1>4, <2>1, <2>2, WorkStep DEF Link
<1> QED  BY <1>2, <1>3, <1>4

\* A run that ends with nothing of its own in parts, which it leaves alone.
LEMMA QuietEnd ==
  ASSUME CacheConsistent, NEW p \in Provisioner, RunEnds(p), job[p].at # "download",
         UNCHANGED <<blobs, rotten, published, parts>>, undeserved' = FALSE
  PROVE  CacheConsistent'
<1>1. \A f \in File : parts[f] # p
  BY DEF CacheConsistent, PartsAreDownloads
<1>2. parts \in [File -> Provisioner \cup {Nobody, Left}]
  BY DEF CacheConsistent, CacheShapes
<1>3. \A q \in Provisioner : job[q].at = "download" /\ Named(q) => parts[job[q].file] = q
  BY DEF CacheConsistent, PartsAreDownloads
<1> QED  BY <1>1, <1>2, <1>3, RunThatEnds

\* One that unlinks its temporary.
LEMMA UnlinkingEnd ==
  ASSUME CacheConsistent, NEW p \in Provisioner, RunEnds(p), job[p].at \in {"open", "download"},
         parts' = Unlinked(p), UNCHANGED <<blobs, rotten, published>>, undeserved' = FALSE
  PROVE  CacheConsistent'
BY UnlinkedIsOwn, RunThatEnds

\* The temporary is that of no other download, so a run fails only for one left by a kill.
LEMMA OpenPartKeeps ==
  ASSUME CacheConsistent, NEW p \in Provisioner, OpenPart(p)
  PROVE  CacheConsistent'
<1> DEFINE f == job[p].file
<1>1. /\ f \in File /\ job[p].at = "open" /\ holder = p /\ undeserved = FALSE
      /\ job \in [Provisioner -> JobRow] /\ job[p].snapshot \in Snapshot
      /\ parts \in [File -> Provisioner \cup {Nobody, Left}]
      /\ published[job[p].snapshot] = Absent
  BY DEF CacheConsistent, CacheShapes, WorkersHoldLock, DestinationIsAsFound, OpenPart
<1>2. parts[f] \notin Provisioner
  BY ZenonT(30), <1>1, AloneAtWork DEF CacheConsistent, PartsAreDownloads
<1>3. \A q \in Provisioner \ {p} : job[q].at \in {"idle", "lock"}
  BY <1>1, AloneAtWork
<1>4. CASE Named(p) /\ parts[f] # Nobody
  <2>1. undeserved' = FALSE /\ parts' = Unlinked(p) /\ RunEnds(p)
        /\ UNCHANGED <<blobs, rotten, published>>
    BY <1>1, <1>2, <1>4 DEF OpenPart
  <2> QED  BY <1>1, <2>1, UnlinkingEnd
<1>5. CASE ~(Named(p) /\ parts[f] # Nobody)
  <2> DEFINE r == [job[p] EXCEPT !.at = "download"]
  <2>1. /\ parts' = (IF Named(p) THEN [parts EXCEPT ![f] = p] ELSE parts)
        /\ job' = [job EXCEPT ![p] = r]
        /\ UNCHANGED <<blobs, rotten, published, holder, undeserved>>
    BY <1>1, <1>5 DEF OpenPart, Moves
  <2>2. r \in JobRow /\ r.at = "download" /\ r.snapshot = job[p].snapshot /\ r.file = f
    BY <1>1 DEF JobRow, Stages
  <2> HIDE DEF r
  <2>3. /\ job' \in [Provisioner -> JobRow] /\ job'[p] = r
        /\ \A q \in Provisioner \ {p} : job'[q] = job[q]
    BY <1>1, <2>1, <2>2
  <2>4. CacheShapes'
    BY <1>1, <2>1, <2>2, <2>3 DEF CacheConsistent, CacheShapes
  <2>5. WorkersHoldLock' /\ SnapshotIsWhole'
    BY <1>1, <1>3, <2>1, <2>2, <2>3 DEF CacheConsistent, WorkersHoldLock, SnapshotIsWhole
  <2>6. DestinationIsAsFound'
    BY <1>1, <1>3, <2>1, <2>2, <2>3 DEF DestinationIsAsFound, Wanted
  <2>7. \A g \in File : parts[g] \notin Provisioner
    BY <1>1, <1>3 DEF CacheConsistent, PartsAreDownloads
  <2>8. Named(p)' <=> Named(p)
    BY <2>2, <2>3 DEF Named
  <2>9. PartsAreDownloads'
    BY <1>1, <1>3, <2>1, <2>2, <2>3, <2>7, <2>8 DEF PartsAreDownloads
  <2> QED  BY <1>1, <2>1, <2>4, <2>5, <2>6, <2>9 DEF CacheConsistent
<1> QED  BY <1>4, <1>5

\* Nobody took the temporary away meanwhile.
LEMMA DownloadedKeeps ==
  ASSUME CacheConsistent, NEW p \in Provisioner, Downloaded(p)
  PROVE  CacheConsistent'
<1> DEFINE f == job[p].file
           r == [job[p] EXCEPT !.at = "files", !.file = Nobody, !.good = @ \cup {f}]
<1>1. /\ f \in File /\ job[p].at = "download" /\ holder = p /\ undeserved = FALSE
      /\ job \in [Provisioner -> JobRow] /\ job[p].snapshot \in Snapshot
      /\ published[job[p].snapshot] = Absent
  BY DEF CacheConsistent, CacheShapes, WorkersHoldLock, DestinationIsAsFound, Downloaded
<1>2. Named(p) => parts[f] = p
  BY <1>1 DEF CacheConsistent, PartsAreDownloads
<1>3. /\ parts' = Unlinked(p) /\ blobs' = blobs \cup {f} /\ job' = [job EXCEPT ![p] = r]
      /\ UNCHANGED <<rotten, published, holder, undeserved>>
  BY <1>1, <1>2 DEF Downloaded
<1>4. r \in JobRow /\ r.at = "files" /\ r.snapshot = job[p].snapshot
  BY <1>1 DEF JobRow, Stages
<1>5. /\ parts' \in [File -> Provisioner \cup {Nobody, Left}]
      /\ \A g \in File : parts'[g] # p
      /\ \A g \in File : parts'[g] \in Provisioner => parts'[g] = parts[g]
  BY <1>1, <1>3, UnlinkedIsOwn
<1>6. \A q \in Provisioner \ {p} : job[q].at \in {"idle", "lock"}
  BY <1>1, AloneAtWork
<1> HIDE DEF r
<1>7. /\ job' \in [Provisioner -> JobRow] /\ job'[p] = r
      /\ \A q \in Provisioner \ {p} : job'[q] = job[q]
  BY <1>1, <1>3, <1>4
<1>8. CacheShapes'
  BY <1>1, <1>3, <1>4, <1>5, <1>7 DEF CacheConsistent, CacheShapes
<1>9. WorkersHoldLock' /\ SnapshotIsWhole'
  BY <1>1, <1>3, <1>4, <1>6, <1>7 DEF CacheConsistent, WorkersHoldLock, SnapshotIsWhole
<1>10. DestinationIsAsFound'
  BY <1>1, <1>3, <1>4, <1>6, <1>7 DEF DestinationIsAsFound, Wanted
<1>11. PartsAreDownloads'
  BY <1>1, <1>4, <1>5, <1>6, <1>7 DEF CacheConsistent, PartsAreDownloads
<1> QED  BY <1>1, <1>3, <1>8, <1>9, <1>10, <1>11 DEF CacheConsistent

\* The destination is still absent, and gets every file of its inventory.
LEMMA PublishKeeps ==
  ASSUME CacheConsistent, NEW p \in Provisioner, Publish(p)
  PROVE  CacheConsistent'
<1> DEFINE s == job[p].snapshot
           r == [job[p] EXCEPT !.at = "verify"]
<1>1. /\ job[p].at = "files" /\ holder = p /\ undeserved = FALSE
      /\ job \in [Provisioner -> JobRow] /\ s \in Snapshot /\ published[s] = Absent
      /\ published \in [Snapshot -> SUBSET (File \cup {Nobody})]
  BY DEF CacheConsistent, CacheShapes, WorkersHoldLock, DestinationIsAsFound, Publish
<1>2. /\ published' = [published EXCEPT ![s] = Inventory[s]] /\ job' = [job EXCEPT ![p] = r]
      /\ UNCHANGED <<blobs, rotten, parts, holder, undeserved>>
  BY <1>1 DEF Publish, Moves, Wanted
<1>3. r \in JobRow /\ r.at = "verify" /\ r.snapshot = s
  BY <1>1 DEF JobRow, Stages
<1>4. /\ published'[s] = Inventory[s] /\ SnapshotIsWhole'
      /\ published' \in [Snapshot -> SUBSET (File \cup {Nobody})]
  BY <1>1, <1>2, ArtifactsAssumption DEF CacheConsistent, SnapshotIsWhole
<1> HIDE DEF r, s
<1> QED  BY <1>1, <1>2, <1>3, <1>4, OwnStep

\* Only rotten files can be wrong with a snapshot that is there.
LEMMA VerifyKeeps ==
  ASSUME CacheConsistent, NEW p \in Provisioner, Verify(p)
  PROVE  CacheConsistent'
<1>1. published[job[p].snapshot] = Inventory[job[p].snapshot] /\ job[p].at = "verify"
  BY DEF CacheConsistent, DestinationIsAsFound, Wanted, Verify
<1>2. undeserved' = FALSE
  BY <1>1 DEF CacheConsistent, Verify, Verified
<1> QED  BY <1>1, <1>2, QuietEnd DEF Verify

\* A kill leaves the temporary to nobody.
LEMMA ProvisionerKilledKeeps ==
  ASSUME CacheConsistent, NEW p \in Provisioner, ProvisionerKilled(p)
  PROVE  CacheConsistent'
<1>1. parts \in [File -> Provisioner \cup {Nobody, Left}] /\ undeserved = FALSE
      /\ \A q \in Provisioner : job[q].at = "download" /\ Named(q) =>
           parts[job[q].file] = q /\ job[q].file \in File
  BY DEF CacheConsistent, CacheShapes, PartsAreDownloads
<1>2. /\ parts' = [f \in File |-> IF parts[f] = p THEN Left ELSE parts[f]]
      /\ RunEnds(p) /\ UNCHANGED <<blobs, rotten, published, undeserved>>
  BY DEF ProvisionerKilled
<1>3. /\ parts' \in [File -> Provisioner \cup {Nobody, Left}]
      /\ \A f \in File : parts'[f] # p
      /\ \A f \in File : parts'[f] \in Provisioner => parts'[f] = parts[f]
  BY <1>1, <1>2, ArtifactsAssumption
<1>4. \A q \in Provisioner \ {p} : job[q].at = "download" /\ Named(q) =>
        parts'[job[q].file] = q
  BY <1>1, <1>2
<1> QED  BY <1>1, <1>2, <1>3, <1>4, RunThatEnds

\* CacheConsistent is inductive.
LEMMA CacheStep ==
  ASSUME CacheConsistent, [CacheNext]_cacheVars
  PROVE  CacheConsistent'
<1>1. ASSUME NEW p \in Provisioner, NEW s \in Snapshot, Provision(p, s)
      PROVE  CacheConsistent'
  BY <1>1, ProvisionKeeps
<1>2. ASSUME NEW p \in Provisioner, NEW f \in File, Check(p, f) \/ Fetch(p, f) \/ Link(p, f)
      PROVE  CacheConsistent'
  BY <1>2, CheckKeeps
<1>3. ASSUME NEW p \in Provisioner, Locked(p)
      PROVE  CacheConsistent'
  BY <1>3, LockedKeeps
<1>4. ASSUME NEW p \in Provisioner, Rejected(p)
      PROVE  CacheConsistent'
  BY <1>4, QuietEnd DEF Rejected, CacheConsistent
<1>5. ASSUME NEW p \in Provisioner, NoConnection(p)
      PROVE  CacheConsistent'
  BY <1>5, UnlinkingEnd DEF NoConnection, CacheConsistent
<1>6. ASSUME NEW p \in Provisioner, OpenPart(p)
      PROVE  CacheConsistent'
  BY <1>6, OpenPartKeeps
<1>7. ASSUME NEW p \in Provisioner, BadDownload(p)
      PROVE  CacheConsistent'
  BY <1>7, UnlinkingEnd DEF BadDownload, CacheConsistent
<1>8. ASSUME NEW p \in Provisioner, Downloaded(p)
      PROVE  CacheConsistent'
  BY <1>8, DownloadedKeeps
<1>9. ASSUME NEW p \in Provisioner, Publish(p)
      PROVE  CacheConsistent'
  BY <1>9, PublishKeeps
<1>10. ASSUME NEW p \in Provisioner, Verify(p)
       PROVE  CacheConsistent'
  BY <1>10, VerifyKeeps
<1>11. ASSUME NEW p \in Provisioner, ProvisionerKilled(p)
       PROVE  CacheConsistent'
  BY <1>11, ProvisionerKilledKeeps
<1>12. ASSUME NEW f \in File, Rots(f)
       PROVE  CacheConsistent'
  BY <1>12 DEF Rots, CacheConsistent, CacheShapes, WorkersHoldLock, SnapshotIsWhole,
     DestinationIsAsFound, PartsAreDownloads, Wanted, Named
<1>13. CASE UNCHANGED cacheVars
  BY <1>13 DEF cacheVars, CacheConsistent, CacheShapes, WorkersHoldLock, SnapshotIsWhole,
     DestinationIsAsFound, PartsAreDownloads, Wanted, Named
<1> QED
  BY <1>1, <1>2, <1>3, <1>4, <1>5, <1>6, <1>7, <1>8, <1>9, <1>10, <1>11, <1>12, <1>13
  DEF CacheNext

\* What the run checks follows from it.
LEMMA ConsistentIsWhole ==
  ASSUME CacheConsistent
  PROVE  CacheIsWhole
<1>1. CacheTypeOK
  <2>1. \A s \in Snapshot : published[s] = Absent \/ published[s] \subseteq File
    BY ArtifactsAssumption DEF CacheConsistent, SnapshotIsWhole
  <2> QED  BY <2>1 DEF CacheConsistent, CacheShapes, WorkersHoldLock, CacheTypeOK
<1>2. PartHasOwner
  BY DEF CacheConsistent, PartsAreDownloads, PartHasOwner
<1> QED  BY <1>1, <1>2 DEF CacheConsistent, CacheIsWhole

\* However many provisioners run, are killed and meet rotten files: snapshots are there
\* as a whole or not at all, no failure strands a temporary, and no run fails for
\* another that runs beside it (provision() of artifacts.py and pinned.py).
THEOREM CacheStaysWhole == CacheSpec => []CacheIsWhole
<1>1. CacheInit => CacheConsistent
  BY CacheStarts
<1>2. CacheConsistent /\ [CacheNext]_cacheVars => CacheConsistent'
  BY CacheStep
<1>3. CacheConsistent => CacheIsWhole
  BY ConsistentIsWhole
<1> QED  BY <1>1, <1>2, <1>3, PTL DEF CacheSpec

-----------------------------------------------------------------------------
(* The user's voice.                                                       *)

\* What is sent, what is heard, and the voiced frames of a stretch of it.
Piece == [frame : Nat, track : Nat]
Sound == [item : Piece, voiced : BOOLEAN]
VoicedOf(h, from, to) == {i \in from..to : h[i].voiced}

\* The constants as the steps need them.
LEMMA TurnConstants ==
  /\ Preroll \in Nat /\ Preroll >= 1 /\ StartRun \in Nat /\ StartRun >= 1 /\ StartRun <= Preroll
  /\ MinVoiced \in Nat /\ StartRun <= MinVoiced /\ TailFrames \in Nat /\ TailFrames >= 1
  /\ Patience \in Nat /\ Patience >= 1
  /\ TailFrames <= Patience /\ MaxFrames \in Nat /\ Patience < MaxFrames /\ Preroll <= MaxFrames
  /\ QueueRoom \in Nat /\ QueueRoom >= 1
  BY TurnAssumption

\* A voiced run of the length that starts an utterance lies at `i`, or does not.
AllVoiced(h, i) == \A j \in i..(i + StartRun - 1) : h[j].voiced
FirstRun(h, since, r) ==
  /\ r \in Nat /\ r > since /\ AllVoiced(h, r)
  /\ \A i \in Nat : since < i /\ i < r => ~AllVoiced(h, i)

\* The clock of the detector and the run it counts are those of what was heard.
Clocks(d, h) ==
  /\ d.cursor = Len(h) /\ d.since \in Nat /\ d.since <= Len(h)
  /\ d.run \in Nat /\ d.run <= Len(h) - d.since
  /\ \A i \in 1..Len(h) : i > Len(h) - d.run => h[i].voiced
  /\ d.run < Len(h) - d.since => ~h[Len(h) - d.run].voiced

\* Outside an utterance: no run since the last one, and the newest frames are kept.
Waiting(d, h) ==
  /\ d.frames = <<>> /\ d.run < StartRun
  /\ d.preroll \in Seq(Piece) /\ Len(d.preroll) = Smaller(Preroll, Len(h) - d.since)
  /\ \A i \in 1..Len(d.preroll) : d.preroll[i] = h[Len(h) - Len(d.preroll) + i].item
  /\ \A i \in Nat : d.since < i /\ i + StartRun - 1 <= Len(h) => ~AllVoiced(h, i)

\* Inside one that started with the run at `r`: everything since its start, in order.
Hearing(d, h, r) ==
  /\ FirstRun(h, d.since, r) /\ StartsAt(d.first, d.since, r)
  /\ d.first \in Nat /\ d.lastVoiced \in Nat /\ d.silence \in Nat
  /\ r + StartRun - 1 <= d.lastVoiced /\ d.lastVoiced <= Len(h) /\ d.first < d.lastVoiced
  /\ d.frames \in Seq(Piece) /\ Len(d.frames) = Len(h) - d.first
  /\ \A i \in 1..Len(d.frames) : d.frames[i] = h[d.first + i].item
  /\ h[d.lastVoiced].voiced /\ \A i \in 1..Len(h) : i > d.lastVoiced => ~h[i].voiced
  /\ d.silence = Len(h) - d.lastVoiced
  /\ d.voicedCount = Cardinality(VoicedOf(h, r, Len(h)))

\* The utterance that was cut last, out of what was heard up to then.
WasCut(e, h, r) ==
  /\ e.committed \in Nat /\ e.committed <= Len(h) /\ e.since \in Nat
  /\ FirstRun(h, e.since, r) /\ StartsAt(e.first, e.since, r) /\ r + StartRun - 1 <= e.committed
  /\ e.first \in Nat /\ e.lastVoiced \in Nat
  /\ e.pcm \in Seq(Piece) /\ e.first + Len(e.pcm) <= e.committed
  /\ \A i \in 1..Len(e.pcm) : e.pcm[i] = h[e.first + i].item
  /\ \A i \in 1..e.committed : i > e.first + Len(e.pcm) => ~h[i].voiced
  /\ e.committed - e.lastVoiced = Patience \/ e.committed - e.first = MaxFrames
  /\ e.first + Len(e.pcm) - e.lastVoiced >= Smaller(TailFrames, e.committed - e.lastVoiced)
  /\ e.valid <=> Cardinality(VoicedOf(h, r, e.committed)) >= MinVoiced

\* A frame more, and what it leaves as it was.
LEMMA HeardMore ==
  ASSUME NEW h \in Seq(Sound), NEW x \in Sound
  PROVE  /\ Append(h, x) \in Seq(Sound) /\ Len(h) \in Nat
         /\ Len(Append(h, x)) = Len(h) + 1
         /\ \A i \in 1..Len(h) : Append(h, x)[i] = h[i]
         /\ Append(h, x)[Len(h) + 1] = x
  OBVIOUS

\* What was said about a run does not change when more is heard.
LEMMA RunKept ==
  ASSUME NEW h \in Seq(Sound), NEW x \in Sound, NEW i \in Nat, i >= 1, i + StartRun - 1 <= Len(h)
  PROVE  AllVoiced(Append(h, x), i) <=> AllVoiced(h, i)
<1>1. \A j \in i..(i + StartRun - 1) : j \in 1..Len(h)
  BY HeardMore, TurnConstants
<1>2. \A j \in i..(i + StartRun - 1) : Append(h, x)[j] = h[j]
  BY <1>1, HeardMore
<1> QED
  BY <1>2 DEF AllVoiced

\* The first run of an utterance stays the first.
LEMMA FirstRunKept ==
  ASSUME NEW h \in Seq(Sound), NEW x \in Sound, NEW since \in Nat, NEW r, FirstRun(h, since, r),
         r + StartRun - 1 <= Len(h)
  PROVE  FirstRun(Append(h, x), since, r)
<1>1. r \in Nat /\ r >= 1
  BY DEF FirstRun
<1>2. AllVoiced(Append(h, x), r)
  BY <1>1, RunKept DEF FirstRun
<1>3. ASSUME NEW i \in Nat, since < i, i < r PROVE ~AllVoiced(Append(h, x), i)
  <2>1. i >= 1 /\ i + StartRun - 1 <= Len(h)
    BY <1>1, <1>3, TurnConstants, HeardMore
  <2> QED
    BY <1>3, <2>1, RunKept DEF FirstRun
<1> QED
  BY <1>1, <1>2, <1>3 DEF FirstRun

\* The voiced frames of a stretch: they stay so, are finitely many, and a frame adds one or none.
LEMMA VoicedKept ==
  ASSUME NEW h \in Seq(Sound), NEW x \in Sound, NEW from \in Nat, from >= 1, NEW to \in Nat,
    to <= Len(h)
  PROVE  VoicedOf(Append(h, x), from, to) = VoicedOf(h, from, to)
<1>1. \A i \in from..to : Append(h, x)[i] = h[i]
  BY HeardMore
<1> QED
  BY <1>1 DEF VoicedOf

LEMMA VoicedFinite ==
  ASSUME NEW h, NEW from \in Nat, NEW to \in Nat
  PROVE  IsFiniteSet(VoicedOf(h, from, to)) /\ Cardinality(VoicedOf(h, from, to)) \in Nat
<1>1. IsFiniteSet(from..to)
  BY FS_Interval
<1>2. VoicedOf(h, from, to) \subseteq from..to
  BY DEF VoicedOf
<1> QED
  BY <1>1, <1>2, FS_Subset, FS_CardinalityType

\* One more frame adds one to the count, or nothing.
LEMMA VoicedCounts ==
  ASSUME NEW h \in Seq(Sound), NEW x \in Sound, NEW from \in Nat, from >= 1, from <= Len(h) + 1
  PROVE  Cardinality(VoicedOf(Append(h, x), from, Len(h) + 1)) =
           Cardinality(VoicedOf(h, from, Len(h))) + (IF x.voiced THEN 1 ELSE 0)
<1> DEFINE V == VoicedOf(h, from, Len(h))
           W == VoicedOf(Append(h, x), from, Len(h) + 1)
<1>1. Len(h) \in Nat /\ Append(h, x)[Len(h) + 1] = x
  BY HeardMore
<1>2. VoicedOf(Append(h, x), from, Len(h)) = V
  BY <1>1, VoicedKept
<1>3. W = IF x.voiced THEN V \cup {Len(h) + 1} ELSE V
  <2>1. from..(Len(h) + 1) = (from..Len(h)) \cup {Len(h) + 1}
    BY <1>1
  <2>2. W = VoicedOf(Append(h, x), from, Len(h)) \cup {i \in {Len(h) + 1} : Append(h, x)[i].voiced}
    BY <2>1 DEF VoicedOf
  <2> QED
    BY <1>1, <1>2, <2>2
<1>4. IsFiniteSet(V) /\ Len(h) + 1 \notin V
  BY <1>1, VoicedFinite DEF VoicedOf
<1>5. Cardinality(V \cup {Len(h) + 1}) = Cardinality(V) + 1
  <2> HIDE DEF V
  <2> QED
    BY <1>4, FS_AddElement
<1>6. Cardinality(V) \in Nat
  BY <1>1, VoicedFinite
<1> HIDE DEF V, W
<1>7. Cardinality(W) = Cardinality(V) + (IF x.voiced THEN 1 ELSE 0)
  BY <1>3, <1>5, <1>6
<1> QED
  BY <1>7 DEF V, W

DetectorRow(d) ==
  d = [cursor |-> d.cursor, preroll |-> d.preroll, frames |-> d.frames,
    voicedCount |-> d.voicedCount,
       silence |-> d.silence, run |-> d.run, first |-> d.first, lastVoiced |-> d.lastVoiced,
       since |-> d.since]

\* What a frame changes, field by field: the clock first, then one of three ways.
LEMMA ListensIs ==
  ASSUME NEW d, DetectorRow(d), NEW f, NEW voiced \in BOOLEAN, NEW n, n = Listens(d, f, voiced)
  PROVE  /\ DetectorRow(n) /\ n.cursor = d.cursor + 1 /\ n.run = (IF voiced THEN d.run + 1 ELSE 0)
         /\ n.since = d.since
         /\ d.frames # <<>> =>
              /\ n.frames = Append(d.frames, f) /\ n.first = d.first
              /\ n.voicedCount = (IF voiced THEN d.voicedCount + 1 ELSE d.voicedCount)
              /\ n.lastVoiced = (IF voiced THEN d.cursor + 1 ELSE d.lastVoiced)
              /\ n.silence = (IF voiced THEN 0 ELSE d.silence + 1)
         /\ d.frames = <<>> /\ n.run < StartRun =>
              n.frames = <<>> /\ n.preroll = Newest(Append(d.preroll, f), Preroll)
         /\ d.frames = <<>> /\ ~(n.run < StartRun) =>
              /\ n.frames = Newest(Append(d.preroll, f), Preroll)
              /\ n.first = n.cursor - Len(n.frames) /\ n.voicedCount = StartRun
              /\ n.lastVoiced = n.cursor /\ n.silence = 0
<1>0. PICK run : run = IF voiced THEN d.run + 1 ELSE 0
  OBVIOUS
<1>1. PICK c : c = Clocked(d, voiced)
  OBVIOUS
<1>2. c = [d EXCEPT !.cursor = d.cursor + 1, !.run = run]
  BY <1>0, <1>1 DEF Clocked
<1>6. c = [cursor |-> d.cursor + 1, preroll |-> d.preroll, frames |-> d.frames,
           voicedCount |-> d.voicedCount, silence |-> d.silence,
           run |-> run, first |-> d.first, lastVoiced |-> d.lastVoiced, since |-> d.since]
  BY <1>2 DEF DetectorRow
<1>7. c.cursor = d.cursor + 1 /\ c.run = run /\ c.frames = d.frames /\ c.preroll = d.preroll
  BY <1>6
<1>3. CASE d.frames # <<>>
  <2>1. n = Continues(c, f, voiced)
    BY <1>1, <1>3, <1>7 DEF Listens
  <2>2. n = [cursor |-> d.cursor + 1, preroll |-> d.preroll, frames |-> Append(d.frames, f),
             voicedCount |-> IF voiced THEN d.voicedCount + 1 ELSE d.voicedCount,
             silence |-> IF voiced THEN 0 ELSE d.silence + 1,
             run |-> run, first |-> d.first,
             lastVoiced |-> IF voiced THEN d.cursor + 1 ELSE d.lastVoiced, since |-> d.since]
    <3>1. PICK count, silence, last :
            /\ count = (IF voiced THEN d.voicedCount + 1 ELSE d.voicedCount)
            /\ silence = (IF voiced THEN 0 ELSE d.silence + 1)
            /\ last = (IF voiced THEN d.cursor + 1 ELSE d.lastVoiced)
      OBVIOUS
    <3>2. n = [c EXCEPT !.frames = Append(d.frames, f), !.voicedCount = count, !.lastVoiced = last,
                        !.silence = silence]
      BY <1>6, <2>1, <3>1 DEF Continues
    <3>3. n = [cursor |-> d.cursor + 1, preroll |-> d.preroll, frames |-> Append(d.frames, f),
               voicedCount |-> count, silence |-> silence, run |-> run, first |-> d.first,
               lastVoiced |-> last, since |-> d.since]
      BY <1>6, <3>2
    <3> QED
      BY <3>1, <3>3
  <2> QED
    BY <1>0, <1>3, <2>2 DEF DetectorRow
<1>4. CASE d.frames = <<>> /\ c.run < StartRun
  <2>1. n = Waits(c, f)
    BY <1>1, <1>4, <1>7 DEF Listens
  <2>2. n = [cursor |-> d.cursor + 1, preroll |-> Newest(Append(d.preroll, f), Preroll),
             frames |-> d.frames, voicedCount |-> d.voicedCount, silence |-> d.silence,
             run |-> run, first |-> d.first,
             lastVoiced |-> d.lastVoiced, since |-> d.since]
    BY <1>6, <1>7, <2>1 DEF Waits
  <2> QED
    BY <1>0, <1>4, <1>7, <2>2 DEF DetectorRow
<1>5. CASE d.frames = <<>> /\ ~(c.run < StartRun)
  <2>1. PICK all : all = Newest(Append(d.preroll, f), Preroll)
    OBVIOUS
  <2>2. n = Starts(c, f)
    BY <1>1, <1>5, <1>7 DEF Listens
  <2>3. n = [c EXCEPT !.frames = all, !.first = c.cursor - Len(all), !.voicedCount = StartRun,
                      !.preroll = <<>>, !.lastVoiced = c.cursor, !.silence = 0]
    BY <1>7, <2>1, <2>2 DEF Starts
  <2>4. n = [cursor |-> c.cursor, preroll |-> <<>>, frames |-> all, voicedCount |-> StartRun,
             silence |-> 0, run |-> run, first |-> c.cursor - Len(all), lastVoiced |-> c.cursor,
             since |-> d.since]
    BY <1>6, <1>7, <2>3
  <2>5. n.cursor = c.cursor /\ n.frames = all /\ n.first = c.cursor - Len(all)
          /\ n.lastVoiced = c.cursor
        /\ n.run = run /\ n.since = d.since /\ n.silence = 0 /\ n.voicedCount = StartRun
    BY <2>4
  <2>6. DetectorRow(n)
    BY <2>4 DEF DetectorRow
  <2> QED
    BY <1>0, <1>5, <1>7, <2>1, <2>5, <2>6
<1> QED
  BY <1>3, <1>4, <1>5

\* The clock and the run stay those of what was heard.
LEMMA ClocksKept ==
  ASSUME NEW h \in Seq(Sound), NEW x \in Sound, NEW d, DetectorRow(d), Clocks(d, h),
         NEW n, n = Listens(d, x.item, x.voiced)
  PROVE  Clocks(n, Append(h, x))
<1> DEFINE g == Append(h, x)
<1>1. /\ Len(h) \in Nat /\ Len(g) = Len(h) + 1 /\ \A i \in 1..Len(h) : g[i] = h[i]
      /\ g[Len(h) + 1] = x
  BY HeardMore
<1>2. x.voiced \in BOOLEAN
  BY DEF Sound
<1>3. n.cursor = d.cursor + 1 /\ n.run = (IF x.voiced THEN d.run + 1 ELSE 0) /\ n.since = d.since
  BY <1>2, ListensIs
<1>4. /\ d.cursor = Len(h) /\ d.since \in Nat /\ d.since <= Len(h)
      /\ d.run \in Nat /\ d.run <= Len(h) - d.since
      /\ \A i \in 1..Len(h) : i > Len(h) - d.run => h[i].voiced
      /\ d.run < Len(h) - d.since => ~h[Len(h) - d.run].voiced
  BY DEF Clocks
<1> HIDE DEF g
<1>5. CASE x.voiced
  <2>1. n.run = d.run + 1
    BY <1>3, <1>5
  <2>2. ASSUME NEW i \in 1..Len(g), i > Len(g) - n.run PROVE g[i].voiced
    <3>1. CASE i = Len(h) + 1
      BY <1>1, <1>5, <3>1
    <3>2. CASE i \in 1..Len(h)
      <4>1. i > Len(h) - d.run
        BY <1>1, <1>4, <2>1, <2>2
      <4> QED
        BY <1>1, <1>4, <3>2, <4>1
    <3> QED
      BY <1>1, <3>1, <3>2
  <2>3. n.run < Len(g) - n.since => ~g[Len(g) - n.run].voiced
    <3> SUFFICES ASSUME n.run < Len(g) - n.since PROVE ~g[Len(g) - n.run].voiced
      OBVIOUS
    <3>1. d.run < Len(h) - d.since
      BY <1>1, <1>3, <1>4, <2>1
    <3>2. Len(g) - n.run = Len(h) - d.run /\ Len(h) - d.run \in 1..Len(h)
      BY <1>1, <1>4, <2>1, <3>1
    <3> QED
      BY <1>1, <1>4, <3>1, <3>2
  <2>4. n.run \in Nat /\ n.run <= Len(g) - n.since /\ n.since <= Len(g) /\ n.cursor = Len(g)
    BY <1>1, <1>3, <1>4, <2>1
  <2> QED
    BY <1>3, <1>4, <2>2, <2>3, <2>4 DEF Clocks, g
<1>6. CASE ~x.voiced
  <2>1. n.run = 0
    BY <1>3, <1>6
  <2>2. \A i \in 1..Len(g) : i > Len(g) - n.run => g[i].voiced
    BY <1>1, <2>1
  <2>3. ~g[Len(g) - n.run].voiced
    <3>1. Len(g) - n.run = Len(h) + 1
      BY <1>1, <2>1
    <3> QED
      BY <1>1, <1>6, <3>1
  <2>4. n.run \in Nat /\ n.run <= Len(g) - n.since /\ n.since <= Len(g) /\ n.cursor = Len(g)
    BY <1>1, <1>3, <1>4, <2>1
  <2> QED
    BY <1>3, <1>4, <2>2, <2>3, <2>4 DEF Clocks, g
<1> QED
  BY <1>2, <1>5, <1>6

\* Where the newest run is too short, none of full length ends.
LEMMA NoRunEnds ==
  ASSUME NEW g \in Seq(Sound), NEW n, Clocks(n, g), n.run < StartRun, Len(g) >= 1,
         NEW i \in Nat, n.since < i, i + StartRun - 1 = Len(g)
  PROVE  ~AllVoiced(g, i)
<1>1. Len(g) \in Nat /\ n.run \in Nat /\ n.since \in Nat /\ StartRun \in Nat
  BY TurnConstants DEF Clocks
<1>2. n.run < Len(g) - n.since
  BY <1>1, TurnConstants
<1>3. ~g[Len(g) - n.run].voiced
  BY <1>2 DEF Clocks
<1>4. Len(g) - n.run \in i..(i + StartRun - 1)
  BY <1>1
<1> QED
  BY <1>3, <1>4 DEF AllVoiced

\* The newest frames, after one more.
LEMMA NewestIs ==
  ASSUME NEW s \in Seq(Piece), NEW f \in Piece, NEW k \in Nat, k >= 1
  PROVE  /\ Newest(Append(s, f), k) \in Seq(Piece)
         /\ Len(Newest(Append(s, f), k)) = Smaller(k, Len(s) + 1)
         /\ \A i \in 1..Smaller(k, Len(s) + 1) :
              Newest(Append(s, f), k)[i] = Append(s, f)[Len(s) + 1 - Smaller(k, Len(s) + 1) + i]
<1> DEFINE t == Append(s, f)
           cut == IF Len(t) > k THEN Len(t) - k ELSE 0
<1>1. t \in Seq(Piece) /\ Len(s) \in Nat /\ Len(t) = Len(s) + 1
  BY AppendProperties, LenProperties
<1>2. Newest(t, k) = SubSeq(t, cut + 1, Len(t))
  BY DEF Newest
<1>3. cut \in Nat /\ cut + 1 \in 1..(Len(t) + 1) /\ Len(t) \in (cut + 1 - 1)..Len(t)
      /\ Len(t) - cut = Smaller(k, Len(s) + 1)
  <2> HIDE DEF t
  <2>1. CASE Len(t) > k
    <3>1. cut = Len(t) - k /\ Len(t) \in Nat
      BY <1>1, <2>1
    <3>2. Smaller(k, Len(s) + 1) = k
      BY <1>1, <2>1 DEF Smaller
    <3> HIDE DEF cut
    <3> QED
      BY <2>1, <3>1, <3>2
  <2>2. CASE ~(Len(t) > k)
    <3>1. cut = 0 /\ Len(t) \in Nat
      BY <1>1, <2>2
    <3>2. Smaller(k, Len(s) + 1) = Len(t)
      BY <1>1, <2>2 DEF Smaller
    <3> HIDE DEF cut
    <3> QED
      BY <2>2, <3>1, <3>2
  <2> QED
    BY <2>1, <2>2
<1> HIDE DEF t, cut
<1>4. /\ SubSeq(t, cut + 1, Len(t)) \in Seq(Piece)
      /\ Len(SubSeq(t, cut + 1, Len(t))) = Len(t) - (cut + 1) + 1
      /\ \A i \in 1..(Len(t) - (cut + 1) + 1) : SubSeq(t, cut + 1, Len(t))[i] = t[cut + 1 + i - 1]
  BY <1>1, <1>3, SubSeqProperties
<1>5. Len(t) - (cut + 1) + 1 = Smaller(k, Len(s) + 1)
  BY <1>1, <1>3
<1>6. ASSUME NEW i \in 1..Smaller(k, Len(s) + 1)
      PROVE  Newest(t, k)[i] = t[Len(s) + 1 - Smaller(k, Len(s) + 1) + i]
  <2>1. cut + 1 + i - 1 = Len(s) + 1 - Smaller(k, Len(s) + 1) + i
    BY <1>1, <1>3
  <2> QED
    BY <1>2, <1>4, <1>5, <2>1
<1> QED
  BY <1>2, <1>4, <1>5, <1>6 DEF t

\* What is kept before an utterance, or becomes its beginning.
KeptBefore(all, g, since) ==
  /\ all \in Seq(Piece) /\ Len(all) = Smaller(Preroll, Len(g) - since)
  /\ \A i \in 1..Len(all) : all[i] = g[Len(g) - Len(all) + i].item

\* With the frame that comes, what is kept is still the newest of what was heard.
LEMMA PrerollKept ==
  ASSUME NEW h \in Seq(Sound), NEW x \in Sound, NEW d, Clocks(d, h), Waiting(d, h)
  PROVE  KeptBefore(Newest(Append(d.preroll, x.item), Preroll), Append(h, x), d.since)
<1>0. PICK all : all = Newest(Append(d.preroll, x.item), Preroll)
  OBVIOUS
<1> DEFINE g == Append(h, x)
           k == Len(d.preroll)
<1>1. /\ Len(h) \in Nat /\ Len(g) = Len(h) + 1 /\ \A i \in 1..Len(h) : g[i] = h[i]
      /\ g[Len(h) + 1] = x
  BY HeardMore
<1>2. /\ d.preroll \in Seq(Piece) /\ k = Smaller(Preroll, Len(h) - d.since)
      /\ \A i \in 1..k : d.preroll[i] = h[Len(h) - k + i].item
      /\ d.since \in Nat /\ d.since <= Len(h)
  BY DEF Waiting, Clocks
<1>3. x.item \in Piece
  BY DEF Sound
<1>4. /\ Append(d.preroll, x.item) \in Seq(Piece)
      /\ \A i \in 1..k : Append(d.preroll, x.item)[i] = d.preroll[i]
      /\ Append(d.preroll, x.item)[k + 1] = x.item
  BY <1>2, <1>3, AppendProperties
<1>5. /\ all \in Seq(Piece) /\ Len(all) = Smaller(Preroll, k + 1)
      /\ \A i \in 1..Smaller(Preroll, k + 1) :
           all[i] = Append(d.preroll, x.item)[k + 1 - Smaller(Preroll, k + 1) + i]
  <2>1. /\ Newest(Append(d.preroll, x.item), Preroll) \in Seq(Piece)
        /\ Len(Newest(Append(d.preroll, x.item), Preroll)) = Smaller(Preroll, Len(d.preroll) + 1)
        /\ \A i \in 1..Smaller(Preroll, Len(d.preroll) + 1) :
             Newest(Append(d.preroll, x.item), Preroll)[i] =
               Append(d.preroll, x.item)[Len(d.preroll) + 1 - Smaller(Preroll,
                 Len(d.preroll) + 1) + i]
    <3>1. Preroll \in Nat /\ Preroll >= 1
      BY TurnConstants
    <3>2. d.preroll \in Seq(Piece)
      BY <1>2
    <3> HIDE DEF Piece, g, k
    <3> QED
      BY <1>3, <3>1, <3>2, NewestIs
  <2> QED
    BY <1>0, <2>1
<1> HIDE DEF g, k
<1>6. k \in Nat /\ k <= Len(h)
  BY <1>1, <1>2, TurnConstants DEF Smaller
<1>7. Len(all) = Smaller(Preroll, Len(h) + 1 - d.since) /\ Len(all) \in Nat /\ Len(all) <= k + 1
  BY <1>1, <1>2, <1>5, <1>6, TurnConstants DEF Smaller
<1>8. ASSUME NEW i \in 1..Len(all) PROVE all[i] = g[Len(h) + 1 - Len(all) + i].item
  <2> DEFINE j == k + 1 - Len(all) + i
  <2>0. i \in 1..Smaller(Preroll, k + 1) /\ i \in Int
    BY <1>5, <1>7
  <2>1. j \in 1..(k + 1) /\ all[i] = Append(d.preroll, x.item)[j]
    <3>1. all[i] = Append(d.preroll, x.item)[j]
      BY <1>5, <2>0
    <3>2. i >= 1 /\ i <= Len(all)
      BY <1>7
    <3> QED
      BY <1>6, <1>7, <2>0, <3>1, <3>2
  <2>2. Len(h) - k + j = Len(h) + 1 - Len(all) + i
    BY <1>1, <1>6, <1>7, <2>0
  <2>5. j \in Int
    BY <1>6, <1>7, <2>0
  <2> HIDE DEF j
  <2>3. CASE j = k + 1
    <3>1. all[i] = x.item
      BY <1>4, <2>1, <2>3
    <3>2. Len(h) + 1 - Len(all) + i = Len(h) + 1
      <4>1. Len(h) - k + j = Len(h) + 1
        BY <1>1, <1>6, <2>3
      <4> QED
        BY <2>2, <4>1
    <3> QED
      BY <1>1, <3>1, <3>2
  <2>4. CASE j \in 1..k
    <3>1. all[i] = h[Len(h) - k + j].item
      BY <1>2, <1>4, <2>1, <2>4
    <3>2. Len(h) - k + j \in 1..Len(h)
      BY <1>1, <1>6, <2>4
    <3> QED
      BY <1>1, <2>2, <3>1, <3>2
  <2> QED
    <3>1. j = k + 1 \/ j \in 1..k
      BY <1>6, <2>1, <2>5
    <3> QED
      BY <2>3, <2>4, <3>1
<1>9. Len(all) = Smaller(Preroll, Len(g) - d.since)
  <2>1. Len(g) - d.since = Len(h) + 1 - d.since
    BY <1>1, <1>2
  <2> QED
    BY <1>7, <2>1
<1>10. \A i \in 1..Len(all) : all[i] = g[Len(g) - Len(all) + i].item
  BY <1>1, <1>8
<1>11. KeptBefore(all, g, d.since)
  BY <1>5, <1>9, <1>10 DEF KeptBefore
<1> QED
  BY <1>0, <1>11 DEF g

\* A frame that starts no utterance is kept with those before it.
LEMMA WaitsOn ==
  ASSUME NEW h \in Seq(Sound), NEW x \in Sound, NEW d, DetectorRow(d), Clocks(d, h), Waiting(d, h),
         NEW n, n = Listens(d, x.item, x.voiced), n.run < StartRun
  PROVE  Waiting(n, Append(h, x))
<1> DEFINE g == Append(h, x)
<1>1. g \in Seq(Sound) /\ Len(h) \in Nat /\ Len(g) = Len(h) + 1
  BY HeardMore
<1>2. Clocks(n, g)
  BY ClocksKept
<1>3. x.voiced \in BOOLEAN
  BY DEF Sound
<1>4. n.frames = <<>> /\ n.preroll = Newest(Append(d.preroll, x.item), Preroll) /\ n.since = d.since
  BY <1>3, ListensIs DEF Waiting
<1>5. /\ n.preroll \in Seq(Piece) /\ Len(n.preroll) = Smaller(Preroll, Len(g) - n.since)
      /\ \A i \in 1..Len(n.preroll) : n.preroll[i] = g[Len(g) - Len(n.preroll) + i].item
  <2>1. KeptBefore(n.preroll, g, n.since)
    BY <1>4, PrerollKept
  <2> QED
    BY <2>1 DEF KeptBefore
<1> HIDE DEF g
<1>6. ASSUME NEW i \in Nat, n.since < i, i + StartRun - 1 <= Len(g) PROVE ~AllVoiced(g, i)
  <2>1. i >= 1 /\ StartRun \in Nat
    BY <1>2, <1>6, TurnConstants DEF Clocks
  <2>2. CASE i + StartRun - 1 = Len(g)
    BY <1>1, <1>2, <1>6, <2>2, NoRunEnds
  <2>3. CASE i + StartRun - 1 <= Len(h)
    <3>1. ~AllVoiced(h, i)
      BY <1>4, <1>6, <2>3 DEF Waiting
    <3> QED
      BY <2>1, <2>3, <3>1, RunKept DEF g
  <2> QED
    BY <1>1, <1>6, <2>1, <2>2, <2>3
<1>7. n.frames = <<>> /\ n.run < StartRun
  BY <1>4
<1>8. Waiting(n, g)
  BY <1>5, <1>6, <1>7 DEF Waiting
<1> QED
  BY <1>8 DEF g

\* The frame that completes a run starts an utterance, with what was kept before.
LEMMA StartsNow ==
  ASSUME NEW h \in Seq(Sound), NEW x \in Sound, NEW d, DetectorRow(d), Clocks(d, h), Waiting(d, h),
         NEW n, n = Listens(d, x.item, x.voiced), ~(n.run < StartRun)
  PROVE  \E r \in Nat : Hearing(n, Append(h, x), r) /\ n.silence = 0 /\ Len(n.frames) <= Preroll
                          /\ n.frames # <<>>
<1> DEFINE g == Append(h, x)
           r == Len(h) + 2 - StartRun
<1>1. /\ g \in Seq(Sound) /\ Len(h) \in Nat /\ Len(g) = Len(h) + 1
           /\ \A i \in 1..Len(h) : g[i] = h[i]
      /\ g[Len(h) + 1] = x
  BY HeardMore
<1>2. Clocks(n, g)
  BY ClocksKept
<1>3. x.voiced \in BOOLEAN
  BY DEF Sound
<1>4. /\ n.frames = Newest(Append(d.preroll, x.item), Preroll) /\ n.since = d.since
      /\ n.first = n.cursor - Len(n.frames) /\ n.voicedCount = StartRun
      /\ n.lastVoiced = n.cursor /\ n.silence = 0 /\ n.run = (IF x.voiced THEN d.run + 1 ELSE 0)
  BY <1>3, ListensIs DEF Waiting
<1>5. /\ n.frames \in Seq(Piece) /\ Len(n.frames) = Smaller(Preroll, Len(g) - n.since)
      /\ \A i \in 1..Len(n.frames) : n.frames[i] = g[Len(g) - Len(n.frames) + i].item
  <2>1. KeptBefore(n.frames, g, n.since)
    BY <1>4, PrerollKept
  <2> QED
    BY <2>1 DEF KeptBefore
<1> HIDE DEF g
<1>6. /\ n.cursor = Len(g) /\ n.since \in Nat /\ n.since <= Len(h) /\ n.run \in Nat
      /\ n.run <= Len(g) - n.since /\ \A i \in 1..Len(g) : i > Len(g) - n.run => g[i].voiced
  BY <1>2, <1>4 DEF Clocks
<1>7. d.run < StartRun /\ d.run \in Nat
  BY DEF Waiting, Clocks
<1>8. x.voiced /\ n.run = StartRun
  <2>1. n.run # 0
    BY TurnConstants
  <2>2. x.voiced /\ n.run = d.run + 1
    BY <1>3, <1>4, <2>1
  <2>3. ASSUME NEW a \in Nat, NEW b \in Nat, a < b, ~(a + 1 < b) PROVE a + 1 = b
    BY <2>3
  <2>4. ~(d.run + 1 < StartRun)
    BY <2>2
  <2>5. StartRun \in Nat
    BY TurnConstants
  <2>6. d.run + 1 = StartRun
    BY <1>7, <2>3, <2>4, <2>5
  <2> QED
    BY <2>2, <2>6
<1>9. r \in Nat /\ r > n.since /\ r + StartRun - 1 = Len(g)
  <2>1. StartRun \in Nat /\ StartRun >= 1
    BY TurnConstants
  <2>2. n.run <= Len(g) - n.since
    BY <1>6
  <2>3. StartRun <= Len(g) - n.since
    BY <1>8, <2>2
  <2> QED
    BY <1>1, <1>6, <2>1, <2>3
<1>10. AllVoiced(g, r)
  <2> HIDE DEF r
  <2>1. ASSUME NEW j \in r..(r + StartRun - 1) PROVE j \in 1..Len(g) /\ j > Len(g) - n.run
    <3>1. StartRun \in Nat /\ Len(g) \in Nat /\ n.run = StartRun
      <4>1. StartRun \in Nat
        BY TurnConstants
      <4>2. Len(g) \in Nat
        BY <1>1
      <4> QED
        BY <1>8, <4>1, <4>2
    <3>2. r \in Nat /\ r > n.since /\ n.since \in Nat /\ r + StartRun - 1 = Len(g)
      BY <1>6, <1>9
    <3>3. j \in Int /\ j >= r /\ j <= Len(g)
      BY <2>1, <3>1, <3>2
    <3>4. j >= 1 /\ j > Len(g) - StartRun
      BY <3>1, <3>2, <3>3
    <3> QED
      BY <3>1, <3>3, <3>4
  <2> QED
    BY <1>6, <2>1 DEF AllVoiced
<1>11. FirstRun(g, n.since, r)
  <2>1. ASSUME NEW i \in Nat, n.since < i, i < r PROVE ~AllVoiced(g, i)
    <3>1. i >= 1 /\ i + StartRun - 1 <= Len(h)
      BY <1>1, <1>6, <1>9, <2>1, TurnConstants
    <3>2. ~AllVoiced(h, i)
      BY <1>4, <2>1, <3>1 DEF Waiting
    <3> QED
      BY <3>1, <3>2, RunKept DEF g
  <2> HIDE DEF r
  <2> QED
    BY <1>9, <1>10, <2>1 DEF FirstRun
<1>12. StartsAt(n.first, n.since, r) /\ n.first \in Nat /\ n.first < Len(g)
         /\ Len(n.frames) <= Preroll
       /\ Len(n.frames) >= 1 /\ Len(n.frames) = Len(g) - n.first
  <2> HIDE DEF r
  <2>1. Len(n.frames) = Smaller(Preroll, Len(g) - n.since) /\ n.first = Len(g) - Len(n.frames)
    BY <1>1, <1>4, <1>5, <1>6
  <2>2. CASE Preroll <= Len(g) - n.since
    <3>1. Len(n.frames) = Preroll
      BY <2>1, <2>2 DEF Smaller
    <3>2. n.first = Len(g) - Preroll
      BY <2>1, <3>1
    <3>3. n.first = IF Len(g) > n.since + Preroll THEN Len(g) - Preroll ELSE n.since
      BY <1>1, <1>6, <2>2, <3>2, TurnConstants
    <3> QED
      BY <1>1, <1>6, <1>9, <2>2, <3>1, <3>2, <3>3, TurnConstants DEF StartsAt
  <2>3. CASE ~(Preroll <= Len(g) - n.since)
    <3>1. Len(n.frames) = Len(g) - n.since
      BY <2>1, <2>3 DEF Smaller
    <3>2. n.first = n.since
      BY <1>1, <1>6, <2>1, <3>1
    <3>3. n.first = IF Len(g) > n.since + Preroll THEN Len(g) - Preroll ELSE n.since
      BY <1>1, <1>6, <2>3, <3>2, TurnConstants
    <3> QED
      BY <1>1, <1>6, <1>9, <2>3, <3>1, <3>2, <3>3, TurnConstants DEF StartsAt
  <2> QED
    BY <2>2, <2>3
<1>13. n.voicedCount = Cardinality(VoicedOf(g, r, Len(g)))
  <2>1. VoicedOf(g, r, Len(g)) = r..Len(g)
    BY <1>9, <1>10 DEF VoicedOf, AllVoiced
  <2>2. Cardinality(r..Len(g)) = Len(g) - r + 1
    <3> HIDE DEF r
    <3>1. r \in Int /\ Len(g) \in Int /\ ~(r > Len(g))
      BY <1>1, <1>9, TurnConstants
    <3> QED
      BY <3>1, FS_Interval
  <2>3. Len(g) - r + 1 = StartRun
    BY <1>1, TurnConstants
  <2> QED
    BY <1>4, <2>1, <2>2, <2>3
<1>14. \A i \in 1..Len(n.frames) : n.frames[i] = g[n.first + i].item
  <2> SUFFICES ASSUME NEW i \in 1..Len(n.frames) PROVE n.frames[i] = g[n.first + i].item
    OBVIOUS
  <2>1. Len(g) - Len(n.frames) + i = n.first + i
    BY <1>1, <1>4, <1>6
  <2> QED
    BY <1>5, <2>1
<1>15. /\ n.lastVoiced = Len(g) /\ g[n.lastVoiced].voiced /\ n.silence = 0
       /\ \A i \in 1..Len(g) : ~(i > n.lastVoiced)
  BY <1>1, <1>4, <1>6, <1>8
<1> HIDE DEF r
<1>16. Hearing(n, g, r)
  BY <1>1, <1>5, <1>9, <1>11, <1>12, <1>13, <1>14, <1>15 DEF Hearing
<1>17. n.frames # <<>>
  BY <1>12
<1> QED
  BY <1>9, <1>12, <1>15, <1>16, <1>17 DEF g

\* A frame within an utterance goes on with it.
LEMMA GoesOn ==
  ASSUME NEW h \in Seq(Sound), NEW x \in Sound, NEW d, DetectorRow(d), Clocks(d, h),
         NEW r, Hearing(d, h, r), d.frames # <<>>, NEW n, n = Listens(d, x.item, x.voiced)
  PROVE  /\ Hearing(n, Append(h, x), r) /\ n.silence <= d.silence + 1
              /\ Len(n.frames) = Len(d.frames) + 1
         /\ n.frames # <<>>
<1> DEFINE g == Append(h, x)
<1>1. /\ g \in Seq(Sound) /\ Len(h) \in Nat /\ Len(g) = Len(h) + 1
           /\ \A i \in 1..Len(h) : g[i] = h[i]
      /\ g[Len(h) + 1] = x
  BY HeardMore
<1>2. d.cursor = Len(h) /\ d.since \in Nat
  BY DEF Clocks
<1>3. x.voiced \in BOOLEAN /\ x.item \in Piece
  BY DEF Sound
<1>4. /\ n.since = d.since /\ n.frames = Append(d.frames, x.item) /\ n.first = d.first
      /\ n.voicedCount = (IF x.voiced THEN d.voicedCount + 1 ELSE d.voicedCount)
      /\ n.lastVoiced = (IF x.voiced THEN d.cursor + 1 ELSE d.lastVoiced)
      /\ n.silence = (IF x.voiced THEN 0 ELSE d.silence + 1)
  BY <1>3, ListensIs
<1>5. /\ FirstRun(h, d.since, r) /\ StartsAt(d.first, d.since, r)
      /\ d.first \in Nat /\ d.lastVoiced \in Nat /\ d.silence \in Nat
      /\ r + StartRun - 1 <= d.lastVoiced /\ d.lastVoiced <= Len(h) /\ d.first < d.lastVoiced
      /\ d.frames \in Seq(Piece) /\ Len(d.frames) = Len(h) - d.first
      /\ \A i \in 1..Len(d.frames) : d.frames[i] = h[d.first + i].item
      /\ h[d.lastVoiced].voiced /\ \A i \in 1..Len(h) : i > d.lastVoiced => ~h[i].voiced
      /\ d.silence = Len(h) - d.lastVoiced
      /\ d.voicedCount = Cardinality(VoicedOf(h, r, Len(h)))
  BY DEF Hearing
<1>6. r \in Nat /\ r >= 1 /\ r <= Len(h)
  BY <1>1, <1>2, <1>5, TurnConstants DEF FirstRun
<1>7. FirstRun(g, n.since, r)
  BY <1>1, <1>2, <1>4, <1>5, <1>6, FirstRunKept, TurnConstants
<1>8. Cardinality(VoicedOf(g, r, Len(g))) =
        Cardinality(VoicedOf(h, r, Len(h))) + (IF x.voiced THEN 1 ELSE 0)
  BY <1>1, <1>6, VoicedCounts
<1>9. Cardinality(VoicedOf(h, r, Len(h))) \in Nat
  BY <1>1, <1>6, VoicedFinite
<1> HIDE DEF g
<1>10. n.voicedCount = Cardinality(VoicedOf(g, r, Len(g)))
  BY <1>3, <1>4, <1>5, <1>8, <1>9
<1>11. /\ n.frames \in Seq(Piece) /\ Len(n.frames) = Len(d.frames) + 1 /\ n.frames # <<>>
       /\ \A i \in 1..Len(d.frames) : n.frames[i] = d.frames[i]
       /\ n.frames[Len(d.frames) + 1] = x.item /\ Len(d.frames) \in Nat
  <2>1. d.frames \in Seq(Piece) /\ x.item \in Piece
    BY <1>3, <1>5
  <2>2. /\ Append(d.frames, x.item) \in Seq(Piece)
             /\ Len(Append(d.frames, x.item)) = Len(d.frames) + 1
        /\ Append(d.frames, x.item) # <<>> /\ Append(d.frames, x.item)[Len(d.frames) + 1] = x.item
        /\ \A i \in 1..Len(d.frames) : Append(d.frames, x.item)[i] = d.frames[i]
        /\ Len(d.frames) \in Nat
    <3> HIDE DEF Piece
    <3> QED
      BY <2>1
  <2> QED
    BY <1>4, <2>2
<1>12. \A i \in 1..Len(n.frames) : n.frames[i] = g[n.first + i].item
  <2> SUFFICES ASSUME NEW i \in 1..Len(n.frames) PROVE n.frames[i] = g[n.first + i].item
    OBVIOUS
  <2>1. CASE i \in 1..Len(d.frames)
    <3>1. n.frames[i] = h[d.first + i].item
      BY <1>5, <1>11, <2>1
    <3>2. d.first + i \in 1..Len(h)
      BY <1>1, <1>5, <2>1
    <3> QED
      BY <1>1, <1>4, <3>1, <3>2
  <2>2. CASE i = Len(d.frames) + 1
    <3>1. d.first + i = Len(h) + 1
      BY <1>1, <1>5, <2>2
    <3> QED
      BY <1>1, <1>4, <1>11, <2>2, <3>1
  <2> QED
    BY <1>11, <2>1, <2>2
<1>13. Len(n.frames) = Len(g) - n.first
  BY <1>1, <1>4, <1>5, <1>11
<1>14. /\ n.lastVoiced \in Nat /\ n.lastVoiced <= Len(g) /\ n.first < n.lastVoiced
       /\ r + StartRun - 1 <= n.lastVoiced /\ n.silence \in Nat /\ n.silence <= d.silence + 1
       /\ n.silence = Len(g) - n.lastVoiced
  <2>1. CASE x.voiced
    <3>1. n.lastVoiced = Len(h) + 1 /\ n.silence = 0
      BY <1>2, <1>4, <2>1
    <3>2. /\ n.first = d.first /\ Len(g) = Len(h) + 1 /\ Len(h) \in Nat /\ r \in Nat
               /\ StartRun \in Nat
          /\ d.first \in Nat /\ d.lastVoiced \in Nat /\ d.silence \in Nat
          /\ r + StartRun - 1 <= d.lastVoiced /\ d.lastVoiced <= Len(h) /\ d.first < d.lastVoiced
          /\ d.silence = Len(h) - d.lastVoiced
      BY <1>1, <1>4, <1>5, <1>6, TurnConstants
    <3>3. n.lastVoiced \in Nat /\ n.lastVoiced <= Len(g)
      BY <3>1, <3>2
    <3>4. n.first < n.lastVoiced
      BY <3>1, <3>2
    <3>5. r + StartRun - 1 <= n.lastVoiced
      BY <3>1, <3>2
    <3>6. n.silence \in Nat /\ n.silence <= d.silence + 1
      BY <3>1, <3>2
    <3>7. n.silence = Len(g) - n.lastVoiced
      BY <3>1, <3>2
    <3> QED
      BY <3>3, <3>4, <3>5, <3>6, <3>7
  <2>2. CASE ~x.voiced
    <3>1. n.lastVoiced = d.lastVoiced /\ n.silence = d.silence + 1
      BY <1>4, <2>2
    <3>2. /\ n.first = d.first /\ Len(g) = Len(h) + 1 /\ Len(h) \in Nat /\ r \in Nat
               /\ StartRun \in Nat
          /\ d.first \in Nat /\ d.lastVoiced \in Nat /\ d.silence \in Nat
          /\ r + StartRun - 1 <= d.lastVoiced /\ d.lastVoiced <= Len(h) /\ d.first < d.lastVoiced
          /\ d.silence = Len(h) - d.lastVoiced
      BY <1>1, <1>4, <1>5, <1>6, TurnConstants
    <3>3. n.lastVoiced \in Nat /\ n.lastVoiced <= Len(g)
      BY <3>1, <3>2
    <3>4. n.first < n.lastVoiced
      BY <3>1, <3>2
    <3>5. r + StartRun - 1 <= n.lastVoiced
      BY <3>1, <3>2
    <3>6. n.silence \in Nat /\ n.silence <= d.silence + 1
      BY <3>1, <3>2
    <3>7. n.silence = Len(g) - n.lastVoiced
      BY <3>1, <3>2
    <3> QED
      BY <3>3, <3>4, <3>5, <3>6, <3>7
  <2> QED
    BY <1>3, <2>1, <2>2
<1>15. g[n.lastVoiced].voiced /\ \A i \in 1..Len(g) : i > n.lastVoiced => ~g[i].voiced
  <2>1. CASE x.voiced
    <3>1. n.lastVoiced = Len(h) + 1
      BY <1>2, <1>4, <2>1
    <3>2. \A i \in 1..Len(g) : ~(i > n.lastVoiced)
      BY <1>1, <3>1
    <3> QED
      BY <1>1, <2>1, <3>1, <3>2
  <2>2. CASE ~x.voiced
    <3>1. n.lastVoiced = d.lastVoiced /\ d.lastVoiced \in 1..Len(h)
      BY <1>1, <1>4, <1>5, <2>2
    <3>2. \A i \in 1..Len(g) : i = Len(h) + 1 \/ i \in 1..Len(h)
      BY <1>1
    <3> QED
      BY <1>1, <1>5, <2>2, <3>1, <3>2
  <2> QED
    BY <1>3, <2>1, <2>2
<1>16. Hearing(n, g, r)
  BY <1>4, <1>5, <1>7, <1>10, <1>11, <1>12, <1>13, <1>14, <1>15 DEF Hearing
<1> QED
  BY <1>11, <1>14, <1>16 DEF g

\* What an endpoint returns is the utterance, as the property has it.
LEMMA CutsNow ==
  ASSUME NEW g \in Seq(Sound), NEW n, Clocks(n, g), NEW r, Hearing(n, g, r),
         n.silence <= Patience, Len(n.frames) <= MaxFrames, IsEndpoint(n),
         NEW e, e = Endpoint(n)
  PROVE  WasCut(e, g, r)
<1>1. /\ n.cursor = Len(g) /\ n.since \in Nat /\ Len(g) \in Nat
  BY DEF Clocks
<1>2. /\ FirstRun(g, n.since, r) /\ StartsAt(n.first, n.since, r)
      /\ n.first \in Nat /\ n.lastVoiced \in Nat /\ n.silence \in Nat
      /\ r + StartRun - 1 <= n.lastVoiced /\ n.lastVoiced <= Len(g) /\ n.first < n.lastVoiced
      /\ n.frames \in Seq(Piece) /\ Len(n.frames) = Len(g) - n.first
      /\ \A i \in 1..Len(n.frames) : n.frames[i] = g[n.first + i].item
      /\ \A i \in 1..Len(g) : i > n.lastVoiced => ~g[i].voiced
      /\ n.silence = Len(g) - n.lastVoiced
      /\ n.voicedCount = Cardinality(VoicedOf(g, r, Len(g)))
  BY DEF Hearing
<1>3. r \in Nat
  BY <1>2 DEF FirstRun
<1>4. PICK k : k = KeptFrames(n)
  OBVIOUS
<1>5. /\ e.pcm = SubSeq(n.frames, 1, k) /\ e.first = n.first /\ e.lastVoiced = n.lastVoiced
      /\ e.committed = n.cursor /\ (e.valid <=> n.voicedCount >= MinVoiced) /\ e.since = n.since
  BY <1>4 DEF Endpoint
<1>6. k = Smaller(Len(n.frames), n.lastVoiced - n.first + TailFrames)
  BY <1>4 DEF KeptFrames
<1>7. k \in Nat /\ k <= Len(n.frames)
      /\ (k = Len(n.frames) \/ k = n.lastVoiced - n.first + TailFrames)
  <2>1. Len(n.frames) \in Nat
    BY <1>2
  <2>2. n.first \in Nat /\ n.lastVoiced \in Nat /\ n.first < n.lastVoiced
    BY <1>2
  <2>3. n.lastVoiced - n.first + TailFrames \in Nat
    BY <2>2, TurnConstants
  <2> QED
    BY <1>6, <2>1, <2>3 DEF Smaller
<1>8. /\ SubSeq(n.frames, 1, k) \in Seq(Piece) /\ Len(SubSeq(n.frames, 1, k)) = k
      /\ \A i \in 1..k : SubSeq(n.frames, 1, k)[i] = n.frames[i]
  <2>1. 1 \in 1..(Len(n.frames) + 1) /\ k \in (1 - 1)..Len(n.frames) /\ n.frames \in Seq(Piece)
    BY <1>2, <1>7
  <2>2. /\ SubSeq(n.frames, 1, k) \in Seq(Piece) /\ Len(SubSeq(n.frames, 1, k)) = k - 1 + 1
        /\ \A i \in 1..(k - 1 + 1) : SubSeq(n.frames, 1, k)[i] = n.frames[1 + i - 1]
    <3> HIDE DEF Piece
    <3> QED
      BY <2>1, SubSeqProperties
  <2> QED
    BY <1>7, <2>2
<1>9. e.pcm \in Seq(Piece) /\ Len(e.pcm) = k
        /\ \A i \in 1..Len(e.pcm) : e.pcm[i] = g[e.first + i].item
  <2>1. \A i \in 1..k : i \in 1..Len(n.frames)
    BY <1>7
  <2>2. e.pcm \in Seq(Piece) /\ Len(e.pcm) = k
    BY <1>5, <1>8
  <2>3. \A i \in 1..k : n.frames[i] = g[n.first + i].item
    BY <1>2, <2>1
  <2>4. \A i \in 1..k : e.pcm[i] = n.frames[i]
    BY <1>5, <1>8
  <2> QED
    BY <1>5, <2>2, <2>3, <2>4
<1>10. e.committed = Len(g) /\ e.first + Len(e.pcm) <= e.committed
  BY <1>1, <1>2, <1>5, <1>7, <1>9
<1>11. \A i \in 1..e.committed : i > e.first + Len(e.pcm) => ~g[i].voiced
  <2> SUFFICES ASSUME NEW i \in 1..Len(g), i > n.first + k PROVE ~g[i].voiced
    BY <1>5, <1>9, <1>10
  <2>1. i > n.lastVoiced
    <3>1. /\ n.first \in Nat /\ n.lastVoiced \in Nat /\ Len(g) \in Nat /\ TailFrames \in Nat
          /\ i \in Nat /\ i <= Len(g) /\ Len(n.frames) = Len(g) - n.first
      BY <1>1, <1>2, TurnConstants
    <3>2. CASE k = Len(n.frames)
      BY <3>1, <3>2
    <3>3. CASE k = n.lastVoiced - n.first + TailFrames
      BY <3>1, <3>3
    <3> QED
      BY <1>7, <3>2, <3>3
  <2> QED
    BY <1>2, <2>1
<1>12. e.committed - e.lastVoiced = Patience \/ e.committed - e.first = MaxFrames
  <2>1. Len(n.frames) >= MaxFrames \/ n.silence >= Patience
    BY DEF IsEndpoint
  <2> QED
    BY <1>1, <1>2, <1>5, <1>10, <2>1, TurnConstants
<1>13. e.first + Len(e.pcm) - e.lastVoiced >= Smaller(TailFrames, e.committed - e.lastVoiced)
  <2>1. n.first + k - n.lastVoiced >= Smaller(TailFrames, Len(g) - n.lastVoiced)
    <3>1. /\ n.first \in Nat /\ n.lastVoiced \in Nat /\ Len(g) \in Nat /\ TailFrames \in Nat
          /\ Len(n.frames) = Len(g) - n.first /\ n.lastVoiced <= Len(g)
      BY <1>1, <1>2, TurnConstants
    <3>2. \A a, b \in Int : Smaller(a, b) <= a /\ Smaller(a, b) <= b /\ Smaller(a, b) \in Int
      BY DEF Smaller
    <3>0. TailFrames \in Int /\ Len(g) - n.lastVoiced \in Int
      BY <3>1
    <3>7. PICK b \in Int : b = Len(g) - n.lastVoiced
      BY <3>0
    <3>8. /\ Smaller(TailFrames, b) <= TailFrames /\ Smaller(TailFrames, b) <= b
          /\ Smaller(TailFrames, b) \in Int
      BY <3>0, <3>2
    <3>3. PICK m \in Int : m = Smaller(TailFrames, b)
      BY <3>8
    <3>4. m <= TailFrames /\ m <= Len(g) - n.lastVoiced
            /\ m = Smaller(TailFrames, Len(g) - n.lastVoiced)
      BY <3>3, <3>7, <3>8
    <3>5. CASE k = Len(n.frames)
      <4>1. n.first + k - n.lastVoiced = Len(g) - n.lastVoiced
        BY <3>1, <3>5
      <4> QED
        BY <3>1, <3>4, <4>1
    <3>6. CASE k = n.lastVoiced - n.first + TailFrames
      <4>1. n.first + k - n.lastVoiced = TailFrames
        BY <3>1, <3>6
      <4> QED
        BY <3>1, <3>4, <4>1
    <3> QED
      BY <1>7, <3>5, <3>6
  <2> QED
    BY <1>5, <1>9, <1>10, <2>1
<1>14. e.valid <=> Cardinality(VoicedOf(g, r, e.committed)) >= MinVoiced
  BY <1>2, <1>5, <1>10
<1>15. r + StartRun - 1 <= e.committed
  BY <1>1, <1>2, <1>3, <1>10, TurnConstants
<1> QED
  BY <1>1, <1>2, <1>5, <1>9, <1>10, <1>11, <1>12, <1>13, <1>14, <1>15 DEF WasCut

\* And stays it, whatever is heard later.
LEMMA CutStays ==
  ASSUME NEW h \in Seq(Sound), NEW x \in Sound, NEW e, NEW r, WasCut(e, h, r)
  PROVE  WasCut(e, Append(h, x), r)
<1> DEFINE g == Append(h, x)
<1>1. /\ Len(h) \in Nat /\ Len(g) = Len(h) + 1 /\ \A i \in 1..Len(h) : g[i] = h[i]
  BY HeardMore
<1>2. /\ e.committed \in Nat /\ e.committed <= Len(h) /\ e.since \in Nat
      /\ FirstRun(h, e.since, r) /\ StartsAt(e.first, e.since, r) /\ r + StartRun - 1 <= e.committed
      /\ e.first \in Nat /\ e.lastVoiced \in Nat
      /\ e.pcm \in Seq(Piece) /\ e.first + Len(e.pcm) <= e.committed
      /\ \A i \in 1..Len(e.pcm) : e.pcm[i] = h[e.first + i].item
      /\ \A i \in 1..e.committed : i > e.first + Len(e.pcm) => ~h[i].voiced
      /\ e.committed - e.lastVoiced = Patience \/ e.committed - e.first = MaxFrames
      /\ e.first + Len(e.pcm) - e.lastVoiced >= Smaller(TailFrames, e.committed - e.lastVoiced)
      /\ e.valid <=> Cardinality(VoicedOf(h, r, e.committed)) >= MinVoiced
  BY DEF WasCut
<1>3. r \in Nat /\ r >= 1
  BY <1>2 DEF FirstRun
<1>4. FirstRun(g, e.since, r)
  BY <1>1, <1>2, <1>3, FirstRunKept, TurnConstants
<1>5. VoicedOf(g, r, e.committed) = VoicedOf(h, r, e.committed)
  BY <1>2, <1>3, VoicedKept
<1>6. \A i \in 1..Len(e.pcm) : e.pcm[i] = g[e.first + i].item
  <2> SUFFICES ASSUME NEW i \in 1..Len(e.pcm) PROVE e.pcm[i] = g[e.first + i].item
    OBVIOUS
  <2>1. Len(e.pcm) \in Nat
    BY <1>2
  <2>2. e.first + i \in 1..Len(h)
    BY <1>1, <1>2, <2>1
  <2> QED
    BY <1>1, <1>2, <2>2
<1>7. \A i \in 1..e.committed : i > e.first + Len(e.pcm) => ~g[i].voiced
  BY <1>1, <1>2
<1>8. e.committed <= Len(g)
  BY <1>1, <1>2
<1> HIDE DEF g
<1>9. WasCut(e, g, r)
  BY <1>2, <1>4, <1>5, <1>6, <1>7, <1>8 DEF WasCut
<1> QED
  BY <1>9 DEF g

\* After an utterance was cut, the detector waits for the next one.
LEMMA QuietAgain ==
  ASSUME NEW g \in Seq(Sound), NEW n, DetectorRow(n), Clocks(n, g), NEW q,
         q = [Quiet(n) EXCEPT !.since = n.cursor]
  PROVE  DetectorRow(q) /\ Clocks(q, g) /\ Waiting(q, g)
<1>1. PICK c : c = Quiet(n)
  OBVIOUS
<1>2. c = [cursor |-> n.cursor, preroll |-> <<>>, frames |-> <<>>, voicedCount |-> 0, silence |-> 0,
           run |-> 0, first |-> n.first, lastVoiced |-> n.lastVoiced, since |-> n.since]
  <2>1. c = [n EXCEPT !.frames = <<>>, !.preroll = <<>>, !.voicedCount = 0, !.silence = 0,
          !.run = 0]
    BY <1>1 DEF Quiet
  <2> QED
    BY <2>1 DEF DetectorRow
<1>3. q = [c EXCEPT !.since = n.cursor]
  BY <1>1
<1>4. q = [cursor |-> n.cursor, preroll |-> <<>>, frames |-> <<>>, voicedCount |-> 0, silence |-> 0,
           run |-> 0, first |-> n.first, lastVoiced |-> n.lastVoiced, since |-> n.cursor]
  BY <1>2, <1>3
<1>5. q.cursor = n.cursor /\ q.preroll = <<>> /\ q.frames = <<>> /\ q.run = 0 /\ q.since = n.cursor
  BY <1>4
<1>6. n.cursor = Len(g) /\ Len(g) \in Nat
  BY DEF Clocks
<1>7. DetectorRow(q)
  BY <1>4 DEF DetectorRow
<1>8. Clocks(q, g)
  BY <1>5, <1>6 DEF Clocks
<1>9. Waiting(q, g)
  <2>1. q.preroll \in Seq(Piece) /\ Len(q.preroll) = 0
    <3>1. <<>> \in Seq(Piece) /\ Len(<<>>) = 0
      <4> HIDE DEF Piece
      <4> QED
        OBVIOUS
    <3> QED
      BY <1>5, <3>1
  <2>2. Smaller(Preroll, Len(g) - q.since) = 0
    BY <1>5, <1>6, TurnConstants DEF Smaller
  <2>3. ASSUME NEW i \in Nat, q.since < i, i + StartRun - 1 <= Len(g) PROVE FALSE
    BY <1>5, <1>6, <2>3, TurnConstants
  <2>4. q.run < StartRun
    BY <1>5, TurnConstants
  <2> QED
    BY <1>5, <2>1, <2>2, <2>3, <2>4 DEF Waiting
<1> QED
  BY <1>7, <1>8, <1>9

-----------------------------------------------------------------------------
(* The inductive invariant.                                                *)

\* Every variable the proof needs has its type; after a failure nobody receives.
TurnShapes ==
  /\ DetectorRow(detector) /\ heard \in Seq(Sound) /\ queue \in Seq(Piece) /\ taken \in Piece
  /\ sent \in Nat /\ track \in Nat /\ lost \in Nat
  /\ taken = Nothing <=> receiver # "interrupt"
  /\ session # "up" => receiver = "none"
  /\ receiver # "none" => track > 0

\* The detector waits for an utterance or is in one that is not at its end.
DetectorIsExact ==
  /\ Clocks(detector, heard)
  /\ \/ Waiting(detector, heard)
     \/ /\ detector.frames # <<>> /\ detector.silence < Patience /\ Len(detector.frames) < MaxFrames
        /\ \E r \in Nat : Hearing(detector, heard, r)

LastCutIsExact == ended.committed > 0 => \E r \in Nat : WasCut(ended, heard, r)

\* What was heard of the track lies before `next`, the frame that the receive task holds
\* just before it, and the queue goes on with it up to what was sent.
Pieces(from, count) ==
  \A i \in 1..count : queue[i].frame = from + i - 1 /\ queue[i].track = track

QueueGoesOn(next) ==
  \/ overflowed /\ queue = <<>> /\ lost = next
  \/ ~overflowed /\ lost = 0 /\ next + Len(queue) = sent + 1 /\ Pieces(next, Len(queue))
  \/ /\ ~overflowed /\ lost = 0 /\ next + Len(queue) = sent + 2 /\ ~alive
     /\ queue # <<>> /\ queue[Len(queue)] = EndOfStream /\ Pieces(next, Len(queue) - 1)

HeardUpTo(next) ==
  /\ \A i \in 1..Len(heard) : heard[i].item.track = track => heard[i].item.frame < next
  /\ heard # <<>> /\ heard[Len(heard)].item.track = track => heard[Len(heard)].item.frame = next - 1

NothingIsBetween ==
  session = "up" => \E next \in Nat :
    /\ next >= 1 /\ QueueGoesOn(next)
    /\ IF taken = Nothing THEN HeardUpTo(next)
       ELSE taken.frame = next - 1 /\ taken.track = track /\ next > 1 /\ HeardUpTo(next - 1)

HeardInOrder ==
  /\ \A i \in 1..Len(heard) : heard[i].item.track <= track
  /\ NothingAfterGap

TurnIInv ==
  /\ TurnShapes /\ DetectorIsExact /\ LastCutIsExact /\ NothingIsBetween /\ HeardInOrder

-----------------------------------------------------------------------------
(* A frame into the detector.                                              *)

\* In an utterance that is not at its end before the frame comes.
LEMMA HearsOn ==
  ASSUME NEW h \in Seq(Sound), NEW x \in Sound, NEW d, DetectorRow(d), Clocks(d, h),
         NEW n, n = Listens(d, x.item, x.voiced),
         \/ Waiting(d, h)
         \/ /\ d.frames # <<>> /\ d.silence < Patience /\ Len(d.frames) < MaxFrames
            /\ \E r \in Nat : Hearing(d, h, r)
  PROVE  \/ Waiting(n, Append(h, x))
         \/ /\ n.frames # <<>> /\ n.silence \in Nat /\ n.silence <= Patience
            /\ Len(n.frames) \in Nat /\ Len(n.frames) <= MaxFrames
            /\ \E r \in Nat : Hearing(n, Append(h, x), r)
<1> DEFINE g == Append(h, x)
<1>1. CASE Waiting(d, h) /\ n.run < StartRun
  BY <1>1, WaitsOn
<1>2. CASE Waiting(d, h) /\ ~(n.run < StartRun)
  <2>1. PICK r \in Nat : Hearing(n, g, r) /\ n.silence = 0 /\ Len(n.frames) <= Preroll
          /\ n.frames # <<>>
    BY <1>2, StartsNow
  <2>2. Len(n.frames) \in Nat
    <3>1. n.frames \in Seq(Piece)
      BY <2>1 DEF Hearing
    <3> HIDE DEF Piece
    <3> QED
      BY <3>1
  <2>3. Len(n.frames) <= MaxFrames /\ 0 <= Patience
    BY <2>1, <2>2, TurnConstants
  <2> HIDE DEF g
  <2>4. \E q \in Nat : Hearing(n, g, q)
    BY <2>1
  <2> QED
    BY <2>1, <2>2, <2>3, <2>4 DEF g
<1>3. CASE d.frames # <<>> /\ d.silence < Patience /\ Len(d.frames) < MaxFrames
           /\ \E r \in Nat : Hearing(d, h, r)
  <2>1. PICK r \in Nat : Hearing(d, h, r)
    BY <1>3
  <2>2. /\ Hearing(n, g, r) /\ n.silence <= d.silence + 1 /\ Len(n.frames) = Len(d.frames) + 1
        /\ n.frames # <<>>
    BY <1>3, <2>1, GoesOn
  <2>3. d.silence \in Nat /\ n.silence \in Nat /\ Len(d.frames) \in Nat
    <3>1. d.silence \in Nat /\ n.silence \in Nat /\ d.frames \in Seq(Piece)
      BY <2>1, <2>2 DEF Hearing
    <3> HIDE DEF Piece
    <3> QED
      BY <3>1
  <2>4. n.silence <= Patience
    BY <1>3, <2>2, <2>3, TurnConstants
  <2>5. Len(n.frames) \in Nat /\ Len(n.frames) <= MaxFrames
    BY <1>3, <2>2, <2>3, TurnConstants
  <2> HIDE DEF g
  <2>6. \E q \in Nat : Hearing(n, g, q)
    BY <2>2
  <2> QED
    BY <2>2, <2>3, <2>4, <2>5, <2>6 DEF g
<1> QED
  BY <1>1, <1>2, <1>3

\* What push() makes of the detector, and of the utterance that it may end.
LEMMA PushIsExact ==
  ASSUME NEW h \in Seq(Sound), NEW x \in Sound, NEW d, DetectorRow(d), Clocks(d, h),
         NEW n, n = Listens(d, x.item, x.voiced),
         \/ Waiting(d, h)
         \/ /\ d.frames # <<>> /\ d.silence < Patience /\ Len(d.frames) < MaxFrames
            /\ \E r \in Nat : Hearing(d, h, r),
         NEW q, q = (IF IsEndpoint(n) THEN [Quiet(n) EXCEPT !.since = n.cursor] ELSE n)
  PROVE  /\ DetectorRow(q) /\ Clocks(q, Append(h, x))
         /\ \/ Waiting(q, Append(h, x))
            \/ /\ q.frames # <<>> /\ q.silence < Patience /\ Len(q.frames) < MaxFrames
               /\ \E r \in Nat : Hearing(q, Append(h, x), r)
         /\ IsEndpoint(n) => \E r \in Nat : WasCut(Endpoint(n), Append(h, x), r)
<1> DEFINE g == Append(h, x)
<1>1. x.voiced \in BOOLEAN
  BY DEF Sound
<1>2. DetectorRow(n) /\ Clocks(n, g)
  BY <1>1, ListensIs, ClocksKept
<1>3. \/ Waiting(n, g)
      \/ /\ n.frames # <<>> /\ n.silence \in Nat /\ n.silence <= Patience
         /\ Len(n.frames) \in Nat /\ Len(n.frames) <= MaxFrames
         /\ \E r \in Nat : Hearing(n, g, r)
  BY HearsOn
<1>4. g \in Seq(Sound)
  BY HeardMore
<1> HIDE DEF g
<1>5. CASE ~IsEndpoint(n)
  <2>1. q = n
    BY <1>5
  <2>2. CASE Waiting(n, g)
    BY <1>2, <1>5, <2>1, <2>2 DEF g
  <2>3. CASE n.frames # <<>> /\ n.silence \in Nat /\ n.silence <= Patience
             /\ Len(n.frames) \in Nat /\ Len(n.frames) <= MaxFrames
             /\ \E r \in Nat : Hearing(n, g, r)
    <3>1. ~(Len(n.frames) >= MaxFrames) /\ ~(n.silence >= Patience)
      BY <1>5, <2>3 DEF IsEndpoint
    <3>2. n.silence < Patience /\ Len(n.frames) < MaxFrames
      BY <2>3, <3>1, TurnConstants
    <3> QED
      BY <1>2, <1>5, <2>1, <2>3, <3>2 DEF g
  <2> QED
    BY <1>3, <2>2, <2>3
<1>6. CASE IsEndpoint(n)
  <2>1. n.frames # <<>>
    BY <1>6 DEF IsEndpoint
  <2>2. ~Waiting(n, g)
    BY <2>1 DEF Waiting
  <2>3. PICK r \in Nat : Hearing(n, g, r)
    BY <1>3, <2>2
  <2>4. n.silence <= Patience /\ Len(n.frames) <= MaxFrames
    BY <1>3, <2>2
  <2>5. WasCut(Endpoint(n), g, r)
    BY <1>2, <1>4, <1>6, <2>3, <2>4, CutsNow
  <2>6. DetectorRow(q) /\ Clocks(q, g) /\ Waiting(q, g)
    BY <1>2, <1>4, <1>6, QuietAgain
  <2> QED
    BY <2>5, <2>6 DEF g
<1> QED
  BY <1>5, <1>6

\* A frame that is pushed in a state of the invariant.
LEMMA DetectorPushed ==
  ASSUME TurnShapes, DetectorIsExact, LastCutIsExact, NEW f \in Piece, NEW voiced \in BOOLEAN,
         DetectorPush(f, voiced)
  PROVE  /\ heard' = Append(heard, [item |-> f, voiced |-> voiced]) /\ heard' \in Seq(Sound)
         /\ DetectorRow(detector') /\ DetectorIsExact' /\ LastCutIsExact'
<1>1. PICK x : x = [item |-> f, voiced |-> voiced]
  OBVIOUS
<1>2. x \in Sound /\ x.item = f /\ x.voiced = voiced
  BY <1>1 DEF Sound
<1>3. PICK n : n = Listens(detector, x.item, x.voiced)
  OBVIOUS
<1>4. /\ heard' = Append(heard, x)
      /\ detector' = (IF IsEndpoint(n) THEN [Quiet(n) EXCEPT !.since = n.cursor] ELSE n)
      /\ ended' = (IF IsEndpoint(n) THEN Endpoint(n) ELSE ended)
  BY <1>1, <1>2, <1>3 DEF DetectorPush
<1>5. heard \in Seq(Sound) /\ DetectorRow(detector)
  BY DEF TurnShapes
<1>6. /\ Clocks(detector, heard)
      /\ \/ Waiting(detector, heard)
         \/ /\ detector.frames # <<>> /\ detector.silence < Patience
                 /\ Len(detector.frames) < MaxFrames
            /\ \E r \in Nat : Hearing(detector, heard, r)
  BY DEF DetectorIsExact
<1>7. PICK q : q = detector'
  OBVIOUS
<1>8. PICK g : g = heard'
  OBVIOUS
<1>9. /\ DetectorRow(q) /\ Clocks(q, g)
      /\ \/ Waiting(q, g)
         \/ /\ q.frames # <<>> /\ q.silence < Patience /\ Len(q.frames) < MaxFrames
            /\ \E r \in Nat : Hearing(q, g, r)
      /\ IsEndpoint(n) => \E r \in Nat : WasCut(Endpoint(n), g, r)
  <2>1. q = (IF IsEndpoint(n) THEN [Quiet(n) EXCEPT !.since = n.cursor] ELSE n)
          /\ g = Append(heard, x)
    BY <1>4, <1>7, <1>8
  <2> QED
    BY <1>2, <1>3, <1>5, <1>6, <2>1, PushIsExact
<1>10. g \in Seq(Sound)
  <2>1. g = Append(heard, x)
    BY <1>4, <1>8
  <2> QED
    BY <1>2, <1>5, <2>1, HeardMore
<1>11. PICK e : e = ended'
  OBVIOUS
<1>12. e.committed > 0 => \E r \in Nat : WasCut(e, g, r)
  <2>1. CASE IsEndpoint(n)
    BY <1>4, <1>9, <1>11, <2>1
  <2>2. CASE ~IsEndpoint(n)
    <3>1. e = ended /\ g = Append(heard, x)
      BY <1>4, <1>8, <1>11, <2>2
    <3>2. ASSUME ended.committed > 0 PROVE \E r \in Nat : WasCut(ended, g, r)
      <4>1. PICK r \in Nat : WasCut(ended, heard, r)
        BY <3>2 DEF LastCutIsExact
      <4>2. WasCut(ended, g, r)
        BY <1>2, <1>5, <3>1, <4>1, CutStays
      <4> QED
        BY <4>2
    <3> QED
      BY <3>1, <3>2
  <2> QED
    BY <2>1, <2>2
<1>13. DetectorIsExact'
  <2>1. /\ Clocks(detector', heard')
        /\ \/ Waiting(detector', heard')
           \/ /\ detector'.frames # <<>> /\ detector'.silence < Patience
                   /\ Len(detector'.frames) < MaxFrames
              /\ \E r \in Nat : Hearing(detector', heard', r)
    BY <1>7, <1>8, <1>9
  <2> QED
    BY <2>1 DEF DetectorIsExact, Clocks, Waiting, Hearing, FirstRun, AllVoiced, StartsAt, VoicedOf
<1>14. LastCutIsExact'
  <2>1. ended'.committed > 0 => \E r \in Nat : WasCut(ended', heard', r)
    BY <1>8, <1>11, <1>12
  <2> QED
    BY <2>1 DEF LastCutIsExact, WasCut, FirstRun, AllVoiced, StartsAt, VoicedOf
<1> QED
  BY <1>1, <1>4, <1>7, <1>8, <1>9, <1>10, <1>13, <1>14

-----------------------------------------------------------------------------
(* The steps.                                                              *)

\* The queue as a sequence: what put() and get() do to it.
LEMMA QueueEnds ==
  ASSUME NEW q \in Seq(Piece), NEW p \in Piece
  PROVE  /\ Append(q, p) \in Seq(Piece) /\ Len(q) \in Nat /\ Len(Append(q, p)) = Len(q) + 1
         /\ \A i \in 1..Len(q) : Append(q, p)[i] = q[i]
         /\ Append(q, p)[Len(q) + 1] = p /\ Append(q, p) # <<>>
         /\ q # <<>> => /\ Len(q) >= 1 /\ Head(q) = q[1] /\ Head(q) \in Piece
              /\ Tail(q) \in Seq(Piece)
                        /\ Len(Tail(q)) = Len(q) - 1
                        /\ \A i \in 1..(Len(q) - 1) : Tail(q)[i] = q[i + 1]
         /\ q = <<>> <=> Len(q) = 0
<1> HIDE DEF Piece
<1>1. /\ Append(q, p) \in Seq(Piece) /\ Len(q) \in Nat /\ Len(Append(q, p)) = Len(q) + 1
      /\ \A i \in 1..Len(q) : Append(q, p)[i] = q[i]
      /\ Append(q, p)[Len(q) + 1] = p /\ Append(q, p) # <<>>
  BY AppendProperties
<1>2. ASSUME q # <<>>
      PROVE  /\ Len(q) >= 1 /\ Head(q) = q[1] /\ Head(q) \in Piece /\ Tail(q) \in Seq(Piece)
             /\ Len(Tail(q)) = Len(q) - 1
             /\ \A i \in 1..(Len(q) - 1) : Tail(q)[i] = q[i + 1]
  <2>1. /\ Head(q) \in Piece /\ Tail(q) \in Seq(Piece) /\ Len(Tail(q)) = Len(q) - 1
        /\ \A i \in 1..Len(Tail(q)) : Tail(q)[i] = q[i + 1]
    BY <1>2, HeadTailProperties
  <2>2. Len(q) >= 1 /\ Head(q) = q[1]
    BY <1>2
  <2> QED
    BY <2>1, <2>2
<1>3. q = <<>> <=> Len(q) = 0
  OBVIOUS
<1> QED
  BY <1>1, <1>2, <1>3

\* The end of a stream is no frame of a track.
LEMMA EndIsPiece == EndOfStream \in Piece /\ Nothing \in Piece /\ EndOfStream.frame = 0
                    /\ Nothing.frame = 0 /\ EndOfStream.track = 0
  BY DEF EndOfStream, Nothing, Piece

\* What put() does, whichever piece it is given.
LEMMA PutIs ==
  ASSUME TurnShapes, NEW p \in Piece, QueuePut(p)
  PROVE  /\ queue' \in Seq(Piece) /\ lost' \in Nat
         /\ \/ overflowed /\ overflowed' /\ queue' = queue /\ lost' = lost
            \/ ~overflowed /\ ~overflowed' /\ queue' = Append(queue, p) /\ lost' = lost
            \/ /\ ~overflowed /\ overflowed' /\ queue' = <<>> /\ queue # <<>>
                    /\ lost' = queue[1].frame
<1>1. queue \in Seq(Piece) /\ lost \in Nat
  BY DEF TurnShapes
<1>2. CASE Dropped
  BY <1>1, <1>2 DEF Dropped
<1>3. CASE Queued(p)
  BY <1>1, <1>3, QueueEnds DEF Queued
<1>4. CASE Overflows(p)
  <2>1. /\ ~overflowed /\ Len(queue) >= QueueRoom /\ overflowed' = TRUE /\ queue' = <<>>
        /\ lost' = Head(queue).frame
    BY <1>4 DEF Overflows
  <2>2. QueueRoom \in Nat /\ QueueRoom >= 1
    BY TurnConstants
  <2>3. queue # <<>>
    <3>1. Len(queue) \in Nat /\ (queue = <<>> <=> Len(queue) = 0)
      BY <1>1, EndIsPiece, QueueEnds
    <3> QED
      BY <2>1, <2>2, <3>1
  <2>4. Head(queue) = queue[1] /\ Head(queue) \in Piece
    BY <1>1, <2>3, EndIsPiece, QueueEnds
  <2>5. Head(queue).frame \in Nat
    BY <2>4 DEF Piece
  <2>6. <<>> \in Seq(Piece)
    <3> HIDE DEF Piece
    <3> QED
      OBVIOUS
  <2> QED
    BY <2>1, <2>3, <2>4, <2>5, <2>6
<1> QED
  BY <1>2, <1>3, <1>4 DEF QueuePut

\* What get() takes.
LEMMA TakesIs ==
  ASSUME TurnShapes, Takes
  PROVE  /\ receiver = "get" /\ taken = Nothing /\ session = "up" /\ ~overflowed /\ queue # <<>>
         /\ queue' = Tail(queue) /\ queue' \in Seq(Piece) /\ Head(queue) \in Piece
              /\ Head(queue) = queue[1]
         /\ Head(queue) # EndOfStream /\ track > 0
<1>1. /\ receiver = "get" /\ ~overflowed /\ queue # <<>> /\ Head(queue) # EndOfStream
      /\ queue' = Tail(queue)
  BY DEF Takes
<1>2. queue \in Seq(Piece) /\ taken = Nothing /\ session = "up" /\ track > 0
  BY <1>1 DEF TurnShapes
<1>3. Tail(queue) \in Seq(Piece) /\ Head(queue) \in Piece /\ Head(queue) = queue[1]
  BY <1>1, <1>2, EndIsPiece, QueueEnds
<1> QED
  BY <1>1, <1>2, <1>3

\* The initial states satisfy the invariant.
LEMMA TurnBegins == TurnInit => TurnIInv
<1> SUFFICES ASSUME TurnInit PROVE TurnIInv
  OBVIOUS
<1>1. PICK e : e = <<>>
  OBVIOUS
<1>2. e \in Seq(Piece) /\ e \in Seq(Sound) /\ Len(e) = 0 /\ (e = <<>>)
  <2> HIDE DEF Piece, Sound
  <2> QED
    BY <1>1
<1>3. /\ queue = e /\ heard = e /\ overflowed = FALSE /\ receiver = "none" /\ taken = Nothing
      /\ session = "up" /\ sent = 0 /\ track = 0 /\ lost = 0 /\ ended.committed = 0
  BY <1>1 DEF TurnInit
<1>4. PICK d : d = detector
  OBVIOUS
<1>5. /\ d = [cursor |-> 0, preroll |-> <<>>, frames |-> <<>>, voicedCount |-> 0,
              silence |-> 0, run |-> 0, first |-> 0, lastVoiced |-> 0, since |-> 0]
  BY <1>4 DEF TurnInit, FreshDetector
<1>6. d.cursor = 0 /\ d.preroll = e /\ d.frames = <<>> /\ d.run = 0 /\ d.since = 0 /\ DetectorRow(d)
  BY <1>1, <1>5 DEF DetectorRow
<1>7. TurnShapes
  BY <1>2, <1>3, <1>4, <1>6, EndIsPiece DEF TurnShapes, DetectorRow
<1>8. Clocks(d, e)
  BY <1>2, <1>6 DEF Clocks
<1>9. Waiting(d, e)
  <2>1. Len(d.preroll) = Smaller(Preroll, Len(e) - d.since)
    BY <1>2, <1>6, TurnConstants DEF Smaller
  <2>2. ASSUME NEW i \in Nat, d.since < i, i + StartRun - 1 <= Len(e) PROVE FALSE
    BY <1>2, <1>6, <2>2, TurnConstants
  <2>3. d.run < StartRun
    BY <1>6, TurnConstants
  <2>4. \A i \in 1..Len(d.preroll) : FALSE
    BY <1>2, <1>6
  <2> QED
    BY <1>2, <1>6, <2>1, <2>2, <2>3, <2>4 DEF Waiting
<1>10. DetectorIsExact
  BY <1>3, <1>4, <1>8, <1>9 DEF DetectorIsExact
<1>11. LastCutIsExact
  BY <1>3 DEF LastCutIsExact
<1>12. NothingIsBetween
  <2>1. HeardUpTo(1)
    BY <1>2, <1>3 DEF HeardUpTo
  <2>2. QueueGoesOn(1)
    BY <1>2, <1>3 DEF QueueGoesOn, Pieces
  <2> QED
    BY <1>3, <2>1, <2>2 DEF NothingIsBetween
<1>13. HeardInOrder
  BY <1>2, <1>3 DEF HeardInOrder, NothingAfterGap
<1> QED
  BY <1>7, <1>10, <1>11, <1>12, <1>13 DEF TurnIInv

\* Every step keeps every part of the invariant: one lemma per part, one step per action.
LEMMA TurnShapesKept == TurnIInv /\ [TurnNext]_turnVars => TurnShapes'
<1> SUFFICES ASSUME TurnIInv, [TurnNext]_turnVars PROVE TurnShapes'
  OBVIOUS
<1>0. TurnShapes /\ DetectorIsExact /\ LastCutIsExact
  BY DEF TurnIInv
<1>0a. /\ DetectorRow(detector) /\ heard \in Seq(Sound) /\ queue \in Seq(Piece) /\ taken \in Piece
       /\ sent \in Nat /\ track \in Nat /\ lost \in Nat
       /\ taken = Nothing <=> receiver # "interrupt"
       /\ session # "up" => receiver = "none"
       /\ receiver # "none" => track > 0
  BY <1>0 DEF TurnShapes
<1>0b. <<>> \in Seq(Piece)
  <2> HIDE DEF Piece
  <2> QED
    OBVIOUS
<1>1. ASSUME FrameArrives PROVE TurnShapes'
  <2>1. PICK p : p = [frame |-> sent + 1, track |-> track]
    OBVIOUS
  <2>2. p \in Piece
    BY <1>0a, <2>1 DEF Piece
  <2>3. QueuePut(p) /\ sent' = sent + 1
        /\ UNCHANGED <<receiver, taken, detector, session, track, alive, heard, ended>>
    BY <1>1, <2>1 DEF FrameArrives
  <2>4. queue' \in Seq(Piece) /\ lost' \in Nat
    BY <1>0, <2>2, <2>3, PutIs
  <2> QED
    BY <1>0a, <2>3, <2>4 DEF TurnShapes, DetectorRow
<1>2. ASSUME StreamEnds PROVE TurnShapes'
  <2>1. queue' \in Seq(Piece) /\ lost' \in Nat
    BY <1>0, <1>2, EndIsPiece, PutIs DEF StreamEnds
  <2> QED
    BY <1>0a, <1>2, <2>1 DEF TurnShapes, DetectorRow, StreamEnds
<1>3. ASSUME TrackSubscribed PROVE TurnShapes'
  BY <1>0a, <1>0b, <1>3, EndIsPiece DEF TurnShapes, DetectorRow, TrackSubscribed
<1>4. ASSUME MicrophoneUnpublished PROVE TurnShapes'
  BY <1>0a, <1>4, EndIsPiece DEF TurnShapes, DetectorRow, MicrophoneUnpublished, Discontinuity
<1>5. ASSUME GetWaits PROVE TurnShapes'
  BY <1>0a, <1>5 DEF TurnShapes, DetectorRow, GetWaits
<1>6. ASSUME GetWakes PROVE TurnShapes'
  BY <1>0a, <1>6 DEF TurnShapes, DetectorRow, GetWakes
<1>7. ASSUME GetFails PROVE TurnShapes'
  BY <1>0a, <1>7, EndIsPiece DEF TurnShapes, DetectorRow, GetFails, Discontinuity
<1>8. ASSUME StreamEnded PROVE TurnShapes'
  <2>1. queue' \in Seq(Piece)
    BY <1>0a, <1>8, EndIsPiece, QueueEnds DEF StreamEnded
  <2> QED
    BY <1>0a, <1>8, <2>1, EndIsPiece DEF TurnShapes, DetectorRow, StreamEnded, Discontinuity
<1>9. ASSUME NEW voiced \in BOOLEAN, Pushes(voiced) PROVE TurnShapes'
  <2>1. Takes /\ DetectorPush(Head(queue), voiced)
        /\ UNCHANGED <<overflowed, event, receiver, taken, session, sent, track, alive, lost>>
    BY <1>9 DEF Pushes
  <2>2. queue' \in Seq(Piece) /\ Head(queue) \in Piece
    BY <1>0, <2>1, TakesIs
  <2>3. heard' \in Seq(Sound) /\ DetectorRow(detector')
    BY <1>0, <2>1, <2>2, DetectorPushed
  <2> QED
    BY <1>0a, <2>1, <2>2, <2>3 DEF TurnShapes, DetectorRow
<1>10. ASSUME BargesIn PROVE TurnShapes'
  <2>1. Takes /\ taken' = Head(queue) /\ receiver' = "interrupt"
        /\ UNCHANGED <<overflowed, event, detector, session, sent, track, alive, heard, ended,
             lost>>
    BY <1>10 DEF BargesIn
  <2>2. /\ queue' \in Seq(Piece) /\ Head(queue) \in Piece /\ session = "up" /\ track > 0
        /\ Head(queue) # Nothing
    BY <1>0, <2>1, TakesIs DEF Nothing
  <2> QED
    BY <1>0a, <2>1, <2>2 DEF TurnShapes, DetectorRow
<1>11. ASSUME InterruptReturns PROVE TurnShapes'
  <2>1. receiver = "interrupt" /\ DetectorPush(taken, TRUE) /\ receiver' = "get" /\ taken' = Nothing
        /\ UNCHANGED <<queue, overflowed, event, session, sent, track, alive, lost>>
    BY <1>11 DEF InterruptReturns
  <2>2. heard' \in Seq(Sound) /\ DetectorRow(detector')
    BY <1>0, <1>0a, <2>1, DetectorPushed
  <2> QED
    BY <1>0a, <2>1, <2>2, EndIsPiece DEF TurnShapes, DetectorRow
<1>12. ASSUME UNCHANGED turnVars PROVE TurnShapes'
  BY <1>0a, <1>12 DEF TurnShapes, DetectorRow, turnVars
<1> QED
  BY <1>1, <1>2, <1>3, <1>4, <1>5, <1>6, <1>7, <1>8, <1>9, <1>10, <1>11, <1>12 DEF TurnNext,
    ReceiveStep

\* Only the two steps that push a frame change what the detector and its utterances are.
LEMMA HearingKept == TurnIInv /\ [TurnNext]_turnVars => DetectorIsExact' /\ LastCutIsExact'
<1> SUFFICES ASSUME TurnIInv, [TurnNext]_turnVars PROVE DetectorIsExact' /\ LastCutIsExact'
  OBVIOUS
<1>1. TurnShapes /\ DetectorIsExact /\ LastCutIsExact
  BY DEF TurnIInv
<1>2. ASSUME NEW voiced \in BOOLEAN, Pushes(voiced) PROVE DetectorIsExact' /\ LastCutIsExact'
  <2>1. Takes /\ DetectorPush(Head(queue), voiced)
    BY <1>2 DEF Pushes
  <2>2. Head(queue) \in Piece
    BY <1>1, <2>1, TakesIs
  <2> QED
    BY <1>1, <2>1, <2>2, DetectorPushed
<1>3. ASSUME InterruptReturns PROVE DetectorIsExact' /\ LastCutIsExact'
  BY <1>1, <1>3, DetectorPushed DEF InterruptReturns, TurnShapes
<1>4. ASSUME UNCHANGED <<detector, heard, ended>> PROVE DetectorIsExact' /\ LastCutIsExact'
  <2>1. /\ Clocks(detector, heard)
        /\ \/ Waiting(detector, heard)
           \/ /\ detector.frames # <<>> /\ detector.silence < Patience
                   /\ Len(detector.frames) < MaxFrames
              /\ \E r \in Nat : Hearing(detector, heard, r)
    BY <1>1 DEF DetectorIsExact
  <2>2. ended.committed > 0 => \E r \in Nat : WasCut(ended, heard, r)
    BY <1>1 DEF LastCutIsExact
  <2>3. /\ Clocks(detector', heard')
        /\ \/ Waiting(detector', heard')
           \/ /\ detector'.frames # <<>> /\ detector'.silence < Patience
                   /\ Len(detector'.frames) < MaxFrames
              /\ \E r \in Nat : Hearing(detector', heard', r)
    BY <1>4, <2>1
  <2>4. ended'.committed > 0 => \E r \in Nat : WasCut(ended', heard', r)
    BY <1>4, <2>2
  <2>5. DetectorIsExact'
    BY <2>3 DEF DetectorIsExact, Clocks, Waiting, Hearing, FirstRun, AllVoiced, StartsAt, VoicedOf
  <2>6. LastCutIsExact'
    BY <2>4 DEF LastCutIsExact, WasCut, FirstRun, AllVoiced, StartsAt, VoicedOf
  <2> QED
    BY <2>5, <2>6
<1>5. (\E voiced \in BOOLEAN : Pushes(voiced)) \/ InterruptReturns
        \/ UNCHANGED <<detector, heard, ended>>
  BY DEF TurnNext, ReceiveStep, FrameArrives, StreamEnds, TrackSubscribed, MicrophoneUnpublished,
     GetWaits, GetWakes, GetFails, StreamEnded, BargesIn, turnVars
<1> QED
  BY <1>2, <1>3, <1>4, <1>5

\* What was sent and not taken lies in the queue, from `next` on.
LEMMA FramePut ==
  ASSUME TurnShapes, NEW next \in Nat, next >= 1, QueueGoesOn(next), FrameArrives
  PROVE  QueueGoesOn(next)'
<1>1. PICK p : p = [frame |-> sent + 1, track |-> track]
  OBVIOUS
<1>2. p \in Piece /\ p.frame = sent + 1 /\ p.track = track
  BY <1>1 DEF TurnShapes, Piece
<1>3. alive /\ QueuePut(p) /\ sent' = sent + 1 /\ track' = track
  BY <1>1 DEF FrameArrives
<1>4. /\ \/ overflowed /\ overflowed' /\ queue' = queue /\ lost' = lost
         \/ ~overflowed /\ ~overflowed' /\ queue' = Append(queue, p) /\ lost' = lost
         \/ /\ ~overflowed /\ overflowed' /\ queue' = <<>> /\ queue # <<>> /\ lost' = queue[1].frame
  BY <1>2, <1>3, PutIs
<1>5. \/ overflowed /\ queue = <<>> /\ lost = next
      \/ ~overflowed /\ lost = 0 /\ next + Len(queue) = sent + 1
  BY <1>3 DEF QueueGoesOn
<1>6. ~overflowed => \A i \in 1..Len(queue) : queue[i].frame = next + i - 1
        /\ queue[i].track = track
  BY <1>3 DEF QueueGoesOn, Pieces
<1>7. /\ queue \in Seq(Piece) /\ Len(queue) \in Nat /\ sent \in Nat
      /\ Len(Append(queue, p)) = Len(queue) + 1
      /\ \A i \in 1..Len(queue) : Append(queue, p)[i] = queue[i]
      /\ Append(queue, p)[Len(queue) + 1] = p
      /\ queue # <<>> => Len(queue) >= 1
  BY <1>2, QueueEnds DEF TurnShapes
<1>8. CASE overflowed
  BY <1>4, <1>5, <1>8 DEF QueueGoesOn
<1>9. CASE ~overflowed /\ ~overflowed' /\ queue' = Append(queue, p) /\ lost' = lost
  <2>1. lost' = 0 /\ Len(queue') = Len(queue) + 1 /\ next + Len(queue') = sent' + 1
    <3>1. next + Len(queue) = sent + 1 /\ lost' = 0 /\ Len(queue') = Len(queue) + 1
      BY <1>5, <1>7, <1>9
    <3> QED
      BY <1>3, <1>7, <3>1
  <2>2. ASSUME NEW i \in 1..Len(queue')
        PROVE queue'[i].frame = next + i - 1 /\ queue'[i].track = track'
    <3>1. CASE i \in 1..Len(queue)
      BY <1>3, <1>6, <1>7, <1>9, <3>1
    <3>2. CASE i = Len(queue) + 1
      <4>1. queue'[i] = p
        BY <1>7, <1>9, <3>2
      <4>2. next + i - 1 = sent + 1
        BY <1>5, <1>7, <1>9, <3>2
      <4> QED
        BY <1>2, <1>3, <4>1, <4>2
    <3> QED
      BY <1>7, <2>1, <3>1, <3>2
  <2>3. Pieces(next, Len(queue))'
    BY <2>2 DEF Pieces
  <2> QED
    BY <1>9, <2>1, <2>3 DEF QueueGoesOn
<1>10. CASE ~overflowed /\ overflowed' /\ queue' = <<>> /\ queue # <<>> /\ lost' = queue[1].frame
  <2>1. queue[1].frame = next
    <3>1. 1 \in 1..Len(queue)
      BY <1>7, <1>10
    <3>2. queue[1].frame = next + 1 - 1
      BY <1>6, <1>10, <3>1
    <3> QED
      BY <3>2
  <2> QED
    BY <1>10, <2>1 DEF QueueGoesOn
<1> QED
  BY <1>4, <1>8, <1>9, <1>10

\* The end of the stream comes after them.
LEMMA StreamEndPut ==
  ASSUME TurnShapes, NEW next \in Nat, next >= 1, QueueGoesOn(next), StreamEnds
  PROVE  QueueGoesOn(next)'
<1>1. PICK p : p = EndOfStream
  OBVIOUS
<1>2. p \in Piece
  BY <1>1, EndIsPiece
<1>3. alive /\ alive' = FALSE /\ QueuePut(p) /\ sent' = sent /\ track' = track
  BY <1>1 DEF StreamEnds
<1>4. /\ \/ overflowed /\ overflowed' /\ queue' = queue /\ lost' = lost
         \/ ~overflowed /\ ~overflowed' /\ queue' = Append(queue, p) /\ lost' = lost
         \/ /\ ~overflowed /\ overflowed' /\ queue' = <<>> /\ queue # <<>> /\ lost' = queue[1].frame
  BY <1>2, <1>3, PutIs
<1>5. \/ overflowed /\ queue = <<>> /\ lost = next
      \/ ~overflowed /\ lost = 0 /\ next + Len(queue) = sent + 1
  BY <1>3 DEF QueueGoesOn
<1>6. ~overflowed => \A i \in 1..Len(queue) : queue[i].frame = next + i - 1
        /\ queue[i].track = track
  BY <1>3 DEF QueueGoesOn, Pieces
<1>7. /\ queue \in Seq(Piece) /\ Len(queue) \in Nat /\ sent \in Nat
      /\ Len(Append(queue, p)) = Len(queue) + 1 /\ Append(queue, p) # <<>>
      /\ \A i \in 1..Len(queue) : Append(queue, p)[i] = queue[i]
      /\ Append(queue, p)[Len(queue) + 1] = p
      /\ queue # <<>> => Len(queue) >= 1
  BY <1>2, QueueEnds DEF TurnShapes
<1>8. CASE overflowed
  BY <1>4, <1>5, <1>8 DEF QueueGoesOn
<1>9. CASE ~overflowed /\ ~overflowed' /\ queue' = Append(queue, p) /\ lost' = lost
  <2>1. /\ lost' = 0 /\ Len(queue') = Len(queue) + 1 /\ next + Len(queue') = sent' + 2
        /\ queue' # <<>> /\ queue'[Len(queue')] = EndOfStream
    <3>1. /\ next + Len(queue) = sent + 1 /\ lost' = 0 /\ Len(queue') = Len(queue) + 1
          /\ queue' # <<>> /\ queue'[Len(queue) + 1] = EndOfStream
      BY <1>1, <1>5, <1>7, <1>9
    <3> QED
      BY <1>3, <1>7, <3>1
  <2>2. ASSUME NEW i \in 1..(Len(queue') - 1)
        PROVE  queue'[i].frame = next + i - 1 /\ queue'[i].track = track'
    <3>1. i \in 1..Len(queue)
      BY <1>7, <2>1
    <3> QED
      BY <1>3, <1>6, <1>7, <1>9, <3>1
  <2>3. Pieces(next, Len(queue) - 1)'
    BY <2>2 DEF Pieces
  <2> QED
    BY <1>3, <1>9, <2>1, <2>3 DEF QueueGoesOn
<1>10. CASE ~overflowed /\ overflowed' /\ queue' = <<>> /\ queue # <<>> /\ lost' = queue[1].frame
  <2>1. queue[1].frame = next
    <3>1. 1 \in 1..Len(queue)
      BY <1>7, <1>10
    <3>2. queue[1].frame = next + 1 - 1
      BY <1>6, <1>10, <3>1
    <3> QED
      BY <3>2
  <2> QED
    BY <1>10, <2>1 DEF QueueGoesOn
<1> QED
  BY <1>4, <1>8, <1>9, <1>10

\* The piece that is taken is `next`, and the queue goes on after it.
LEMMA HeadIsNext ==
  ASSUME TurnShapes, NEW next \in Nat, next >= 1, QueueGoesOn(next), Takes,
         UNCHANGED <<overflowed, sent, track, alive, lost>>
  PROVE  /\ Head(queue).frame = next /\ Head(queue).track = track /\ Head(queue) # Nothing
         /\ lost = 0 /\ QueueGoesOn(next + 1)'
<1>1. /\ ~overflowed /\ queue # <<>> /\ queue' = Tail(queue) /\ Head(queue) = queue[1]
      /\ Head(queue) # EndOfStream
  BY TakesIs
<1>2. /\ queue \in Seq(Piece) /\ Len(queue) \in Nat /\ sent \in Nat /\ Len(queue) >= 1
      /\ Tail(queue) \in Seq(Piece) /\ Len(Tail(queue)) = Len(queue) - 1
      /\ \A i \in 1..(Len(queue) - 1) : Tail(queue)[i] = queue[i + 1]
  BY <1>1, EndIsPiece, QueueEnds DEF TurnShapes
<1>3. Head(queue) # Nothing
  BY <1>1 DEF Nothing
<1>4. CASE ~overflowed /\ lost = 0 /\ next + Len(queue) = sent + 1 /\ Pieces(next, Len(queue))
  <2>1. \A i \in 1..Len(queue) : queue[i].frame = next + i - 1 /\ queue[i].track = track
    BY <1>4 DEF Pieces
  <2>2. Head(queue).frame = next /\ Head(queue).track = track
    <3>1. 1 \in 1..Len(queue)
      BY <1>2
    <3>2. queue[1].frame = next + 1 - 1 /\ queue[1].track = track
      BY <2>1, <3>1
    <3> QED
      BY <1>1, <3>2
  <2>3. Len(queue') = Len(queue) - 1 /\ next + 1 + Len(queue') = sent' + 1
    BY <1>1, <1>2, <1>4
  <2>4. ASSUME NEW i \in 1..Len(queue')
        PROVE  queue'[i].frame = next + 1 + i - 1 /\ queue'[i].track = track'
    <3>1. i \in 1..(Len(queue) - 1) /\ i + 1 \in 1..Len(queue)
      BY <1>2, <2>3
    <3>2. queue'[i] = queue[i + 1]
      BY <1>1, <1>2, <3>1
    <3>3. queue[i + 1].frame = next + (i + 1) - 1 /\ queue[i + 1].track = track
      BY <2>1, <3>1
    <3> QED
      BY <3>1, <3>2, <3>3
  <2>5. Pieces(next + 1, Len(queue))'
    BY <2>4 DEF Pieces
  <2> QED
    BY <1>1, <1>3, <1>4, <2>2, <2>3, <2>5 DEF QueueGoesOn
<1>5. CASE /\ ~overflowed /\ lost = 0 /\ next + Len(queue) = sent + 2 /\ ~alive
           /\ queue # <<>> /\ queue[Len(queue)] = EndOfStream /\ Pieces(next, Len(queue) - 1)
  <2>1. \A i \in 1..(Len(queue) - 1) : queue[i].frame = next + i - 1 /\ queue[i].track = track
    BY <1>5 DEF Pieces
  <2>2. Len(queue) # 1
    BY <1>1, <1>5
  <2>3. Len(queue) - 1 \in 1..Len(queue) /\ 1 \in 1..(Len(queue) - 1)
    BY <1>2, <2>2
  <2>4. Head(queue).frame = next /\ Head(queue).track = track
    <3>2. queue[1].frame = next + 1 - 1 /\ queue[1].track = track
      BY <2>1, <2>3
    <3> QED
      BY <1>1, <3>2
  <2>5. Len(queue') = Len(queue) - 1 /\ next + 1 + Len(queue') = sent' + 2 /\ Len(queue') >= 1
    BY <1>1, <1>2, <1>5, <2>3
  <2>6. queue'[Len(queue')] = EndOfStream
    <3>1. Len(queue') \in 1..(Len(queue) - 1) /\ Len(queue') + 1 = Len(queue)
      BY <1>2, <2>3, <2>5
    <3>2. queue'[Len(queue')] = queue[Len(queue') + 1]
      BY <1>1, <1>2, <3>1
    <3> QED
      BY <1>5, <3>1, <3>2
  <2>7. ASSUME NEW i \in 1..(Len(queue') - 1)
        PROVE  queue'[i].frame = next + 1 + i - 1 /\ queue'[i].track = track'
    <3>1. i \in 1..(Len(queue) - 1) /\ i + 1 \in 1..(Len(queue) - 1) /\ i \in Int
      BY <1>2, <2>5
    <3>2. queue'[i] = queue[i + 1]
      BY <1>1, <1>2, <3>1
    <3>3. queue[i + 1].frame = next + (i + 1) - 1 /\ queue[i + 1].track = track
      BY <2>1, <3>1
    <3> QED
      BY <3>1, <3>2, <3>3
  <2>8. Pieces(next + 1, Len(queue) - 1)'
    BY <2>7 DEF Pieces
  <2>9. queue' # <<>>
    BY <2>5
  <2> QED
    BY <1>1, <1>3, <1>5, <2>4, <2>5, <2>6, <2>8, <2>9 DEF QueueGoesOn
<1> QED
  BY <1>1, <1>4, <1>5 DEF QueueGoesOn

\* The frame `next` is heard after all that was.
LEMMA HearsNext ==
  ASSUME TurnShapes, NEW next \in Nat, next >= 1, HeardUpTo(next), NEW x \in Sound,
    x.item.frame = next,
         heard' = Append(heard, x), track' = track
  PROVE  HeardUpTo(next + 1)'
<1>1. /\ Len(heard) \in Nat /\ Len(heard') = Len(heard) + 1
           /\ \A i \in 1..Len(heard) : heard'[i] = heard[i]
      /\ heard'[Len(heard) + 1] = x
  BY HeardMore DEF TurnShapes
<1>2. heard \in Seq(Sound)
  BY DEF TurnShapes
<1>3. ASSUME NEW i \in 1..Len(heard'), heard'[i].item.track = track'
      PROVE heard'[i].item.frame < next + 1
  <2>1. CASE i \in 1..Len(heard)
    <3>1. heard'[i] = heard[i] /\ heard[i].item.frame < next
      BY <1>1, <1>3, <2>1 DEF HeardUpTo
    <3>2. heard[i].item.frame \in Nat
      <4>1. heard[i] \in Sound
        BY <1>2, <2>1
      <4> QED
        BY <4>1 DEF Sound, Piece
    <3> QED
      BY <3>1, <3>2
  <2>2. CASE i = Len(heard) + 1
    BY <1>1, <2>2
  <2> QED
    BY <1>1, <2>1, <2>2
<1>4. heard'[Len(heard')].item.frame = next + 1 - 1
  BY <1>1
<1> QED
  BY <1>3, <1>4 DEF HeardUpTo

\* All that was heard of the track is older than the frame that is taken next.
LEMMA HeardBefore ==
  ASSUME TurnShapes, NEW next \in Nat, next >= 1, HeardUpTo(next) \/ (next > 1
    /\ HeardUpTo(next - 1))
  PROVE  \A i \in 1..Len(heard) : heard[i].item.track = track =>
           heard[i].item.frame < next /\ heard[i].item.frame \in Nat
<1> SUFFICES ASSUME NEW i \in 1..Len(heard), heard[i].item.track = track
             PROVE  heard[i].item.frame < next /\ heard[i].item.frame \in Nat
  OBVIOUS
<1>1. heard[i].item.frame \in Nat
  <2>1. heard[i] \in Sound
    BY DEF TurnShapes
  <2> QED
    BY <2>1 DEF Sound, Piece
<1>2. heard[i].item.frame < next \/ heard[i].item.frame < next - 1
  BY DEF HeardUpTo
<1> QED
  BY <1>1, <1>2

\* Between what was heard and what was sent nothing is missing but what the overflow took.
LEMMA NothingIsBetweenKept == TurnIInv /\ [TurnNext]_turnVars => NothingIsBetween'
<1> SUFFICES ASSUME TurnIInv, [TurnNext]_turnVars, (session = "up")' PROVE NothingIsBetween'
  BY DEF NothingIsBetween
<1>0. TurnShapes /\ DetectorIsExact /\ LastCutIsExact /\ NothingIsBetween /\ HeardInOrder
  BY DEF TurnIInv
<1>1. ASSUME TrackSubscribed PROVE NothingIsBetween'
  <2>1. /\ track' = track + 1 /\ queue' = <<>> /\ ~overflowed' /\ lost' = 0 /\ taken' = Nothing
        /\ sent' = sent /\ heard' = heard
    BY <1>1 DEF TrackSubscribed
  <2>2. sent \in Nat /\ track \in Nat /\ heard \in Seq(Sound)
    BY <1>0 DEF TurnShapes
  <2>3. \A i \in 1..Len(heard) : heard[i].item.track <= track
    BY <1>0 DEF HeardInOrder
  <2>4. \A i \in 1..Len(heard) : ~(heard[i].item.track = track + 1)
    <3> SUFFICES ASSUME NEW i \in 1..Len(heard), heard[i].item.track = track + 1 PROVE FALSE
      OBVIOUS
    <3> QED
      BY <2>2, <2>3
  <2>5. HeardUpTo(sent + 1)'
    <3>1. heard' # <<>> => Len(heard') \in 1..Len(heard')
      <4> HIDE DEF Sound
      <4> QED
        BY <2>1, <2>2
    <3> QED
      BY <2>1, <2>4, <3>1 DEF HeardUpTo
  <2>6. QueueGoesOn(sent + 1)'
    <3>1. Len(queue') = 0
      BY <2>1
    <3> QED
      BY <2>1, <2>2, <3>1 DEF QueueGoesOn, Pieces
  <2>7. sent + 1 \in Nat /\ sent + 1 >= 1
    BY <2>2
  <2> QED
    BY <2>1, <2>5, <2>6, <2>7 DEF NothingIsBetween
<1>2. ASSUME ~TrackSubscribed, session = "up" PROVE NothingIsBetween'
  <2>1. PICK next \in Nat :
          /\ next >= 1 /\ QueueGoesOn(next)
          /\ IF taken = Nothing THEN HeardUpTo(next)
             ELSE taken.frame = next - 1 /\ taken.track = track /\ next > 1 /\ HeardUpTo(next - 1)
    BY <1>0, <1>2 DEF NothingIsBetween
  <2>2. next + 1 \in Nat /\ next + 1 >= 1 /\ next + 1 > 1 /\ (next + 1) - 1 = next
    BY <2>1
  <2>3. ASSUME QueueGoesOn(next)', UNCHANGED <<taken, heard, track>> PROVE NothingIsBetween'
    <3>1. IF taken' = Nothing THEN HeardUpTo(next)'
          ELSE taken'.frame = next - 1 /\ taken'.track = track' /\ next > 1 /\ HeardUpTo(next - 1)'
      BY <2>1, <2>3 DEF HeardUpTo
    <3> QED
      BY <2>1, <2>3, <3>1 DEF NothingIsBetween
  <2>4. ASSUME FrameArrives PROVE NothingIsBetween'
    <3>1. QueueGoesOn(next)'
      BY <1>0, <2>1, <2>4, FramePut
    <3> QED
      BY <2>3, <2>4, <3>1 DEF FrameArrives
  <2>5. ASSUME StreamEnds PROVE NothingIsBetween'
    <3>1. QueueGoesOn(next)'
      BY <1>0, <2>1, <2>5, StreamEndPut
    <3> QED
      BY <2>3, <2>5, <3>1 DEF StreamEnds
  <2>6. ASSUME UNCHANGED <<queue, overflowed, lost, sent, alive, track, taken, heard>>
        PROVE  NothingIsBetween'
    <3>1. QueueGoesOn(next)'
      BY <2>1, <2>6 DEF QueueGoesOn, Pieces
    <3> QED
      BY <2>3, <2>6, <3>1
  <2>7. ASSUME NEW voiced \in BOOLEAN, Pushes(voiced) PROVE NothingIsBetween'
    <3>1. /\ Takes /\ DetectorPush(Head(queue), voiced)
          /\ UNCHANGED <<overflowed, sent, track, alive, lost, taken>>
      BY <2>7 DEF Pushes
    <3>2. Head(queue) \in Piece /\ taken = Nothing
      BY <1>0, <3>1, TakesIs
    <3>3. Head(queue).frame = next /\ Head(queue).track = track /\ QueueGoesOn(next + 1)'
      BY <1>0, <2>1, <3>1, HeadIsNext
    <3>4. PICK x : x = [item |-> Head(queue), voiced |-> voiced]
      OBVIOUS
    <3>5. x \in Sound /\ x.item.frame = next /\ heard' = Append(heard, x)
      BY <1>0, <3>1, <3>2, <3>3, <3>4, DetectorPushed DEF Sound
    <3>6. HeardUpTo(next + 1)'
      BY <1>0, <2>1, <3>1, <3>2, <3>5, HearsNext
    <3> QED
      BY <2>2, <3>1, <3>2, <3>3, <3>6 DEF NothingIsBetween
  <2>8. ASSUME BargesIn PROVE NothingIsBetween'
    <3>1. /\ Takes /\ taken' = Head(queue) /\ heard' = heard
          /\ UNCHANGED <<overflowed, sent, track, alive, lost>>
      BY <2>8 DEF BargesIn
    <3>2. taken = Nothing
      BY <1>0, <3>1, TakesIs
    <3>3. /\ Head(queue).frame = next /\ Head(queue).track = track /\ Head(queue) # Nothing
          /\ QueueGoesOn(next + 1)'
      BY <1>0, <2>1, <3>1, HeadIsNext
    <3>4. HeardUpTo(next)'
      BY <2>1, <3>1, <3>2 DEF HeardUpTo
    <3>5. HeardUpTo((next + 1) - 1)'
      BY <2>2, <3>4
    <3>6. taken'.frame = (next + 1) - 1 /\ taken'.track = track' /\ taken' # Nothing
      BY <2>2, <3>1, <3>3
    <3> QED
      BY <2>2, <3>3, <3>5, <3>6 DEF NothingIsBetween
  <2>9. ASSUME InterruptReturns PROVE NothingIsBetween'
    <3>1. /\ DetectorPush(taken, TRUE) /\ taken' = Nothing
          /\ UNCHANGED <<queue, overflowed, sent, track, alive, lost>>
      BY <2>9 DEF InterruptReturns
    <3>2. QueueGoesOn(next)'
      BY <2>1, <3>1 DEF QueueGoesOn, Pieces
    <3>3. taken \in Piece
      BY <1>0 DEF TurnShapes
    <3>4. PICK x : x = [item |-> taken, voiced |-> TRUE]
      OBVIOUS
    <3>5. x \in Sound /\ x.item = taken /\ heard' = Append(heard, x)
      BY <1>0, <3>1, <3>3, <3>4, DetectorPushed DEF Sound
    <3>6. CASE taken # Nothing
      <4>1. next - 1 \in Nat /\ next - 1 >= 1 /\ (next - 1) + 1 = next
        BY <2>1, <3>6
      <4>2. PICK m \in Nat : m = next - 1
        BY <4>1
      <4>3. m >= 1 /\ HeardUpTo(m) /\ x.item.frame = m
        BY <2>1, <3>5, <3>6, <4>1, <4>2
      <4>4. HeardUpTo(m + 1)'
        BY <1>0, <3>1, <3>5, <4>3, HearsNext
      <4>5. HeardUpTo(next)'
        BY <4>1, <4>2, <4>4
      <4> QED
        BY <2>1, <3>1, <3>2, <4>5 DEF NothingIsBetween
    <3>7. CASE taken = Nothing
      <4>1. FALSE
        BY <1>0, <2>9, <3>7 DEF InterruptReturns, TurnShapes
      <4> QED
        BY <4>1
    <3> QED
      BY <3>6, <3>7
  <2>10. ASSUME MicrophoneUnpublished \/ GetFails \/ StreamEnded PROVE NothingIsBetween'
    BY <2>10 DEF MicrophoneUnpublished, GetFails, StreamEnded, Discontinuity, NothingIsBetween
  <2>11. ASSUME GetWaits \/ GetWakes \/ UNCHANGED turnVars PROVE NothingIsBetween'
    <3>1. UNCHANGED <<queue, overflowed, lost, sent, alive, track, taken, heard>>
      BY <2>11 DEF GetWaits, GetWakes, turnVars
    <3> QED
      BY <2>6, <3>1
  <2> QED
    BY <1>2, <2>4, <2>5, <2>7, <2>8, <2>9, <2>10, <2>11 DEF TurnNext, ReceiveStep
<1>3. session = "up" \/ TrackSubscribed
  BY DEF TurnNext, ReceiveStep, FrameArrives, StreamEnds, TrackSubscribed, MicrophoneUnpublished,
     GetWaits, GetWakes, GetFails, StreamEnded, Pushes, BargesIn, InterruptReturns, turnVars,
       Discontinuity
<1> QED
  BY <1>1, <1>2, <1>3

\* A frame after all that was heard of its track, and before the first that was lost.
LEMMA OrderGoesOn ==
  ASSUME TurnShapes, HeardInOrder, NEW next \in Nat, next >= 1, HeardUpTo(next), NEW x \in Sound,
         x.item.frame = next, x.item.track = track, heard' = Append(heard, x),
         UNCHANGED <<track, lost>>, lost > 0 => next < lost
  PROVE  HeardInOrder'
<1>1. /\ Len(heard) \in Nat /\ Len(heard') = Len(heard) + 1
           /\ \A i \in 1..Len(heard) : heard'[i] = heard[i]
      /\ heard'[Len(heard) + 1] = x /\ track \in Nat
  BY HeardMore DEF TurnShapes
<1>2. ASSUME NEW i \in 1..Len(heard') PROVE heard'[i].item.track <= track'
  <2>1. CASE i \in 1..Len(heard)
    BY <1>1, <2>1 DEF HeardInOrder
  <2>2. CASE i = Len(heard) + 1
    BY <1>1, <2>2
  <2>3. i \in 1..Len(heard) \/ i = Len(heard) + 1
    BY <1>1
  <2> QED
    BY <2>1, <2>2, <2>3
<1>3. ASSUME NEW i \in 1..Len(heard'), lost' > 0, heard'[i].item.track = track'
      PROVE  heard'[i].item.frame < lost'
  <2>1. CASE i \in 1..Len(heard)
    BY <1>1, <1>3, <2>1 DEF HeardInOrder, NothingAfterGap
  <2>2. CASE i = Len(heard) + 1
    BY <1>1, <1>3, <2>2
  <2>3. i \in 1..Len(heard) \/ i = Len(heard) + 1
    BY <1>1
  <2> QED
    BY <2>1, <2>2, <2>3
<1>4. ASSUME NEW i \in 1..Len(heard'), i > 1, heard'[i - 1].item.track = heard'[i].item.track
      PROVE  heard'[i].item.frame = heard'[i - 1].item.frame + 1
  <2>1. CASE i \in 1..Len(heard)
    <3>1. i - 1 \in 1..Len(heard)
      BY <1>1, <1>4, <2>1
    <3>2. heard'[i] = heard[i] /\ heard'[i - 1] = heard[i - 1]
      BY <1>1, <2>1, <3>1
    <3> QED
      BY <1>4, <2>1, <3>2 DEF HeardInOrder, NothingAfterGap
  <2>2. CASE i = Len(heard) + 1
    <3>1. Len(heard) \in 1..Len(heard) /\ i - 1 = Len(heard)
      BY <1>1, <1>4, <2>2
    <3>2. heard'[i] = x /\ heard'[i - 1] = heard[Len(heard)] /\ heard # <<>>
      BY <1>1, <2>2, <3>1
    <3>3. heard[Len(heard)].item.frame = next - 1
      BY <1>4, <3>2 DEF HeardUpTo
    <3> QED
      BY <3>2, <3>3
  <2>3. i \in 1..Len(heard) \/ i = Len(heard) + 1
    BY <1>1
  <2> QED
    BY <2>1, <2>2, <2>3
<1> QED
  BY <1>2, <1>3, <1>4 DEF HeardInOrder, NothingAfterGap

\* What is heard of a track is in order.
LEMMA HeardInOrderKept == TurnIInv /\ [TurnNext]_turnVars => HeardInOrder'
<1> SUFFICES ASSUME TurnIInv, [TurnNext]_turnVars PROVE HeardInOrder'
  OBVIOUS
<1>0. TurnShapes /\ DetectorIsExact /\ LastCutIsExact /\ NothingIsBetween /\ HeardInOrder
  BY DEF TurnIInv
<1>1. ASSUME TrackSubscribed PROVE HeardInOrder'
  <2>1. track' = track + 1 /\ lost' = 0 /\ heard' = heard /\ track \in Nat
    BY <1>0, <1>1 DEF TrackSubscribed, TurnShapes
  <2>2. ASSUME NEW i \in 1..Len(heard) PROVE heard[i].item.track <= track + 1
    <3>1. heard[i].item.track <= track
      BY <1>0 DEF HeardInOrder
    <3>2. heard[i].item.track \in Nat
      <4>1. heard[i] \in Sound
        BY <1>0 DEF TurnShapes
      <4> QED
        BY <4>1 DEF Sound, Piece
    <3> QED
      BY <2>1, <3>1, <3>2
  <2> QED
    BY <1>0, <2>1, <2>2 DEF HeardInOrder, NothingAfterGap
<1>2. ASSUME UNCHANGED <<track, lost, heard>> PROVE HeardInOrder'
  BY <1>0, <1>2 DEF HeardInOrder, NothingAfterGap
<1>3. ASSUME session = "up" PROVE
        \E next \in Nat :
          /\ next >= 1 /\ QueueGoesOn(next)
          /\ IF taken = Nothing THEN HeardUpTo(next)
             ELSE taken.frame = next - 1 /\ taken.track = track /\ next > 1 /\ HeardUpTo(next - 1)
  BY <1>0, <1>3 DEF NothingIsBetween
<1>4. ASSUME FrameArrives \/ StreamEnds PROVE HeardInOrder'
  <2>1. session = "up" /\ track' = track /\ heard' = heard
    BY <1>4 DEF FrameArrives, StreamEnds
  <2>2. PICK next \in Nat :
          /\ next >= 1 /\ QueueGoesOn(next)
          /\ IF taken = Nothing THEN HeardUpTo(next)
             ELSE taken.frame = next - 1 /\ taken.track = track /\ next > 1 /\ HeardUpTo(next - 1)
    BY <1>3, <2>1
  <2>3. QueueGoesOn(next)'
    BY <1>0, <1>4, <2>2, FramePut, StreamEndPut
  <2>4. lost' = 0 \/ lost' = next
    BY <2>3 DEF QueueGoesOn
  <2>5. \A i \in 1..Len(heard) : heard[i].item.track = track => heard[i].item.frame < next
    BY <1>0, <2>2, HeardBefore
  <2> QED
    BY <1>0, <2>1, <2>2, <2>4, <2>5 DEF HeardInOrder, NothingAfterGap
<1>5. ASSUME NEW voiced \in BOOLEAN, Pushes(voiced) PROVE HeardInOrder'
  <2>1. /\ Takes /\ DetectorPush(Head(queue), voiced)
        /\ UNCHANGED <<overflowed, sent, track, alive, lost, taken>>
    BY <1>5 DEF Pushes
  <2>2. Head(queue) \in Piece /\ taken = Nothing /\ session = "up"
    BY <1>0, <2>1, TakesIs
  <2>3. PICK next \in Nat : next >= 1 /\ QueueGoesOn(next) /\ HeardUpTo(next)
    BY <1>3, <2>2
  <2>4. Head(queue).frame = next /\ Head(queue).track = track /\ lost = 0
    BY <1>0, <2>1, <2>3, HeadIsNext
  <2>5. PICK x : x = [item |-> Head(queue), voiced |-> voiced]
    OBVIOUS
  <2>6. x \in Sound /\ x.item.frame = next /\ x.item.track = track /\ heard' = Append(heard, x)
    BY <1>0, <2>1, <2>2, <2>4, <2>5, DetectorPushed DEF Sound
  <2>7. lost > 0 => next < lost
    BY <2>4
  <2> QED
    BY <1>0, <2>1, <2>3, <2>6, <2>7, OrderGoesOn
<1>6. ASSUME InterruptReturns PROVE HeardInOrder'
  <2>1. /\ receiver = "interrupt" /\ DetectorPush(taken, TRUE)
        /\ UNCHANGED <<track, lost>>
    BY <1>6 DEF InterruptReturns
  <2>2. taken \in Piece /\ taken # Nothing /\ session = "up" /\ lost \in Nat
    BY <1>0, <2>1 DEF TurnShapes
  <2>3. PICK next \in Nat : /\ next >= 1 /\ QueueGoesOn(next)
                            /\ taken.frame = next - 1 /\ taken.track = track /\ next > 1
                                 /\ HeardUpTo(next - 1)
    BY <1>3, <2>2
  <2>4. PICK m \in Nat : m = next - 1
    BY <2>3
  <2>5. m >= 1 /\ HeardUpTo(m) /\ taken.frame = m
    BY <2>3, <2>4
  <2>6. lost > 0 => m < lost
    BY <2>3, <2>4 DEF QueueGoesOn
  <2>7. PICK x : x = [item |-> taken, voiced |-> TRUE]
    OBVIOUS
  <2>8. x \in Sound /\ x.item.frame = m /\ x.item.track = track /\ heard' = Append(heard, x)
    BY <1>0, <2>1, <2>2, <2>3, <2>5, <2>7, DetectorPushed DEF Sound
  <2> QED
    BY <1>0, <2>1, <2>5, <2>6, <2>8, OrderGoesOn
<1>7. \/ FrameArrives \/ StreamEnds \/ TrackSubscribed \/ InterruptReturns
      \/ \E voiced \in BOOLEAN : Pushes(voiced)
      \/ UNCHANGED <<track, lost, heard>>
  BY DEF TurnNext, ReceiveStep, MicrophoneUnpublished, GetWaits, GetWakes, GetFails, StreamEnded,
     BargesIn, turnVars
<1> QED
  BY <1>1, <1>2, <1>4, <1>5, <1>6, <1>7

-----------------------------------------------------------------------------
(* What the invariant says of the utterances, in the words of the property. *)

LEMMA RunIs ==
  ASSUME NEW i \in Nat
  PROVE  VoicedIn(i, i + StartRun - 1) = i..(i + StartRun - 1) <=> AllVoiced(heard, i)
  BY DEF VoicedIn, AllVoiced

\* The runs of the property are those of the invariant.
LEMMA RunsAre ==
  ASSUME NEW from \in Nat, NEW to \in Nat
  PROVE  /\ \A i \in RunsIn(from, to) : i \in Nat /\ i > from /\ i + StartRun - 1 <= to
              /\ AllVoiced(heard, i)
         /\ \A i \in Nat : i > from /\ i + StartRun - 1 <= to
              /\ AllVoiced(heard, i) => i \in RunsIn(from, to)
<1>1. StartRun \in Nat
  BY TurnConstants
<1>2. ASSUME NEW i \in RunsIn(from, to)
      PROVE  i \in Nat /\ i > from /\ i + StartRun - 1 <= to /\ AllVoiced(heard, i)
  <2>1. i \in (from + 1)..(to + 1 - StartRun)
          /\ VoicedIn(i, i + StartRun - 1) = i..(i + StartRun - 1)
    BY DEF RunsIn
  <2>2. i \in Nat /\ i > from /\ i + StartRun - 1 <= to
    BY <1>1, <2>1
  <2> QED
    BY <2>1, <2>2, RunIs
<1>3. ASSUME NEW i \in Nat, i > from, i + StartRun - 1 <= to, AllVoiced(heard, i)
      PROVE i \in RunsIn(from, to)
  <2>1. i \in (from + 1)..(to + 1 - StartRun)
    BY <1>1, <1>3
  <2>2. VoicedIn(i, i + StartRun - 1) = i..(i + StartRun - 1)
    BY <1>3, RunIs
  <2> QED
    BY <2>1, <2>2 DEF RunsIn
<1> QED
  BY <1>2, <1>3

\* And so is the first.
LEMMA FirstRunIs ==
  ASSUME NEW from \in Nat, NEW to \in Nat, NEW r, FirstRun(heard, from, r), r + StartRun - 1 <= to
  PROVE  RunsIn(from, to) # {} /\ FirstOf(RunsIn(from, to)) = r
<1>1. r \in Nat /\ r > from /\ AllVoiced(heard, r) /\ \A i \in Nat : from < i
        /\ i < r => ~AllVoiced(heard, i)
  BY DEF FirstRun
<1>2. r \in RunsIn(from, to)
  BY <1>1, RunsAre
<1>3. ASSUME NEW i \in RunsIn(from, to) PROVE i \in Nat /\ r <= i
  <2>1. i \in Nat /\ i > from /\ AllVoiced(heard, i)
    BY RunsAre
  <2>2. ~(i < r)
    BY <1>1, <2>1
  <2> QED
    BY <1>1, <2>1, <2>2
<1>4. \A i \in RunsIn(from, to) : (\A j \in RunsIn(from, to) : i <= j) => i = r
  <2> SUFFICES ASSUME NEW i \in RunsIn(from, to), \A j \in RunsIn(from, to) : i <= j PROVE i = r
    OBVIOUS
  <2>1. i <= r /\ r <= i /\ i \in Nat
    BY <1>2, <1>3
  <2> QED
    BY <1>1, <2>1
<1>5. (CHOOSE i \in RunsIn(from, to) : \A j \in RunsIn(from, to) : i <= j) = r
  BY <1>2, <1>3, <1>4
<1> QED
  BY <1>2, <1>5 DEF FirstOf

\* Frames that agree with what was heard, one by one, are the frames of the property.
LEMMA ItemsAre ==
  ASSUME NEW s \in Seq(Piece), NEW from \in Nat, NEW to \in Nat, to - from = Len(s),
         \A i \in 1..Len(s) : s[i] = heard[from + i].item
  PROVE  s = Items(from, to)
<1>1. s = [i \in 1..Len(s) |-> s[i]]
  <2> HIDE DEF Piece
  <2> QED
    OBVIOUS
<1>2. [i \in 1..Len(s) |-> s[i]] = [i \in 1..Len(s) |-> heard[from + i].item]
  OBVIOUS
<1> QED
  BY <1>1, <1>2 DEF Items

\* The utterance that is open, or that none is missed.
LEMMA NowIsKept ==
  ASSUME TurnShapes, DetectorIsExact
  PROVE  IF detector.frames = <<>> THEN RunsIn(detector.since, detector.cursor) = {}
         ELSE /\ RunsIn(detector.since, detector.cursor) # {}
              /\ StartsAt(detector.first, detector.since, FirstOf(RunsIn(detector.since,
                   detector.cursor)))
              /\ detector.frames = Items(detector.first, detector.cursor)
<1>1. detector.cursor = Len(heard) /\ detector.since \in Nat /\ Len(heard) \in Nat
  <2>1. Len(heard) \in Nat
    <3>1. heard \in Seq(Sound)
      BY DEF TurnShapes
    <3> HIDE DEF Sound
    <3> QED
      BY <3>1
  <2> QED
    BY <2>1 DEF DetectorIsExact, Clocks
<1>2. CASE Waiting(detector, heard)
  <2>1. \A i \in RunsIn(detector.since, detector.cursor) : FALSE
    BY <1>1, <1>2, RunsAre DEF Waiting
  <2> QED
    BY <1>2, <2>1 DEF Waiting
<1>3. CASE detector.frames # <<>> /\ \E r \in Nat : Hearing(detector, heard, r)
  <2>1. PICK r \in Nat : Hearing(detector, heard, r)
    BY <1>3
  <2>2. /\ FirstRun(heard, detector.since, r) /\ StartsAt(detector.first, detector.since, r)
        /\ detector.first \in Nat /\ r + StartRun - 1 <= detector.lastVoiced
             /\ detector.lastVoiced <= Len(heard)
        /\ detector.lastVoiced \in Nat
        /\ detector.frames \in Seq(Piece) /\ Len(detector.frames) = Len(heard) - detector.first
        /\ \A i \in 1..Len(detector.frames) : detector.frames[i] = heard[detector.first + i].item
    BY <2>1 DEF Hearing
  <2>3. r + StartRun - 1 <= Len(heard)
    BY <1>1, <2>1, <2>2, TurnConstants
  <2>4. RunsIn(detector.since, detector.cursor) # {}
          /\ FirstOf(RunsIn(detector.since, detector.cursor)) = r
    BY <1>1, <2>2, <2>3, FirstRunIs
  <2>5. detector.frames = Items(detector.first, detector.cursor)
    <3>1. /\ detector.cursor \in Nat /\ detector.first \in Nat /\ detector.frames \in Seq(Piece)
          /\ detector.cursor - detector.first = Len(detector.frames)
      BY <1>1, <2>2
    <3>2. \A i \in 1..Len(detector.frames) : detector.frames[i] = heard[detector.first + i].item
      BY <2>2
    <3>3. PICK s \in Seq(Piece) : s = detector.frames
      BY <3>1
    <3>4. PICK from \in Nat : from = detector.first
      BY <3>1
    <3>5. PICK to \in Nat : to = detector.cursor
      BY <3>1
    <3>6. to - from = Len(s) /\ \A i \in 1..Len(s) : s[i] = heard[from + i].item
      BY <3>1, <3>2, <3>3, <3>4, <3>5
    <3>7. s = Items(from, to)
      BY <3>6, ItemsAre
    <3> QED
      BY <3>3, <3>4, <3>5, <3>7
  <2> QED
    BY <1>3, <2>2, <2>4, <2>5
<1> QED
  BY <1>2, <1>3 DEF DetectorIsExact

\* The utterance that was cut last.
LEMMA CutIsKept ==
  ASSUME LastCutIsExact, ended.committed > 0
  PROVE  /\ StartsAt(ended.first, ended.since, FirstOf(RunsIn(ended.since, ended.committed)))
         /\ ended.pcm = Items(ended.first, ended.first + Len(ended.pcm))
         /\ VoicedIn(ended.first + Len(ended.pcm) + 1, ended.committed) = {}
         /\ \/ ended.committed - ended.lastVoiced = Patience
            \/ ended.committed - ended.first = MaxFrames
         /\ (ended.first + Len(ended.pcm)) - ended.lastVoiced
              >= Smaller(TailFrames, ended.committed - ended.lastVoiced)
         /\ ended.valid <=>
              Cardinality(VoicedIn(FirstOf(RunsIn(ended.since, ended.committed)),
                ended.committed)) >= MinVoiced
<1>1. PICK r \in Nat : WasCut(ended, heard, r)
  BY DEF LastCutIsExact
<1>2. /\ ended.committed \in Nat /\ ended.committed <= Len(heard) /\ ended.since \in Nat
      /\ FirstRun(heard, ended.since, r) /\ StartsAt(ended.first, ended.since, r)
      /\ r + StartRun - 1 <= ended.committed
      /\ ended.first \in Nat /\ ended.lastVoiced \in Nat
      /\ ended.pcm \in Seq(Piece) /\ ended.first + Len(ended.pcm) <= ended.committed
      /\ \A i \in 1..Len(ended.pcm) : ended.pcm[i] = heard[ended.first + i].item
      /\ \A i \in 1..ended.committed : i > ended.first + Len(ended.pcm) => ~heard[i].voiced
      /\ ended.committed - ended.lastVoiced = Patience \/ ended.committed - ended.first = MaxFrames
      /\ ended.first + Len(ended.pcm) - ended.lastVoiced
           >= Smaller(TailFrames, ended.committed - ended.lastVoiced)
      /\ ended.valid <=> Cardinality(VoicedOf(heard, r, ended.committed)) >= MinVoiced
  BY <1>1 DEF WasCut
<1>3. FirstOf(RunsIn(ended.since, ended.committed)) = r
  BY <1>2, FirstRunIs
<1>4. Len(ended.pcm) \in Nat
  <2> HIDE DEF Piece
  <2> QED
    BY <1>2
<1>5. ended.pcm = Items(ended.first, ended.first + Len(ended.pcm))
  <2>1. ended.first + Len(ended.pcm) \in Nat
          /\ ended.first + Len(ended.pcm) - ended.first = Len(ended.pcm)
    BY <1>2, <1>4
  <2>3. PICK s \in Seq(Piece) : s = ended.pcm
    BY <1>2
  <2>4. PICK from \in Nat : from = ended.first
    BY <1>2
  <2>5. PICK to \in Nat : to = ended.first + Len(ended.pcm)
    BY <2>1
  <2>6. to - from = Len(s) /\ \A i \in 1..Len(s) : s[i] = heard[from + i].item
    BY <1>2, <2>1, <2>3, <2>4, <2>5
  <2>7. s = Items(from, to)
    BY <2>6, ItemsAre
  <2> QED
    BY <2>3, <2>4, <2>5, <2>7
<1>6. VoicedIn(ended.first + Len(ended.pcm) + 1, ended.committed) = {}
  <2>1. ASSUME NEW i \in (ended.first + Len(ended.pcm) + 1)..ended.committed PROVE ~heard[i].voiced
    <3>1. i \in 1..ended.committed /\ i > ended.first + Len(ended.pcm)
      BY <1>2, <1>4
    <3> QED
      BY <1>2, <3>1
  <2> QED
    BY <2>1 DEF VoicedIn
<1>7. VoicedIn(r, ended.committed) = VoicedOf(heard, r, ended.committed)
  BY DEF VoicedIn, VoicedOf
<1>8. ended.valid <=> Cardinality(VoicedIn(r, ended.committed)) >= MinVoiced
  BY <1>2, <1>7
<1>9. (ended.first + Len(ended.pcm)) - ended.lastVoiced = ended.first + Len(ended.pcm) - ended.lastVoiced
  BY <1>2, <1>4
<1>10. (ended.first + Len(ended.pcm)) - ended.lastVoiced
         >= Smaller(TailFrames, ended.committed - ended.lastVoiced)
  BY <1>2, <1>9
<1> QED
  BY <1>2, <1>3, <1>5, <1>6, <1>8, <1>10

\* Whatever is voiced and however frames, ends of streams, new tracks and interrupts interleave:
\* an utterance starts with its first run and what was kept before it, holds every voiced frame
\* and its tail in the order they were sent, and nothing is heard past a frame that was lost.
THEOREM TurnSafe == TurnSpec => []HearingIsExact
<1>1. TurnIInv /\ [TurnNext]_turnVars => TurnIInv'
  BY TurnShapesKept, HearingKept, NothingIsBetweenKept, HeardInOrderKept DEF TurnIInv
<1>2. TurnIInv => HearingIsExact
  <2> SUFFICES ASSUME TurnIInv PROVE HearingIsExact
    OBVIOUS
  <2>1. TurnShapes /\ DetectorIsExact /\ LastCutIsExact /\ NothingAfterGap
    BY DEF TurnIInv, HeardInOrder
  <2>2. SpeechIsKept
    <3>1. IF detector.frames = <<>> THEN RunsIn(detector.since, detector.cursor) = {}
          ELSE /\ RunsIn(detector.since, detector.cursor) # {}
               /\ StartsAt(detector.first, detector.since, FirstOf(RunsIn(detector.since,
                    detector.cursor)))
               /\ detector.frames = Items(detector.first, detector.cursor)
      BY <2>1, NowIsKept
    <3>2. ended.committed > 0 =>
            /\ StartsAt(ended.first, ended.since, FirstOf(RunsIn(ended.since, ended.committed)))
            /\ ended.pcm = Items(ended.first, ended.first + Len(ended.pcm))
            /\ VoicedIn(ended.first + Len(ended.pcm) + 1, ended.committed) = {}
            /\ \/ ended.committed - ended.lastVoiced = Patience
               \/ ended.committed - ended.first = MaxFrames
            /\ (ended.first + Len(ended.pcm)) - ended.lastVoiced
                 >= Smaller(TailFrames, ended.committed - ended.lastVoiced)
            /\ ended.valid <=>
                 Cardinality(VoicedIn(FirstOf(RunsIn(ended.since, ended.committed)),
                   ended.committed)) >= MinVoiced
      BY <2>1, CutIsKept
    <3>3. LET d == detector
              runs == RunsIn(d.since, d.cursor)
          IN  IF d.frames = <<>> THEN runs = {}
              ELSE /\ runs # {} /\ StartsAt(d.first, d.since, FirstOf(runs))
                   /\ d.frames = Items(d.first, d.cursor)
      BY <3>1, Zenon
    <3>4. ended.committed > 0 =>
            LET e == ended
                run == FirstOf(RunsIn(e.since, e.committed))
                end == e.first + Len(e.pcm)
            IN  /\ StartsAt(e.first, e.since, run)
                /\ e.pcm = Items(e.first, end)
                /\ VoicedIn(end + 1, e.committed) = {}
                /\ \/ e.committed - e.lastVoiced = Patience
                   \/ e.committed - e.first = MaxFrames
                /\ end - e.lastVoiced >= Smaller(TailFrames, e.committed - e.lastVoiced)
                /\ e.valid <=> Cardinality(VoicedIn(run, e.committed)) >= MinVoiced
      BY <3>2, Zenon
    <3> QED
      BY <3>3, <3>4 DEF SpeechIsKept
  <2> QED
    BY <2>1, <2>2 DEF HearingIsExact
<1> QED
  BY TurnBegins, <1>1, <1>2, PTL DEF TurnSpec

-----------------------------------------------------------------------------
(* The motion timeline and the frame mailbox.                              *)

\* Least and greatest elements: the naturals are well-founded.
LEMMA LeastOf ==
  ASSUME NEW S \in SUBSET Nat, S # {}
  PROVE  \E x \in S : \A y \in S : x <= y
<1>1. OpToRel(<, Nat) = {p \in Nat \X Nat : p[1] < p[2]}
  BY DEF OpToRel
<1>2. \E x \in S : \A y \in S : ~(<<y, x>> \in OpToRel(<, Nat))
  BY NatLessThanWellFounded, WFMin
<1>3. PICK x \in S : \A y \in S : ~(<<y, x>> \in OpToRel(<, Nat))
  BY <1>2
<1>4. ASSUME NEW y \in S PROVE x <= y
  <2>1. ~(<<y, x>> \in {p \in Nat \X Nat : p[1] < p[2]})
    BY <1>1, <1>3
  <2>2. x \in Nat /\ y \in Nat
    OBVIOUS
  <2> QED
    BY <2>1, <2>2
<1> QED
  BY <1>4

LEMMA GreatestOf ==
  ASSUME NEW S \in SUBSET Nat, S # {}, NEW b \in Nat, \A x \in S : x <= b
  PROVE  \E x \in S : \A y \in S : y <= x
<1> DEFINE T == {b - x : x \in S}
<1>1. T \in SUBSET Nat /\ T # {}
  <2>1. \A x \in S : b - x \in Nat
    OBVIOUS
  <2> QED
    BY <2>1
<1>2. PICK t \in T : \A u \in T : t <= u
  BY <1>1, LeastOf
<1>3. PICK x \in S : t = b - x
  BY <1>2
<1>4. ASSUME NEW y \in S PROVE y <= x
  <2>1. b - y \in T
    OBVIOUS
  <2> QED
    BY <1>2, <1>3, <2>1
<1> QED
  BY <1>3, <1>4

\* What the operators of the timeline choose.
LEMMA LargestIs ==
  ASSUME NEW S \in SUBSET Int, NEW m \in S, \A y \in S : y <= m
  PROVE  Largest(S) = m
<1>1. \A x \in S : (\A y \in S : y <= x) => x = m
  OBVIOUS
<1>2. (CHOOSE x \in S : \A y \in S : y <= x) = m
  BY <1>1
<1> QED
  BY <1>2 DEF Largest

LEMMA LeastIs ==
  ASSUME NEW S \in SUBSET Int, NEW m \in S, \A y \in S : m <= y
  PROVE  Least(S) = m
<1>1. \A x \in S : (\A y \in S : x <= y) => x = m
  OBVIOUS
<1>2. (CHOOSE x \in S : \A y \in S : x <= y) = m
  BY <1>1
<1> QED
  BY <1>2 DEF Least

-----------------------------------------------------------------------------
(* What advance(), select() and the properties compute.                    *)

MotionFrames == [at : Nat, until : Nat, generation : Nat]

\* advance() drops a beginning: what is left begins with a frame that has begun, and what
\* follows has not.
LEMMA AdvancedIs ==
  ASSUME NEW frames \in Seq(MotionFrames), NEW sample \in Nat
  PROVE  \E k \in Nat :
           /\ k = 0 \/ (k + 1 \in DOMAIN frames /\ frames[k + 1].at <= sample)
           /\ Advanced(frames, sample) \in Seq(MotionFrames)
           /\ Len(Advanced(frames, sample)) = Len(frames) - k
           /\ \A i \in 1..(Len(frames) - k) : Advanced(frames, sample)[i] = frames[i + k]
           /\ \A i \in DOMAIN frames : i > k + 1 => frames[i].at > sample
<1> DEFINE begun == {i \in 2..Len(frames) : frames[i].at <= sample}
<1>0. Len(frames) \in Nat /\ DOMAIN frames = 1..Len(frames)
  OBVIOUS
<1>f. \A i \in DOMAIN frames : frames[i] \in MotionFrames /\ frames[i].at \in Nat
  <2>1. \A i \in DOMAIN frames : frames[i] \in MotionFrames
    OBVIOUS
  <2> QED
    BY <2>1 DEF MotionFrames
<1>1. CASE begun = {}
  <2>1. Advanced(frames, sample) = frames
    BY <1>1 DEF Advanced
  <2>2. \A i \in DOMAIN frames : i > 0 + 1 => frames[i].at > sample
    BY <1>0, <1>1, <1>f
  <2>3. /\ Advanced(frames, sample) \in Seq(MotionFrames)
        /\ Len(Advanced(frames, sample)) = Len(frames) - 0
        /\ \A i \in 1..(Len(frames) - 0) : Advanced(frames, sample)[i] = frames[i + 0]
    BY <1>0, <2>1
  <2> QED
    BY <2>2, <2>3
<1>2. CASE begun # {}
  <2>1. begun \in SUBSET Nat /\ \A i \in begun : i <= Len(frames)
    BY <1>0
  <2>2. PICK m \in begun : \A j \in begun : j <= m
    BY <1>0, <1>2, <2>1, GreatestOf
  <2>3. (CHOOSE i \in begun : \A j \in begun : j <= i) = m
    BY <2>1, <2>2, LargestIs DEF Largest
  <2>4. Advanced(frames, sample) = SubSeq(frames, m, Len(frames))
    BY <1>2, <2>3 DEF Advanced
  <2>5. m \in 2..Len(frames) /\ frames[m].at <= sample
    OBVIOUS
  <2>6. /\ SubSeq(frames, m, Len(frames)) \in Seq(MotionFrames)
        /\ Len(SubSeq(frames, m, Len(frames))) = Len(frames) - (m - 1)
        /\ \A i \in 1..(Len(frames) - (m - 1)) : SubSeq(frames, m,
             Len(frames))[i] = frames[i + (m - 1)]
    <3> HIDE DEF begun
    <3>1. m \in 1..(Len(frames) + 1) /\ Len(frames) \in (m - 1)..Len(frames)
      BY <1>0, <2>5
    <3>2. /\ SubSeq(frames, m, Len(frames)) \in Seq(MotionFrames)
          /\ Len(SubSeq(frames, m, Len(frames))) = Len(frames) - m + 1
          /\ \A i \in 1..(Len(frames) - m + 1) : SubSeq(frames, m,
               Len(frames))[i] = frames[m + i - 1]
      BY <3>1, SubSeqProperties
    <3> QED
      BY <1>0, <2>5, <3>2
  <2>7. \A i \in DOMAIN frames : i > m => frames[i].at > sample
    BY <1>0, <1>f, <2>2, <2>5
  <2>8. m - 1 \in Nat /\ m - 1 + 1 = m
    BY <2>5
  <2>9. m \in DOMAIN frames
    BY <1>0, <2>5
  <2> HIDE DEF begun
  <2> QED
    BY <2>4, <2>5, <2>6, <2>7, <2>8, <2>9
<1> QED
  BY <1>1, <1>2

\* An answer out of nothing, or past the end, is that there is none.
LEMMA AnswerNone ==
  ASSUME NEW sample, NEW c, NEW d, NEW m, NEW n,
         c = NoFrame \/ sample > c.until, d = NoFrame \/ sample > d.until
  PROVE  Answer(sample, c, m) = Answer(sample, d, n)
<1>1. Answer(sample, c, m) = [at |-> sample, how |-> "none", left |-> -1, right |-> -1]
  BY DEF Answer
<1>2. Answer(sample, d, n) = [at |-> sample, how |-> "none", left |-> -1, right |-> -1]
  BY DEF Answer
<1> QED
  BY <1>1, <1>2

LEMMA AnswerAt == ASSUME NEW sample, NEW c, NEW n PROVE Answer(sample, c, n).at = sample
  BY DEF Answer

\* The reference answers, as functions of what came.
CurrentIn(came, sample) ==
  LET begun == {f.at : f \in {g \in came : g.at <= sample}}
  IN  IF begun = {} THEN NoFrame ELSE CHOOSE f \in came : f.at = Largest(begun)
NextIn(came, sample) ==
  LET later == {f.at : f \in {g \in came : g.at > sample}}
  IN  IF later = {} THEN NoFrame ELSE CHOOSE f \in came : f.at = Least(later)
ReferenceIn(came, sample) == Answer(sample, CurrentIn(came, sample), NextIn(came, sample))
DueIn(came, at, before) ==
  LET candidates == {s \in came : before < s /\ s <= at /\ at < s + FrameTime}
  IN  IF candidates = {} THEN -1 ELSE Largest(candidates)

IsCurrent(c, came, sample) ==
  \/ c = NoFrame /\ \A f \in came : ~(f.at <= sample)
  \/ c \in came /\ c.at <= sample /\ \A f \in came : f.at <= sample => f.at <= c.at
IsNext(n, came, sample) ==
  \/ n = NoFrame /\ \A f \in came : ~(f.at > sample)
  \/ n \in came /\ n.at > sample /\ \A f \in came : f.at > sample => n.at <= f.at

\* They are what IsCurrent and IsNext say, where these determine it.
LEMMA ReferenceIs ==
  ASSUME NEW came \in SUBSET MotionFrames, NEW sample \in Nat,
         \A f, g \in came : f.at = g.at => f = g,
         NEW c, IsCurrent(c, came, sample), NEW n, IsNext(n, came, sample)
  PROVE  ReferenceIn(came, sample) = Answer(sample, c, n)
<1> DEFINE begun == {f.at : f \in {g \in came : g.at <= sample}}
           later == {f.at : f \in {g \in came : g.at > sample}}
<1>0. \A f \in came : f.at \in Nat
  BY DEF MotionFrames
<1>1. CurrentIn(came, sample) = c
  <2>1. CASE c = NoFrame /\ \A f \in came : ~(f.at <= sample)
    <3>1. begun = {}
      BY <2>1
    <3> QED
      BY <2>1, <3>1 DEF CurrentIn
  <2>2. CASE c \in came /\ c.at <= sample /\ \A f \in came : f.at <= sample => f.at <= c.at
    <3>1. begun \in SUBSET Int /\ c.at \in begun /\ \A y \in begun : y <= c.at
      BY <1>0, <2>2
    <3>2. Largest(begun) = c.at
      BY <3>1, LargestIs
    <3>3. begun # {}
      BY <3>1
    <3> HIDE DEF begun
    <3>4. (CHOOSE f \in came : f.at = c.at) = c
      BY <2>2
    <3>5. CurrentIn(came,
            sample) = IF begun = {} THEN NoFrame ELSE CHOOSE f \in came : f.at = Largest(begun)
      BY DEF CurrentIn, begun
    <3> QED
      BY <3>2, <3>3, <3>4, <3>5
  <2> QED
    BY <2>1, <2>2 DEF IsCurrent
<1>2. NextIn(came, sample) = n
  <2>1. CASE n = NoFrame /\ \A f \in came : ~(f.at > sample)
    <3>1. later = {}
      BY <2>1
    <3> QED
      BY <2>1, <3>1 DEF NextIn
  <2>2. CASE n \in came /\ n.at > sample /\ \A f \in came : f.at > sample => n.at <= f.at
    <3>1. later \in SUBSET Int /\ n.at \in later /\ \A y \in later : n.at <= y
      BY <1>0, <2>2
    <3>2. Least(later) = n.at
      BY <3>1, LeastIs
    <3>3. later # {}
      BY <3>1
    <3> HIDE DEF later
    <3>4. (CHOOSE f \in came : f.at = n.at) = n
      BY <2>2
    <3>5. NextIn(came,
            sample) = IF later = {} THEN NoFrame ELSE CHOOSE f \in came : f.at = Least(later)
      BY DEF NextIn, later
    <3> QED
      BY <3>2, <3>3, <3>4, <3>5
  <2> QED
    BY <2>1, <2>2 DEF IsNext
<1> QED
  BY <1>1, <1>2 DEF ReferenceIn

\* There is always a current frame, or none, and a next one, or none.
LEMMA CurrentExists ==
  ASSUME NEW came \in SUBSET MotionFrames, NEW sample \in Nat
  PROVE  \E c : IsCurrent(c, came, sample)
<1> DEFINE begun == {f.at : f \in {g \in came : g.at <= sample}}
<1>0. \A f \in came : f.at \in Nat
  BY DEF MotionFrames
<1>1. CASE begun = {}
  <2>1. \A f \in came : ~(f.at <= sample)
    BY <1>1
  <2> QED
    BY <2>1 DEF IsCurrent
<1>2. CASE begun # {}
  <2>1. begun \in SUBSET Nat /\ \A x \in begun : x <= sample
    BY <1>0
  <2>2. PICK m \in begun : \A y \in begun : y <= m
    <3> HIDE DEF begun
    <3> QED
      BY <1>2, <2>1, GreatestOf
  <2>3. PICK c \in came : c.at <= sample /\ m = c.at
    BY <2>2
  <2>4. \A f \in came : f.at <= sample => f.at <= c.at
    BY <2>2, <2>3
  <2> QED
    BY <2>3, <2>4 DEF IsCurrent
<1> QED
  BY <1>1, <1>2

\* And a next one, or none.
LEMMA NextExists ==
  ASSUME NEW came \in SUBSET MotionFrames, NEW sample \in Nat
  PROVE  \E n : IsNext(n, came, sample)
<1> DEFINE later == {f.at : f \in {g \in came : g.at > sample}}
<1>0. \A f \in came : f.at \in Nat
  BY DEF MotionFrames
<1>1. CASE later = {}
  <2>1. \A f \in came : ~(f.at > sample)
    BY <1>1
  <2> QED
    BY <2>1 DEF IsNext
<1>2. CASE later # {}
  <2>1. later \in SUBSET Nat
    BY <1>0
  <2>2. PICK m \in later : \A y \in later : m <= y
    <3> HIDE DEF later
    <3> QED
      BY <1>2, <2>1, LeastOf
  <2>3. PICK n \in came : n.at > sample /\ m = n.at
    BY <2>2
  <2>4. \A f \in came : f.at > sample => n.at <= f.at
    BY <2>2, <2>3
  <2> QED
    BY <2>3, <2>4 DEF IsNext
<1> QED
  BY <1>1, <1>2

\* take_due() drops a beginning of the mailbox: all that has begun, and nothing else.
LEMMA LaterIs ==
  ASSUME NEW pictures \in Seq(Nat), playhead \in Nat,
         \A i, j \in DOMAIN pictures : i < j => pictures[i] < pictures[j]
  PROVE  \E k \in Nat :
           /\ k <= Len(pictures) /\ Later(pictures) \in Seq(Nat)
           /\ Len(Later(pictures)) = Len(pictures) - k
           /\ \A i \in 1..(Len(pictures) - k) : Later(pictures)[i] = pictures[i + k]
           /\ \A i \in DOMAIN pictures : i <= k <=> pictures[i] <= playhead
<1> DEFINE S == {i \in 1..Len(pictures) : pictures[i] <= playhead}
<1>0. Len(pictures) \in Nat /\ DOMAIN pictures = 1..Len(pictures)
  OBVIOUS
<1>1. \A i \in DOMAIN pictures : pictures[i] \in Nat
  OBVIOUS
<1>2. \E k \in Nat : k <= Len(pictures) /\ Cardinality(S) = k
                       /\ \A i \in DOMAIN pictures : i <= k <=> pictures[i] <= playhead
  <2>1. CASE S = {}
    <3>1. Cardinality(S) = 0
      BY <2>1, FS_EmptySet
    <3>2. \A i \in DOMAIN pictures : i <= 0 <=> pictures[i] <= playhead
      BY <1>0, <2>1
    <3> HIDE DEF S
    <3> QED
      BY <1>0, <3>1, <3>2
  <2>2. CASE S # {}
    <3>1. S \in SUBSET Nat /\ \A x \in S : x <= Len(pictures)
      BY <1>0
    <3>2. PICK m \in S : \A j \in S : j <= m
      <4> HIDE DEF S
      <4> QED
        BY <1>0, <2>2, <3>1, GreatestOf
    <3>3. m \in 1..Len(pictures) /\ pictures[m] <= playhead
      OBVIOUS
    <3>4. \A i \in DOMAIN pictures : i <= m <=> pictures[i] <= playhead
      BY <1>0, <1>1, <3>2, <3>3
    <3>5. S = 1..m
      BY <1>0, <3>3, <3>4
    <3>6. Cardinality(1..m) = m
      BY <3>3, FS_Interval
    <3> HIDE DEF S
    <3> QED
      BY <1>0, <3>3, <3>4, <3>5, <3>6
  <2> QED
    BY <2>1, <2>2
<1>3. PICK k \in Nat : k <= Len(pictures) /\ Cardinality(S) = k
                         /\ \A i \in DOMAIN pictures : i <= k <=> pictures[i] <= playhead
  BY <1>2
<1>4. Later(pictures) = SubSeq(pictures, k + 1, Len(pictures))
  BY <1>3 DEF Later
<1>5. k + 1 \in 1..(Len(pictures) + 1) /\ Len(pictures) \in (k + 1 - 1)..Len(pictures)
  BY <1>0, <1>3
<1>6. /\ SubSeq(pictures, k + 1, Len(pictures)) \in Seq(Nat)
      /\ Len(SubSeq(pictures, k + 1, Len(pictures))) = Len(pictures) - (k + 1) + 1
      /\ \A i \in 1..(Len(pictures) - (k + 1) + 1) :
           SubSeq(pictures, k + 1, Len(pictures))[i] = pictures[k + 1 + i - 1]
  BY <1>5, SubSeqProperties
<1> HIDE DEF S
<1>7. Len(pictures) - (k + 1) + 1 = Len(pictures) - k
  BY <1>0
<1>8. \A i \in 1..(Len(pictures) - k) : Later(pictures)[i] = pictures[i + k]
  <2> SUFFICES ASSUME NEW i \in 1..(Len(pictures) - k) PROVE Later(pictures)[i] = pictures[i + k]
    OBVIOUS
  <2>1. k + 1 + i - 1 = i + k
    BY <1>0
  <2> QED
    BY <1>4, <1>6, <1>7, <2>1
<1> QED
  BY <1>3, <1>4, <1>6, <1>7, <1>8

\* The picture it returns is the newest one that is due, out of all that came.
LEMMA TakeFromIs ==
  ASSUME NEW pictures \in Seq(Nat), playhead \in Nat, NEW came \in SUBSET Nat, NEW before \in Int,
         \A i, j \in DOMAIN pictures : i < j => pictures[i] < pictures[j],
         \A i \in DOMAIN pictures : pictures[i] \in came /\ pictures[i] > before,
         \A p \in came : \/ \E i \in DOMAIN pictures : pictures[i] = p
                         \/ p + FrameTime <= playhead
                         \/ p <= before
  PROVE  /\ TakeFrom(pictures) = DueIn(came, playhead, before)
         /\ \/ /\ TakeFrom(pictures) = -1
               /\ \A p \in came : before < p /\ p <= playhead => p + FrameTime <= playhead
            \/ /\ TakeFrom(pictures) \in came /\ TakeFrom(pictures) > before
               /\ TakeFrom(pictures) <= playhead
               /\ \A p \in came : p <= playhead
                    /\ p > TakeFrom(pictures) => p + FrameTime <= playhead
<1> DEFINE C == {i \in 1..Len(pictures) :
                   pictures[i] <= playhead /\ playhead < pictures[i] + FrameTime}
           D == {s \in came : before < s /\ s <= playhead /\ playhead < s + FrameTime}
<1>0. Len(pictures) \in Nat /\ DOMAIN pictures = 1..Len(pictures) /\ FrameTime \in Nat
  BY MotionAssumption
<1>1. \A i \in DOMAIN pictures : pictures[i] \in Nat
  OBVIOUS
<1>2. \A s \in D : \E i \in C : pictures[i] = s
  BY <1>0, <1>1
<1>3. \A i \in C : pictures[i] \in D
  BY <1>0, <1>1
<1>4. DueIn(came, playhead, before) = IF D = {} THEN -1 ELSE Largest(D)
  BY DEF DueIn
<1>5. TakeFrom(pictures) = IF C = {} THEN -1 ELSE pictures[Largest(C)]
  BY DEF TakeFrom, Largest
<1>6. CASE C = {}
  <2>1. D = {}
    BY <1>2, <1>6
  <2>2. \A p \in came : before < p /\ p <= playhead => p + FrameTime <= playhead
    BY <1>0, <2>1
  <2> HIDE DEF C, D
  <2> QED
    BY <1>4, <1>5, <1>6, <2>1, <2>2
<1>7. CASE C # {}
  <2>1. C \in SUBSET Nat /\ \A x \in C : x <= Len(pictures)
    BY <1>0
  <2>2. PICK m \in C : \A j \in C : j <= m
    <3> HIDE DEF C
    <3> QED
      BY <1>0, <1>7, <2>1, GreatestOf
  <2>3. Largest(C) = m
    <3> HIDE DEF C
    <3> QED
      BY <2>1, <2>2, LargestIs
  <2>4. pictures[m] \in D
    BY <1>3
  <2>5. ASSUME NEW y \in D PROVE y <= pictures[m]
    <3>1. PICK i \in C : pictures[i] = y
      BY <1>2
    <3>2. i <= m /\ i \in DOMAIN pictures /\ m \in DOMAIN pictures
      BY <1>0, <2>2
    <3>3. i = m \/ i < m
      BY <1>0, <3>2
    <3>4. pictures[i] \in Nat /\ pictures[m] \in Nat
      BY <1>1, <3>2
    <3> QED
      BY <3>1, <3>2, <3>3, <3>4
  <2>6. Largest(D) = pictures[m]
    <3>1. D \in SUBSET Int
      <4>1. D \subseteq came
        OBVIOUS
      <4> HIDE DEF D
      <4> QED
        BY <4>1
    <3> HIDE DEF C, D
    <3> QED
      BY <2>4, <2>5, <3>1, LargestIs
  <2>7. /\ pictures[m] \in came /\ pictures[m] > before /\ pictures[m] <= playhead
        /\ \A p \in came : p <= playhead /\ p > pictures[m] => p + FrameTime <= playhead
    <3>1. pictures[m] \in came /\ pictures[m] > before /\ pictures[m] <= playhead
      BY <2>4
    <3>2. ASSUME NEW p \in came, p <= playhead, p > pictures[m] PROVE p + FrameTime <= playhead
      <4>1. p \notin D
        BY <2>5, <3>1, <3>2
      <4>2. before < p
        BY <3>1, <3>2
      <4> QED
        BY <1>0, <3>2, <4>1, <4>2
    <3> QED
      BY <3>1, <3>2
  <2> HIDE DEF C, D
  <2> QED
    BY <1>4, <1>5, <1>7, <2>3, <2>4, <2>6, <2>7
<1> QED
  BY <1>6, <1>7

-----------------------------------------------------------------------------
(* The inductive invariant.                                                *)

\* Every variable the proof needs has its type.
MotionShapes ==
  /\ generation \in Nat /\ cancelled \in BOOLEAN
  /\ timeline \in Seq(MotionFrames) /\ pushed \subseteq MotionFrames /\ lastSample \in Int
  /\ aim \in Nat /\ reach \in Nat /\ playhead \in Nat
  /\ inferred # NoFrame => inferred \in MotionFrames
BoxShapes ==
  /\ box \in Seq(Nat) /\ submitted \subseteq Nat /\ lastPts \in Int /\ lastPts >= -1
       /\ shown \in Int
  /\ drawn # NoPicture => drawn.pts \in Nat

\* What was pushed lies one after the other, and what inference holds comes after all of it.
MotionTrack ==
  /\ \A f \in pushed : f.at <= lastSample /\ f.at <= f.until /\ f.until <= reach
  /\ \A f, g \in pushed : f.at < g.at => f.until <= g.at
  /\ \A f, g \in pushed : f.at = g.at => f = g
  /\ inferred # NoFrame => inferred.generation <= generation
  /\ inferred # NoFrame /\ inferred.generation = generation =>
       /\ inferred.at <= inferred.until /\ inferred.until <= reach
       /\ \A f \in pushed : f.until <= inferred.at

\* A cancelled generation has nothing left.
MotionSilence ==
  cancelled => timeline = <<>> /\ pushed = {} /\ box = <<>> /\ submitted = {} /\ shown = -1

\* The timeline is in order; what is not in it any more has run out before the position that
\* is drawn, or has a successor that has begun.
TimelineKeeps ==
  /\ \A i \in DOMAIN timeline : timeline[i] \in pushed /\ timeline[i].generation = generation
  /\ \A i, j \in DOMAIN timeline : i < j => timeline[i].at < timeline[j].at
  /\ \A f \in pushed : \/ \E i \in DOMAIN timeline : timeline[i] = f
                       \/ f.until < aim
                       \/ \E i \in DOMAIN timeline : f.at < timeline[i].at /\ timeline[i].at <= aim

\* The mailbox is in order; what is not in it has run out, or was shown or passed over.
BoxKeeps ==
  /\ \A p \in submitted : p <= lastPts
  /\ shown <= lastPts
  /\ \A i \in DOMAIN box : box[i] \in submitted /\ box[i] > shown
  /\ \A i, j \in DOMAIN box : i < j => box[i] < box[j]
  /\ \A p \in submitted : \/ \E i \in DOMAIN box : box[i] = p
                          \/ p + FrameTime <= playhead
                          \/ p <= shown

\* The two answers are those of the properties, in whichever state they are looked at.
Answers ==
  /\ selected # Unasked => selected = ReferenceIn(pushed, selected.at)
  /\ due # Untaken => due.pts = DueIn(submitted, due.at, due.before)

MotionIInv ==
  /\ MotionShapes /\ BoxShapes /\ MotionTrack /\ MotionSilence
  /\ TimelineKeeps /\ BoxKeeps /\ Answers

-----------------------------------------------------------------------------
\* The constants as the steps need them.
LEMMA MotionConstants == Spans \subseteq Nat /\ FrameTime \in Nat /\ FrameTime >= 1
  BY MotionAssumption

\* What inference makes follows all that was made before.
LEMMA Inferred ==
  ASSUME MotionShapes, Infer
  PROVE  \E a, b \in Nat :
           /\ a >= reach /\ b >= a /\ reach' = b
           /\ inferred' = [at |-> a, until |-> b, generation |-> generation]
           /\ UNCHANGED <<generation, cancelled, timeline, lastSample, aim, box, lastPts, playhead,
                          drawn, pushed, selected, submitted, shown, due>>
<1>1. PICK gap \in Spans \cup {0}, span \in Spans :
        /\ inferred' = [at |-> reach + gap, until |-> reach + gap + span, generation |-> generation]
        /\ reach' = reach + gap + span
  BY DEF Infer
<1>2. gap \in Nat /\ span \in Nat /\ reach \in Nat
  BY MotionConstants DEF MotionShapes
<1>3. reach + gap \in Nat /\ reach + gap + span \in Nat /\ reach + gap >= reach
      /\ reach + gap + span >= reach + gap
  BY <1>2
<1>4. UNCHANGED <<generation, cancelled, timeline, lastSample, aim, box, lastPts, playhead,
                  drawn, pushed, selected, submitted, shown, due>>
  BY DEF Infer
<1> QED
  BY <1>1, <1>3, <1>4

\* A hand-over to the timeline: refused, not kept because it is past, or appended.
LEMMA Pushed ==
  ASSUME MotionShapes, Push
  PROVE  /\ inferred # NoFrame /\ inferred' = NoFrame
         /\ UNCHANGED <<generation, cancelled, aim, box, lastPts, playhead, reach, drawn, submitted,
                        shown, due>>
         /\ \/ UNCHANGED <<timeline, lastSample, pushed, selected>>
            \/ /\ ~cancelled /\ inferred.generation = generation /\ inferred.at > lastSample
               /\ lastSample' = inferred.at /\ pushed' = pushed \cup {inferred}
               /\ selected' = Unasked
               /\ \/ inferred.until < aim /\ timeline' = timeline
                  \/ timeline' = Append(timeline, inferred)
  BY Zenon DEF Push, PushStale, PushFits

\* A sequence and one item more.
LEMMA Appended ==
  ASSUME NEW S, NEW s \in Seq(S), NEW x \in S
  PROVE  /\ Append(s, x) \in Seq(S) /\ Len(s) \in Nat
         /\ DOMAIN Append(s, x) = 1..(Len(s) + 1) /\ DOMAIN s = 1..Len(s)
         /\ \A i \in DOMAIN s : i \in DOMAIN Append(s, x) /\ i <= Len(s) /\ Append(s, x)[i] = s[i]
         /\ Len(s) + 1 \in DOMAIN Append(s, x) /\ Append(s, x)[Len(s) + 1] = x
         /\ \A i \in DOMAIN Append(s, x) : i \in DOMAIN s \/ i = Len(s) + 1
  OBVIOUS

\* A selection drops a beginning of the timeline and answers out of what is left.
LEMMA Selected ==
  ASSUME MotionShapes, NEW sample \in aim..Horizon, Select(sample)
  PROVE  /\ sample \in Nat /\ sample >= aim /\ aim' = sample
         /\ timeline' = Advanced(timeline, sample)
         /\ selected' = IF cancelled \/ timeline' = <<>> \/ timeline'[1].at > sample
                        THEN Answer(sample, NoFrame, NoFrame)
                        ELSE Answer(sample, timeline'[1],
                          IF Len(timeline') > 1 THEN timeline'[2] ELSE NoFrame)
         /\ UNCHANGED <<generation, cancelled, lastSample, box, lastPts, playhead, inferred, reach,
                        pushed, submitted, shown, due>>
         /\ drawn' = [pts |-> sample, generation |-> generation] \/ drawn' = NoPicture
<1>1. sample \in Nat /\ sample >= aim
  BY MotionAssumption DEF MotionShapes
<1>2. timeline' = Advanced(timeline, sample) /\ selected' = SelectFrom(timeline', sample)
        /\ aim' = sample
  BY DEF Select
<1>3. selected' = IF cancelled \/ timeline' = <<>> \/ timeline'[1].at > sample
                        THEN Answer(sample, NoFrame, NoFrame)
                        ELSE Answer(sample, timeline'[1],
                          IF Len(timeline') > 1 THEN timeline'[2] ELSE NoFrame)
  BY <1>2 DEF SelectFrom
<1>4. /\ UNCHANGED <<generation, cancelled, lastSample, box, lastPts, playhead, inferred, reach,
                        pushed, submitted, shown, due>>
      /\ drawn' = [pts |-> sample, generation |-> generation] \/ drawn' = NoPicture
  BY DEF Select
<1> QED
  BY <1>1, <1>2, <1>3, <1>4

\* A hand-over to the mailbox: refused, not kept because its time is over, or appended.
LEMMA Handed ==
  ASSUME BoxShapes, Submit
  PROVE  /\ drawn' = NoPicture
         /\ UNCHANGED <<generation, cancelled, timeline, lastSample, aim, playhead, inferred, reach,
                        pushed, selected, shown>>
         /\ \/ UNCHANGED <<box, lastPts, submitted, due>>
            \/ /\ ~cancelled /\ drawn.pts \in Nat /\ drawn.pts > lastPts
               /\ lastPts' = drawn.pts /\ submitted' = submitted \cup {drawn.pts} /\ due' = Untaken
               /\ \/ drawn.pts + FrameTime <= playhead /\ box' = box
                  \/ box' = Append(box, drawn.pts)
  BY DEF Submit, SubmitStale, SubmitFits, BoxShapes

\* What the mailbox gives, and what is left in it.
LEMMA Taken ==
  ASSUME MotionShapes, BoxShapes, MotionSilence, BoxKeeps, TakeDue
  PROVE
              /\ UNCHANGED <<generation, cancelled, timeline, lastSample, aim, lastPts, playhead,
                   inferred,
                        reach, drawn, pushed, selected, submitted>>
         /\ due' = [at |-> playhead, pts |-> DueIn(submitted, playhead, shown), before |-> shown]
         /\ \E k \in Nat :
              /\ k <= Len(box) /\ box' \in Seq(Nat) /\ Len(box') = Len(box) - k
              /\ \A i \in 1..(Len(box) - k) : box'[i] = box[i + k]
              /\ \A i \in DOMAIN box : i <= k <=> box[i] <= playhead
         /\ \/ /\ shown' = shown
               /\ \A p \in submitted : shown < p /\ p <= playhead => p + FrameTime <= playhead
            \/ /\ shown' \in submitted /\ shown' > shown /\ shown' <= playhead
               /\ \A p \in submitted : p <= playhead /\ p > shown' => p + FrameTime <= playhead
<1>1. /\ box' = Later(box)
      /\ due' = [at |-> playhead, pts |-> IF cancelled THEN -1 ELSE TakeFrom(box), before |-> shown]
      /\ shown' = IF due'.pts >= 0 THEN due'.pts ELSE shown
      /\ UNCHANGED <<generation, cancelled, timeline, lastSample, aim, lastPts, playhead, inferred,
                        reach, drawn, pushed, selected, submitted>>
  BY DEF TakeDue
<1>2. box \in Seq(Nat) /\ playhead \in Nat /\ submitted \in SUBSET Nat /\ shown \in Int
  BY DEF BoxShapes, MotionShapes
<1>3. /\ \A i, j \in DOMAIN box : i < j => box[i] < box[j]
      /\ \A i \in DOMAIN box : box[i] \in submitted /\ box[i] > shown
      /\ \A p \in submitted : \/ \E i \in DOMAIN box : box[i] = p
                              \/ p + FrameTime <= playhead
                              \/ p <= shown
  BY DEF BoxKeeps
<1>4. \E k \in Nat :
        /\ k <= Len(box) /\ box' \in Seq(Nat) /\ Len(box') = Len(box) - k
        /\ \A i \in 1..(Len(box) - k) : box'[i] = box[i + k]
        /\ \A i \in DOMAIN box : i <= k <=> box[i] <= playhead
  BY <1>1, <1>2, <1>3, LaterIs
<1>5. /\ TakeFrom(box) = DueIn(submitted, playhead, shown)
      /\ \/ /\ TakeFrom(box) = -1
            /\ \A p \in submitted : shown < p /\ p <= playhead => p + FrameTime <= playhead
         \/ /\ TakeFrom(box) \in submitted /\ TakeFrom(box) > shown
            /\ TakeFrom(box) <= playhead
            /\ \A p \in submitted : p <= playhead /\ p > TakeFrom(box) => p + FrameTime <= playhead
  <2> HIDE DEF Later, TakeFrom, DueIn
  <2> QED
    BY <1>2, <1>3, TakeFromIs
<1>6. cancelled => submitted = {} /\ TakeFrom(box) = -1
  BY <1>5 DEF MotionSilence
<1>7. due'.pts = TakeFrom(box)
      /\ due' = [at |-> playhead, pts |-> DueIn(submitted, playhead, shown), before |-> shown]
  BY <1>1, <1>5, <1>6
<1>8. \/ /\ shown' = shown
         /\ \A p \in submitted : shown < p /\ p <= playhead => p + FrameTime <= playhead
      \/ /\ shown' \in submitted /\ shown' > shown /\ shown' <= playhead
         /\ \A p \in submitted : p <= playhead /\ p > shown' => p + FrameTime <= playhead
  <2>1. CASE TakeFrom(box) = -1
    BY <1>1, <1>2, <1>5, <1>7, <2>1
  <2>2. CASE TakeFrom(box) # -1
    <3>1. TakeFrom(box) \in Nat
      BY <1>2, <1>5, <2>2
    <3>2. shown' = TakeFrom(box)
      BY <1>1, <1>7, <3>1
    <3> QED
      BY <1>5, <2>2, <3>2
  <2> QED
    BY <2>1, <2>2
<1> QED
  BY <1>1, <1>4, <1>7, <1>8

\* A selection out of what is left in the timeline is the one out of everything that came.
LEMMA SelectionIsRight ==
  ASSUME MotionIInv, NEW sample \in aim..Horizon, Select(sample)
  PROVE  selected' = ReferenceIn(pushed, sample) /\ selected'.at = sample
<1> USE DEF MotionIInv
<1>1. /\ sample \in Nat /\ sample >= aim /\ timeline' = Advanced(timeline, sample)
      /\ selected' = IF cancelled \/ timeline' = <<>> \/ timeline'[1].at > sample
                     THEN Answer(sample, NoFrame, NoFrame)
                     ELSE Answer(sample, timeline'[1],
                       IF Len(timeline') > 1 THEN timeline'[2] ELSE NoFrame)
  BY Selected
<1>2. pushed \in SUBSET MotionFrames /\ timeline \in Seq(MotionFrames) /\ aim \in Nat
  BY DEF MotionShapes
<1>3. \A f, g \in pushed : f.at = g.at => f = g
  BY DEF MotionTrack
<1>4. \A f \in pushed : f.at \in Nat /\ f.until \in Nat /\ f.at <= f.until
  BY <1>2 DEF MotionFrames, MotionTrack
<1>5. PICK c : IsCurrent(c, pushed, sample)
  BY <1>1, <1>2, CurrentExists
<1>6. PICK n : IsNext(n, pushed, sample)
  BY <1>1, <1>2, NextExists
<1>7. ReferenceIn(pushed, sample) = Answer(sample, c, n)
  BY <1>1, <1>2, <1>3, <1>5, <1>6, ReferenceIs
<1>8. PICK k \in Nat :
        /\ k = 0 \/ (k + 1 \in DOMAIN timeline /\ timeline[k + 1].at <= sample)
        /\ timeline' \in Seq(MotionFrames) /\ Len(timeline') = Len(timeline) - k
        /\ \A i \in 1..(Len(timeline) - k) : timeline'[i] = timeline[i + k]
        /\ \A i \in DOMAIN timeline : i > k + 1 => timeline[i].at > sample
  BY <1>1, <1>2, AdvancedIs
<1>9. Len(timeline) \in Nat /\ DOMAIN timeline = 1..Len(timeline) /\ k \in Nat
  BY <1>2
<1>10. /\ \A i \in DOMAIN timeline : timeline[i] \in pushed /\ timeline[i].at \in Nat
       /\ \A i, j \in DOMAIN timeline : i < j => timeline[i].at < timeline[j].at
       /\ \A f \in pushed : \/ \E i \in DOMAIN timeline : timeline[i] = f
                            \/ f.until < aim
                            \/ \E i \in DOMAIN timeline : f.at < timeline[i].at
                                 /\ timeline[i].at <= aim
  BY <1>4 DEF TimelineKeeps
\* The current frame of all that came, if it is not in the timeline any more, has run out.
<1>11. \A x : x \in pushed /\ IsCurrent(x, pushed, sample) =>
         (\E i \in DOMAIN timeline : timeline[i] = x) \/ x.until < sample
  <2> SUFFICES ASSUME NEW x \in pushed, IsCurrent(x, pushed, sample),
                      \A i \in DOMAIN timeline : timeline[i] # x
               PROVE  x.until < sample
    BY <1>1
  <2>1. x # NoFrame => \A f \in pushed : f.at <= sample => f.at <= x.at
    BY DEF IsCurrent
  <2>2. x # NoFrame
    BY <1>4 DEF NoFrame
  <2>3. x.until < aim \/ \E i \in DOMAIN timeline : x.at < timeline[i].at /\ timeline[i].at <= aim
    BY <1>10
  <2>4. ASSUME NEW i \in DOMAIN timeline, x.at < timeline[i].at, timeline[i].at <= aim PROVE FALSE
    <3>1. timeline[i] \in pushed /\ timeline[i].at \in Nat /\ x.at \in Nat
      BY <1>4, <1>10
    <3>2. timeline[i].at <= sample
      BY <1>1, <1>2, <2>4, <3>1
    <3>3. timeline[i].at <= x.at
      BY <2>1, <2>2, <3>1, <3>2
    <3> QED
      BY <2>4, <3>1, <3>3
  <2>5. x.until < aim
    BY <2>3, <2>4
  <2> QED
    BY <1>1, <1>2, <1>4, <2>5
<1>12. IsCurrent(c, pushed, sample) => c = NoFrame \/ c \in pushed
  BY DEF IsCurrent
\* A frame still to come is in the timeline.
<1>13. \A f \in pushed : f.at > sample => \E i \in DOMAIN timeline : timeline[i] = f
  <2> SUFFICES ASSUME NEW f \in pushed,
        f.at > sample PROVE \E i \in DOMAIN timeline : timeline[i] = f
    OBVIOUS
  <2>1. f.at > aim /\ f.until > aim
    BY <1>1, <1>2, <1>4
  <2>2. ~(f.until < aim)
    BY <1>2, <1>4, <2>1
  <2>3. ~(\E i \in DOMAIN timeline : f.at < timeline[i].at /\ timeline[i].at <= aim)
    BY <1>2, <1>4, <1>10, <2>1
  <2> QED
    BY <1>10, <2>2, <2>3
<1>14. CASE cancelled
  <2>1. pushed = {}
    BY <1>14 DEF MotionSilence
  <2>2. c = NoFrame
    BY <1>5, <1>12, <2>1
  <2>3. selected' = Answer(sample, NoFrame, NoFrame)
    BY <1>1, <1>14
  <2>4. Answer(sample, NoFrame, NoFrame) = Answer(sample, c, n)
    BY <2>2, AnswerNone
  <2> QED
    BY <1>7, <2>3, <2>4, AnswerAt
<1>15. CASE ~cancelled /\ (timeline' = <<>> \/ timeline'[1].at > sample)
  <2>1. selected' = Answer(sample, NoFrame, NoFrame)
    BY <1>1, <1>15
  <2>2. \A i \in DOMAIN timeline : timeline[i].at > sample
    <3>1. CASE k # 0
      <4>1. k + 1 \in DOMAIN timeline /\ timeline[k + 1].at <= sample
        BY <1>8, <3>1
      <4>2. 1 \in 1..(Len(timeline) - k) /\ 1 + k = k + 1
        BY <1>9, <4>1
      <4>3. timeline'[1] = timeline[k + 1]
        BY <1>8, <4>2
      <4>4. timeline' # <<>>
        BY <1>8, <1>9, <4>2
      <4>5. timeline[k + 1].at > sample
        BY <1>15, <4>3, <4>4
      <4>6. timeline[k + 1].at \in Nat
        BY <1>10, <4>1
      <4> QED
        BY <1>1, <4>1, <4>5, <4>6
    <3>2. CASE k = 0
      <4>1. CASE timeline' = <<>>
        <5>1. Len(timeline) = 0
          BY <1>8, <1>9, <3>2, <4>1
        <5> QED
          BY <1>9, <5>1
      <4>2. CASE timeline' # <<>> /\ timeline'[1].at > sample
        <5> SUFFICES ASSUME NEW i \in DOMAIN timeline PROVE timeline[i].at > sample
          OBVIOUS
        <5>1. 1 \in 1..(Len(timeline) - k) /\ 1 + k = 1
          BY <1>9, <3>2
        <5>2. timeline'[1] = timeline[1]
          BY <1>8, <5>1
        <5>3. CASE i = 1
          BY <4>2, <5>2, <5>3
        <5>4. CASE i > k + 1
          BY <1>8, <5>4
        <5> QED
          BY <1>9, <3>2, <5>3, <5>4
      <4> QED
        BY <1>15, <4>1, <4>2
    <3> QED
      BY <3>1, <3>2
  <2>3. c = NoFrame \/ c.until < sample
    <3> SUFFICES ASSUME c # NoFrame PROVE c.until < sample
      OBVIOUS
    <3>1. c \in pushed /\ c.at <= sample
      BY <1>5 DEF IsCurrent
    <3>2. \A i \in DOMAIN timeline : timeline[i] # c
      BY <1>1, <1>4, <2>2, <3>1
    <3> QED
      BY <1>5, <1>11, <3>1, <3>2
  <2>4. c = NoFrame \/ sample > c.until
    BY <1>1, <1>4, <1>5, <1>12, <2>3
  <2>5. Answer(sample, NoFrame, NoFrame) = Answer(sample, c, n)
    BY <2>4, AnswerNone
  <2> QED
    BY <1>7, <2>1, <2>5, AnswerAt
<1>16. CASE ~cancelled /\ timeline' # <<>> /\ ~(timeline'[1].at > sample)
  <2> DEFINE head == timeline'[1]
             follower == IF Len(timeline') > 1 THEN timeline'[2] ELSE NoFrame
  <2>1. selected' = Answer(sample, head, follower)
    BY <1>1, <1>16
  <2>2. 1 \in 1..(Len(timeline) - k) /\ k + 1 \in DOMAIN timeline /\ timeline'[1] = timeline[k + 1]
    <3>1. Len(timeline') \in Nat /\ Len(timeline') # 0
      BY <1>8, <1>16, EmptySeq
    <3>2. 1 \in 1..(Len(timeline) - k) /\ k + 1 \in DOMAIN timeline /\ 1 + k = k + 1
      BY <1>8, <1>9, <3>1
    <3> QED
      BY <1>8, <3>2
  <2>3. head \in pushed /\ head.at \in Nat /\ head.until \in Nat /\ head.at <= sample
    BY <1>1, <1>4, <1>10, <1>16, <2>2
  <2>4. \A i \in DOMAIN timeline : timeline[i].at <= sample => timeline[i].at <= head.at
    <3> SUFFICES ASSUME NEW i \in DOMAIN timeline, timeline[i].at <= sample
                 PROVE  timeline[i].at <= timeline[k + 1].at
      BY <2>2
    <3>1. ~(timeline[i].at > sample) /\ timeline[i].at \in Nat /\ timeline[k + 1].at \in Nat
      BY <1>1, <1>10, <2>2
    <3>2. ~(i > k + 1)
      BY <1>8, <3>1
    <3>3. i = k + 1 \/ i < k + 1
      BY <1>9, <3>2
    <3> QED
      BY <1>10, <2>2, <3>1, <3>3
  <2>5. IsNext(follower, pushed, sample)
    <3>1. CASE Len(timeline') > 1
      <4>1. k + 2 \in DOMAIN timeline /\ k + 2 > k + 1 /\ 2 \in 1..(Len(timeline) - k)
              /\ 2 + k = k + 2
        BY <1>8, <1>9, <3>1
      <4>2. follower = timeline[k + 2]
        BY <1>8, <3>1, <4>1
      <4>3. timeline[k + 2] \in pushed /\ timeline[k + 2].at > sample /\ timeline[k + 2].at \in Nat
        BY <1>8, <1>10, <4>1
      <4>4. ASSUME NEW f \in pushed, f.at > sample PROVE timeline[k + 2].at <= f.at
        <5>1. PICK i \in DOMAIN timeline : timeline[i] = f
          BY <1>13, <4>4
        <5>2. i > k + 1
          <6>1. ~(i = k + 1)
            BY <1>1, <2>2, <2>3, <4>4, <5>1
          <6>2. ~(i < k + 1)
            <7>1. i < k + 1 => timeline[i].at < timeline[k + 1].at
              BY <1>10, <2>2
            <7> QED
              BY <1>1, <1>4, <2>2, <2>3, <4>4, <5>1, <7>1
          <6> QED
            BY <1>9, <6>1, <6>2
        <5>3. i = k + 2 \/ k + 2 < i
          BY <1>9, <5>2
        <5>4. f.at \in Nat
          BY <1>4
        <5> QED
          BY <1>10, <4>1, <4>3, <5>1, <5>3, <5>4
      <4> QED
        BY <4>2, <4>3, <4>4 DEF IsNext
    <3>2. CASE ~(Len(timeline') > 1)
      <4>1. ASSUME NEW f \in pushed, f.at > sample PROVE FALSE
        <5>1. PICK i \in DOMAIN timeline : timeline[i] = f
          BY <1>13, <4>1
        <5>2. i <= k + 1
          BY <1>8, <1>9, <3>2
        <5>3. i = k + 1 \/ i < k + 1
          BY <1>9, <5>2
        <5>4. timeline[i].at <= timeline[k + 1].at
          <6>1. timeline[i].at \in Nat /\ timeline[k + 1].at \in Nat
            BY <1>10, <2>2
          <6> QED
            BY <1>10, <2>2, <5>3, <6>1
        <5> QED
          BY <1>1, <1>4, <2>2, <2>3, <4>1, <5>1, <5>4
      <4> QED
        BY <3>2, <4>1 DEF IsNext
    <3> QED
      BY <3>1, <3>2
  <2>6. c # NoFrame /\ c \in pushed /\ c.at <= sample /\ head.at <= c.at
    <3>1. ~\A f \in pushed : ~(f.at <= sample)
      BY <2>3
    <3>2. c \in pushed /\ c.at <= sample /\ \A f \in pushed : f.at <= sample => f.at <= c.at
      BY <1>5, <3>1 DEF IsCurrent
    <3>3. c # NoFrame
      BY <1>4, <3>2 DEF NoFrame
    <3> QED
      BY <2>3, <3>2, <3>3
  <2>7. CASE \E i \in DOMAIN timeline : timeline[i] = c
    <3>1. c.at <= head.at
      BY <2>4, <2>6, <2>7
    <3>2. c.at = head.at
      BY <1>4, <2>3, <2>6, <3>1
    <3>3. c = head
      BY <1>3, <2>3, <2>6, <3>2
    <3>4. ReferenceIn(pushed, sample) = Answer(sample, c, follower)
      <4> HIDE DEF follower
      <4> QED
        BY <1>1, <1>2, <1>3, <1>5, <2>5, ReferenceIs
    <3> QED
      BY <2>1, <3>3, <3>4, AnswerAt
  <2>8. CASE ~\E i \in DOMAIN timeline : timeline[i] = c
    <3>1. c.until < sample
      BY <1>5, <1>11, <2>6, <2>8
    <3>2. head # c
      BY <2>2, <2>8
    <3>3. head.at < c.at
      BY <1>3, <1>4, <2>3, <2>6, <3>2
    <3>4. head.until <= c.at
      BY <2>3, <2>6, <3>3 DEF MotionTrack
    <3>5. sample > c.until /\ sample > head.until
      BY <1>1, <1>4, <2>3, <2>6, <3>1, <3>4
    <3>6. Answer(sample, head, follower) = Answer(sample, c, n)
      <4> HIDE DEF head, follower
      <4> QED
        BY <3>5, AnswerNone
    <3> QED
      BY <1>7, <2>1, <3>6, AnswerAt
  <2> QED
    BY <2>7, <2>8
<1> QED
  BY <1>14, <1>15, <1>16

\* The initial states satisfy the invariant.
LEMMA MotBegins == MotionInit => MotionIInv
<1> SUFFICES ASSUME MotionInit PROVE MotionIInv
  OBVIOUS
<1>1. MotionShapes /\ BoxShapes
  <2>1. <<>> \in Seq(MotionFrames) /\ <<>> \in Seq(Nat)
    OBVIOUS
  <2>2. MotionShapes
    <3>1. generation \in Nat /\ cancelled \in BOOLEAN /\ timeline \in Seq(MotionFrames)
      BY <2>1 DEF MotionInit
    <3>2. pushed \subseteq MotionFrames /\ lastSample \in Int
      BY DEF MotionInit
    <3>3. aim \in Nat /\ reach \in Nat /\ playhead \in Nat /\ inferred = NoFrame
      BY DEF MotionInit
    <3> QED
      BY <3>1, <3>2, <3>3 DEF MotionShapes
  <2>3. BoxShapes
    BY <2>1 DEF MotionInit, BoxShapes
  <2> QED
    BY <2>2, <2>3
<1>2. MotionTrack /\ MotionSilence /\ TimelineKeeps /\ BoxKeeps
  BY DEF MotionInit, MotionTrack, MotionSilence, TimelineKeeps, BoxKeeps
<1>3. Answers
  BY DEF MotionInit, Answers
<1> QED
  BY <1>1, <1>2, <1>3 DEF MotionIInv

\* Every step keeps every part of it: one lemma per part, one step per action.
LEMMA MotionShapesKept == MotionIInv /\ [MotionNext]_motionVars => MotionShapes'
<1> SUFFICES ASSUME MotionIInv, [MotionNext]_motionVars PROVE MotionShapes'
  OBVIOUS
<1> USE DEF MotionIInv
<1>1. ASSUME Infer PROVE MotionShapes'
  <2>1. PICK a, b \in Nat :
          /\ reach' = b /\ inferred' = [at |-> a, until |-> b, generation |-> generation]
          /\ UNCHANGED <<generation, cancelled, timeline, lastSample, aim, playhead, pushed>>
    BY <1>1, Inferred
  <2>2. generation \in Nat
    BY DEF MotionShapes
  <2>3. inferred' \in MotionFrames
    BY <2>1, <2>2 DEF MotionFrames
  <2> QED
    BY <2>1, <2>3 DEF MotionShapes
<1>2. ASSUME Push PROVE MotionShapes'
  <2>1. /\ inferred' = NoFrame /\ UNCHANGED <<generation, cancelled, aim, playhead, reach>>
        /\ \/ UNCHANGED <<timeline, lastSample, pushed>>
           \/ /\ lastSample' = inferred.at /\ pushed' = pushed \cup {inferred}
              /\ timeline' = timeline \/ timeline' = Append(timeline, inferred)
    BY <1>2, Pushed
  <2>2. inferred \in MotionFrames /\ inferred.at \in Int
    <3>1. inferred \in MotionFrames
      BY <1>2, Pushed DEF MotionShapes
    <3> QED
      BY <3>1 DEF MotionFrames
  <2>3. timeline \in Seq(MotionFrames)
    BY DEF MotionShapes
  <2>4. Append(timeline, inferred) \in Seq(MotionFrames)
    BY <2>2, <2>3, Appended
  <2> QED
    BY <2>1, <2>2, <2>4 DEF MotionShapes
<1>3. ASSUME NEW sample \in aim..Horizon, Select(sample) PROVE MotionShapes'
  <2>1. /\ sample \in Nat /\ aim' = sample /\ timeline' = Advanced(timeline, sample)
        /\ UNCHANGED <<generation, cancelled, lastSample, playhead, inferred, reach, pushed>>
    BY <1>3, Selected
  <2>2. timeline \in Seq(MotionFrames)
    BY DEF MotionShapes
  <2>3. Advanced(timeline, sample) \in Seq(MotionFrames)
    BY <2>1, <2>2, AdvancedIs
  <2> QED
    BY <2>1, <2>3 DEF MotionShapes
<1>4. ASSUME Submit PROVE MotionShapes'
  BY <1>4 DEF Submit, SubmitStale, SubmitFits, MotionShapes, MotionFrames
<1>5. ASSUME TakeDue PROVE MotionShapes'
  BY <1>5 DEF TakeDue, MotionShapes, MotionFrames
<1>6. ASSUME PlayheadMoves PROVE MotionShapes'
  BY <1>6 DEF PlayheadMoves, MotionShapes, MotionFrames
<1>7. ASSUME CancelMotion PROVE MotionShapes'
  BY <1>7 DEF CancelMotion, MotionShapes, MotionFrames
<1>8. ASSUME NextGeneration PROVE MotionShapes'
  <2>1. /\ generation' = generation + 1 /\ cancelled' = FALSE /\ lastSample' = -1 /\ aim' = 0
        /\ playhead' = 0 /\ reach' = 0 /\ UNCHANGED <<timeline, inferred, pushed>>
    BY <1>8 DEF NextGeneration
  <2>2. generation' \in Nat /\ cancelled' \in BOOLEAN /\ lastSample' \in Int /\ aim' \in Nat
          /\ playhead' \in Nat
        /\ reach' \in Nat
    <3>1. generation \in Nat
      BY DEF MotionShapes
    <3>2. generation + 1 \in Nat
      BY <3>1
    <3>3. generation' \in Nat
      BY <2>1, <3>2
    <3>4. lastSample' \in Int
      BY <2>1
    <3>5. cancelled' \in BOOLEAN
      BY <2>1
    <3>6. aim' \in Nat /\ playhead' \in Nat /\ reach' \in Nat
      BY <2>1
    <3> QED
      BY <3>3, <3>4, <3>5, <3>6
  <2>3. timeline' \in Seq(MotionFrames) /\ pushed' \subseteq MotionFrames
    BY <2>1 DEF MotionShapes
  <2>4. inferred' # NoFrame => inferred' \in MotionFrames
    BY <2>1 DEF MotionShapes
  <2> QED
    BY <2>2, <2>3, <2>4 DEF MotionShapes
<1>9. ASSUME UNCHANGED motionVars PROVE MotionShapes'
  BY <1>9 DEF motionVars, MotionShapes, MotionFrames
<1> QED
  BY <1>1, <1>2, <1>3, <1>4, <1>5, <1>6, <1>7, <1>8, <1>9 DEF MotionNext

LEMMA BoxShapesKept == MotionIInv /\ [MotionNext]_motionVars => BoxShapes'
<1> SUFFICES ASSUME MotionIInv, [MotionNext]_motionVars PROVE BoxShapes'
  OBVIOUS
<1> USE DEF MotionIInv
<1>1. ASSUME Infer PROVE BoxShapes'
  BY <1>1 DEF Infer, BoxShapes, MotionShapes
<1>2. ASSUME Push PROVE BoxShapes'
  BY <1>2 DEF Push, PushStale, PushFits, BoxShapes, MotionShapes
<1>3. ASSUME NEW sample \in aim..Horizon, Select(sample) PROVE BoxShapes'
  BY <1>3 DEF Select, BoxShapes, MotionShapes
<1>4. ASSUME Submit PROVE BoxShapes'
  <2>1. /\ drawn' = NoPicture /\ shown' = shown
        /\ \/ UNCHANGED <<box, lastPts, submitted>>
           \/ /\ drawn.pts \in Nat /\ lastPts' = drawn.pts
                   /\ submitted' = submitted \cup {drawn.pts}
              /\ box' = box \/ box' = Append(box, drawn.pts)
    BY <1>4, Handed
  <2>2. box \in Seq(Nat)
    BY DEF BoxShapes
  <2>3. drawn.pts \in Nat => Append(box, drawn.pts) \in Seq(Nat)
    BY <2>2, Appended
  <2>4. lastPts' \in Int /\ lastPts' >= -1 /\ shown' \in Int
    BY <2>1 DEF BoxShapes
  <2>5. box' \in Seq(Nat)
    BY <2>1, <2>2, <2>3
  <2>6. submitted' \subseteq Nat
    BY <2>1 DEF BoxShapes
  <2> QED
    BY <2>1, <2>4, <2>5, <2>6 DEF BoxShapes
<1>5. ASSUME TakeDue PROVE BoxShapes'
  <2>1. /\ UNCHANGED <<lastPts, drawn, submitted>> /\ box' \in Seq(Nat)
        /\ shown' = shown \/ shown' \in submitted
    BY <1>5, Taken
  <2>2. submitted \subseteq Nat /\ shown \in Int
    BY DEF BoxShapes
  <2>3. shown' \in Int
    <3>1. \A p \in submitted : p \in Int
      BY <2>2
    <3> QED
      BY <2>1, <2>2, <3>1
  <2> QED
    BY <2>1, <2>3 DEF BoxShapes
<1>6. ASSUME PlayheadMoves PROVE BoxShapes'
  BY <1>6 DEF PlayheadMoves, BoxShapes, MotionShapes
<1>7. ASSUME CancelMotion PROVE BoxShapes'
  BY <1>7 DEF CancelMotion, BoxShapes, MotionShapes
<1>8. ASSUME NextGeneration PROVE BoxShapes'
  BY <1>8 DEF NextGeneration, BoxShapes, MotionShapes
<1>9. ASSUME UNCHANGED motionVars PROVE BoxShapes'
  BY <1>9 DEF motionVars, BoxShapes, MotionShapes
<1> QED
  BY <1>1, <1>2, <1>3, <1>4, <1>5, <1>6, <1>7, <1>8, <1>9 DEF MotionNext

LEMMA MotionTrackKept == MotionIInv /\ [MotionNext]_motionVars => MotionTrack'
<1> SUFFICES ASSUME MotionIInv, [MotionNext]_motionVars PROVE MotionTrack'
  OBVIOUS
<1> USE DEF MotionIInv
<1>1. ASSUME Infer PROVE MotionTrack'
  <2>1. PICK a, b \in Nat :
          /\ a >= reach /\ b >= a /\ reach' = b
          /\ inferred' = [at |-> a, until |-> b, generation |-> generation]
          /\ UNCHANGED <<generation, lastSample, pushed>>
    BY <1>1, Inferred
  <2>2. inferred'.at = a /\ inferred'.until = b /\ inferred'.generation = generation
    BY <2>1
  <2>3. \A f \in pushed : f.at \in Nat /\ f.until \in Nat
    BY DEF MotionShapes, MotionFrames
  <2>4. reach \in Nat /\ generation \in Nat
    BY DEF MotionShapes
  <2>5. \A f \in pushed : f.until <= reach
    BY DEF MotionTrack
  <2>6. \A f \in pushed : f.until <= reach' /\ f.until <= inferred'.at
    BY <2>1, <2>2, <2>3, <2>4, <2>5
  <2> QED
    BY <2>1, <2>2, <2>4, <2>6 DEF MotionTrack
<1>2. ASSUME Push PROVE MotionTrack'
  BY <1>2 DEF Push, PushStale, PushFits, MotionTrack, MotionShapes, MotionFrames, MotionSilence
<1>3. ASSUME NEW sample \in aim..Horizon, Select(sample) PROVE MotionTrack'
  BY <1>3 DEF Select, MotionTrack, MotionShapes, MotionFrames, MotionSilence
<1>4. ASSUME Submit PROVE MotionTrack'
  BY <1>4 DEF Submit, SubmitStale, SubmitFits, MotionTrack, MotionShapes, MotionFrames,
    MotionSilence
<1>5. ASSUME TakeDue PROVE MotionTrack'
  BY <1>5 DEF TakeDue, MotionTrack, MotionShapes, MotionFrames, MotionSilence
<1>6. ASSUME PlayheadMoves PROVE MotionTrack'
  BY <1>6 DEF PlayheadMoves, MotionTrack, MotionShapes, MotionFrames, MotionSilence
<1>7. ASSUME CancelMotion PROVE MotionTrack'
  BY <1>7 DEF CancelMotion, MotionTrack, MotionShapes, MotionFrames, MotionSilence
<1>8. ASSUME NextGeneration PROVE MotionTrack'
  BY <1>8 DEF NextGeneration, MotionTrack, MotionShapes, MotionFrames, MotionSilence
<1>9. ASSUME UNCHANGED motionVars PROVE MotionTrack'
  BY <1>9 DEF motionVars, MotionTrack, MotionShapes, MotionFrames, MotionSilence
<1> QED
  BY <1>1, <1>2, <1>3, <1>4, <1>5, <1>6, <1>7, <1>8, <1>9 DEF MotionNext

LEMMA MotionSilenceKept == MotionIInv /\ [MotionNext]_motionVars => MotionSilence'
<1> SUFFICES ASSUME MotionIInv, [MotionNext]_motionVars PROVE MotionSilence'
  OBVIOUS
<1> USE DEF MotionIInv
<1>1. ASSUME Infer PROVE MotionSilence'
  BY <1>1 DEF Infer, MotionSilence
<1>2. ASSUME Push PROVE MotionSilence'
  BY <1>2 DEF Push, PushStale, PushFits, MotionSilence
<1>3. ASSUME NEW sample \in aim..Horizon, Select(sample) PROVE MotionSilence'
  <2>1. /\ sample \in Nat /\ timeline' = Advanced(timeline, sample)
        /\ UNCHANGED <<cancelled, pushed, box, submitted, shown>>
    BY <1>3, Selected
  <2>2. timeline = <<>> => timeline' = <<>>
    BY <2>1 DEF Advanced
  <2> QED
    BY <2>1, <2>2 DEF MotionSilence
<1>4. ASSUME Submit PROVE MotionSilence'
  BY <1>4 DEF Submit, SubmitStale, SubmitFits, MotionSilence
<1>5. ASSUME TakeDue PROVE MotionSilence'
  <2>1. UNCHANGED <<cancelled, timeline, pushed, submitted>> /\ box' \in Seq(Nat)
          /\ Len(box') <= Len(box)
        /\ (shown' = shown \/ shown' \in submitted)
    <3>1. UNCHANGED <<cancelled, timeline, pushed, submitted>>
            /\ (shown' = shown \/ shown' \in submitted)
      BY <1>5, Taken
    <3>2. PICK k \in Nat : box' \in Seq(Nat) /\ Len(box') = Len(box) - k
      BY <1>5, Taken
    <3>3. Len(box) \in Nat
      BY DEF BoxShapes
    <3> QED
      BY <3>1, <3>2, <3>3
  <2>2. box = <<>> => box' = <<>>
    <3>1. box = <<>> => Len(box') = 0
      BY <2>1
    <3> QED
      BY <2>1, <3>1, EmptySeq
  <2> QED
    BY <2>1, <2>2 DEF MotionSilence
<1>6. ASSUME PlayheadMoves PROVE MotionSilence'
  BY <1>6 DEF PlayheadMoves, MotionSilence
<1>7. ASSUME CancelMotion PROVE MotionSilence'
  BY <1>7 DEF CancelMotion, MotionSilence
<1>8. ASSUME NextGeneration PROVE MotionSilence'
  BY <1>8 DEF NextGeneration, MotionSilence
<1>9. ASSUME UNCHANGED motionVars PROVE MotionSilence'
  BY <1>9 DEF motionVars, MotionSilence
<1> QED
  BY <1>1, <1>2, <1>3, <1>4, <1>5, <1>6, <1>7, <1>8, <1>9 DEF MotionNext

LEMMA TimelineKeepsKept == MotionIInv /\ [MotionNext]_motionVars => TimelineKeeps'
<1> SUFFICES ASSUME MotionIInv, [MotionNext]_motionVars PROVE TimelineKeeps'
  OBVIOUS
<1> USE DEF MotionIInv
<1>1. ASSUME Infer PROVE TimelineKeeps'
  BY <1>1 DEF Infer, TimelineKeeps, MotionShapes, MotionFrames, MotionSilence
<1>2. ASSUME Push PROVE TimelineKeeps'
  <2>1. CASE UNCHANGED <<timeline, pushed>>
    BY <1>2, <2>1, Pushed DEF TimelineKeeps
  <2>2. CASE /\ inferred.generation = generation /\ inferred.at > lastSample
             /\ pushed' = pushed \cup {inferred}
             /\ \/ inferred.until < aim /\ timeline' = timeline
                \/ timeline' = Append(timeline, inferred)
    <3>1. UNCHANGED <<generation, aim>> /\ inferred \in MotionFrames
      BY <1>2, Pushed DEF MotionShapes
    <3>2. CASE inferred.until < aim /\ timeline' = timeline
      BY <2>2, <3>1, <3>2 DEF TimelineKeeps
    <3>3. CASE timeline' = Append(timeline, inferred)
      <4>1. /\ Len(timeline) \in Nat /\ DOMAIN timeline = 1..Len(timeline)
            /\ \A i \in DOMAIN timeline : i \in DOMAIN timeline' /\ i <= Len(timeline)
                 /\ timeline'[i] = timeline[i]
            /\ Len(timeline) + 1 \in DOMAIN timeline' /\ timeline'[Len(timeline) + 1] = inferred
            /\ \A i \in DOMAIN timeline' : i \in DOMAIN timeline \/ i = Len(timeline) + 1
        BY <3>1, <3>3, Appended DEF MotionShapes
      <4>2. \A i \in DOMAIN timeline : timeline[i].at < inferred.at
        <5>1. \A f \in pushed : f.at \in Nat /\ f.at <= lastSample
          BY DEF MotionShapes, MotionFrames, MotionTrack
        <5>2. \A i \in DOMAIN timeline : timeline[i] \in pushed
          BY DEF TimelineKeeps
        <5>3. lastSample \in Int /\ inferred.at \in Nat
          BY <3>1 DEF MotionShapes, MotionFrames
        <5> QED
          BY <2>2, <5>1, <5>2, <5>3
      <4>3. \A i \in DOMAIN timeline' : timeline'[i] \in pushed'
              /\ timeline'[i].generation = generation'
        BY <2>2, <3>1, <4>1 DEF TimelineKeeps
      <4>4. \A i, j \in DOMAIN timeline' : i < j => timeline'[i].at < timeline'[j].at
        <5> SUFFICES ASSUME NEW i \in DOMAIN timeline', NEW j \in DOMAIN timeline', i < j
                     PROVE  timeline'[i].at < timeline'[j].at
          OBVIOUS
        <5>1. i \in DOMAIN timeline
          BY <4>1
        <5>2. CASE j \in DOMAIN timeline
          BY <4>1, <5>1, <5>2 DEF TimelineKeeps
        <5>3. CASE j = Len(timeline) + 1
          BY <4>1, <4>2, <5>1, <5>3
        <5> QED
          BY <4>1, <5>2, <5>3
      <4>5. ASSUME NEW f \in pushed'
            PROVE  \/ \E i \in DOMAIN timeline' : timeline'[i] = f
                   \/ f.until < aim'
                   \/ \E i \in DOMAIN timeline' : f.at < timeline'[i].at /\ timeline'[i].at <= aim'
        <5>1. CASE f = inferred
          BY <4>1, <5>1
        <5>2. CASE f \in pushed
          <6>1. \/ \E i \in DOMAIN timeline : timeline[i] = f
                \/ f.until < aim
                \/ \E i \in DOMAIN timeline : f.at < timeline[i].at /\ timeline[i].at <= aim
            BY <5>2 DEF TimelineKeeps
          <6> QED
            BY <3>1, <4>1, <6>1
        <5> QED
          BY <2>2, <5>1, <5>2
      <4> QED
        BY <4>3, <4>4, <4>5 DEF TimelineKeeps
    <3> QED
      BY <2>2, <3>2, <3>3
  <2> QED
    BY <1>2, <2>1, <2>2, Pushed
<1>3. ASSUME NEW sample \in aim..Horizon, Select(sample) PROVE TimelineKeeps'
  <2>0. /\ sample \in Nat /\ sample >= aim /\ aim' = sample /\ UNCHANGED <<pushed, generation>>
        /\ timeline' = Advanced(timeline, sample)
    BY <1>3, Selected
  <2>1. timeline \in Seq(MotionFrames) /\ aim \in Nat
    BY DEF MotionShapes
  <2>2. PICK k \in Nat :
          /\ k = 0 \/ (k + 1 \in DOMAIN timeline /\ timeline[k + 1].at <= sample)
          /\ timeline' \in Seq(MotionFrames) /\ Len(timeline') = Len(timeline) - k
          /\ \A i \in 1..(Len(timeline) - k) : timeline'[i] = timeline[i + k]
    BY <2>0, <2>1, AdvancedIs
  <2>3. /\ Len(timeline) \in Nat /\ DOMAIN timeline = 1..Len(timeline)
        /\ DOMAIN timeline' = 1..(Len(timeline) - k)
    BY <2>1, <2>2
  <2>4. \A i \in DOMAIN timeline' : i + k \in DOMAIN timeline /\ timeline'[i] = timeline[i + k]
    <3> SUFFICES ASSUME NEW i \in DOMAIN timeline'
                 PROVE  i + k \in DOMAIN timeline /\ timeline'[i] = timeline[i + k]
      OBVIOUS
    <3>1. i \in 1..(Len(timeline) - k)
      BY <2>3
    <3>2. i + k \in 1..Len(timeline)
      BY <2>3, <3>1
    <3> QED
      BY <2>2, <2>3, <3>1, <3>2
  <2>5. \A i \in DOMAIN timeline : i > k => i - k \in DOMAIN timeline'
          /\ timeline'[i - k] = timeline[i]
    <3> SUFFICES ASSUME NEW i \in DOMAIN timeline, i > k
                 PROVE  i - k \in DOMAIN timeline' /\ timeline'[i - k] = timeline[i]
      OBVIOUS
    <3>1. i - k \in 1..(Len(timeline) - k) /\ i - k + k = i
      BY <2>3
    <3> QED
      BY <2>2, <2>3, <3>1
  <2>6. \A i \in DOMAIN timeline : timeline[i].at \in Nat
    <3>1. \A i \in DOMAIN timeline : timeline[i] \in MotionFrames
      BY <2>1
    <3> QED
      BY <3>1 DEF MotionFrames
  <2>7. \A i \in DOMAIN timeline' : timeline'[i] \in pushed'
          /\ timeline'[i].generation = generation'
    BY <2>0, <2>4 DEF TimelineKeeps
  <2>8. \A i, j \in DOMAIN timeline' : i < j => timeline'[i].at < timeline'[j].at
    <3> SUFFICES ASSUME NEW i \in DOMAIN timeline', NEW j \in DOMAIN timeline', i < j
                 PROVE  timeline'[i].at < timeline'[j].at
      OBVIOUS
    <3>1. i + k < j + k /\ i + k \in DOMAIN timeline /\ j + k \in DOMAIN timeline
      BY <2>3, <2>4
    <3> QED
      BY <2>4, <3>1 DEF TimelineKeeps
  <2>9. \A i \in DOMAIN timeline : i <= k =>
          1 \in DOMAIN timeline' /\ timeline[i].at < timeline'[1].at /\ timeline'[1].at <= sample
    <3> SUFFICES ASSUME NEW i \in DOMAIN timeline, i <= k
                 PROVE  1 \in DOMAIN timeline' /\ timeline[i].at < timeline'[1].at
                          /\ timeline'[1].at <= sample
      OBVIOUS
    <3>1. k # 0 /\ k + 1 \in DOMAIN timeline /\ timeline[k + 1].at <= sample
      BY <2>2, <2>3
    <3>2. 1 \in DOMAIN timeline' /\ timeline'[1] = timeline[k + 1]
      <4>1. k + 1 > k /\ k + 1 - k = 1
        OBVIOUS
      <4> QED
        BY <2>5, <3>1, <4>1
    <3>3. i < k + 1
      BY <2>3
    <3> QED
      BY <3>1, <3>2, <3>3 DEF TimelineKeeps
  <2>10. ASSUME NEW f \in pushed'
         PROVE  \/ \E i \in DOMAIN timeline' : timeline'[i] = f
                \/ f.until < aim'
                \/ \E i \in DOMAIN timeline' : f.at < timeline'[i].at /\ timeline'[i].at <= aim'
    <3>1. \/ \E i \in DOMAIN timeline : timeline[i] = f
          \/ f.until < aim
          \/ \E i \in DOMAIN timeline : f.at < timeline[i].at /\ timeline[i].at <= aim
      BY <2>0 DEF TimelineKeeps
    <3>2. f.at \in Nat /\ f.until \in Nat
      BY <2>0 DEF MotionShapes, MotionFrames
    <3>3. ASSUME NEW i \in DOMAIN timeline, timeline[i] = f
          PROVE  \/ \E j \in DOMAIN timeline' : timeline'[j] = f
                 \/ \E j \in DOMAIN timeline' : f.at < timeline'[j].at /\ timeline'[j].at <= aim'
      <4>1. CASE i > k
        BY <2>5, <3>3, <4>1
      <4>2. CASE i <= k
        BY <2>0, <2>9, <3>3, <4>2
      <4> QED
        BY <2>3, <4>1, <4>2
    <3>4. CASE f.until < aim
      BY <2>0, <2>1, <3>2, <3>4
    <3>5. ASSUME NEW i \in DOMAIN timeline, f.at < timeline[i].at, timeline[i].at <= aim
          PROVE  \E j \in DOMAIN timeline' : f.at < timeline'[j].at /\ timeline'[j].at <= aim'
      <4>1. CASE i > k
        <5>1. timeline[i].at <= sample
          BY <2>0, <2>1, <2>6, <3>5
        <5> QED
          BY <2>0, <2>5, <3>5, <4>1, <5>1
      <4>2. CASE i <= k
        <5>1. 1 \in DOMAIN timeline' /\ timeline[i].at < timeline'[1].at
                /\ timeline'[1].at <= sample
          BY <2>9, <4>2
        <5>2. timeline'[1].at \in Nat /\ timeline[i].at \in Nat
          BY <2>4, <2>6, <5>1
        <5>3. f.at < timeline'[1].at
          BY <3>2, <3>5, <5>1, <5>2
        <5> QED
          BY <2>0, <5>1, <5>3
      <4> QED
        BY <2>3, <4>1, <4>2
    <3> QED
      BY <3>1, <3>3, <3>4, <3>5
  <2> QED
    BY <2>7, <2>8, <2>10 DEF TimelineKeeps
<1>4. ASSUME Submit PROVE TimelineKeeps'
  BY <1>4 DEF Submit, SubmitStale, SubmitFits, TimelineKeeps, MotionShapes, MotionFrames,
    MotionSilence
<1>5. ASSUME TakeDue PROVE TimelineKeeps'
  BY <1>5 DEF TakeDue, TimelineKeeps, MotionShapes, MotionFrames, MotionSilence
<1>6. ASSUME PlayheadMoves PROVE TimelineKeeps'
  BY <1>6 DEF PlayheadMoves, TimelineKeeps, MotionShapes, MotionFrames, MotionSilence
<1>7. ASSUME CancelMotion PROVE TimelineKeeps'
  BY <1>7 DEF CancelMotion, TimelineKeeps, MotionShapes, MotionFrames, MotionSilence
<1>8. ASSUME NextGeneration PROVE TimelineKeeps'
  BY <1>8 DEF NextGeneration, TimelineKeeps, MotionShapes, MotionFrames, MotionSilence
<1>9. ASSUME UNCHANGED motionVars PROVE TimelineKeeps'
  BY <1>9 DEF motionVars, TimelineKeeps, MotionShapes, MotionFrames, MotionSilence
<1> QED
  BY <1>1, <1>2, <1>3, <1>4, <1>5, <1>6, <1>7, <1>8, <1>9 DEF MotionNext

LEMMA BoxKeepsKept == MotionIInv /\ [MotionNext]_motionVars => BoxKeeps'
<1> SUFFICES ASSUME MotionIInv, [MotionNext]_motionVars PROVE BoxKeeps'
  OBVIOUS
<1> USE DEF MotionIInv
<1>1. ASSUME Infer PROVE BoxKeeps'
  BY <1>1 DEF Infer, BoxKeeps, BoxShapes, MotionShapes, MotionSilence
<1>2. ASSUME Push PROVE BoxKeeps'
  BY <1>2 DEF Push, PushStale, PushFits, BoxKeeps, BoxShapes, MotionShapes, MotionSilence
<1>3. ASSUME NEW sample \in aim..Horizon, Select(sample) PROVE BoxKeeps'
  BY <1>3 DEF Select, BoxKeeps, BoxShapes, MotionShapes, MotionSilence
<1>4. ASSUME Submit PROVE BoxKeeps'
  <2>1. CASE UNCHANGED <<box, lastPts, submitted>>
    BY <1>4, <2>1, Handed DEF BoxKeeps
  <2>2. CASE /\ drawn.pts \in Nat /\ drawn.pts > lastPts
             /\ lastPts' = drawn.pts /\ submitted' = submitted \cup {drawn.pts}
             /\ \/ drawn.pts + FrameTime <= playhead /\ box' = box
                \/ box' = Append(box, drawn.pts)
    <3>1. UNCHANGED <<playhead, shown>> /\ submitted \subseteq Nat /\ lastPts \in Int
            /\ shown \in Int
          /\ box \in Seq(Nat)
      BY <1>4, Handed DEF BoxShapes
    <3>2. /\ \A p \in submitted : p <= lastPts
          /\ shown <= lastPts
          /\ \A i \in DOMAIN box : box[i] \in submitted /\ box[i] > shown
          /\ \A i, j \in DOMAIN box : i < j => box[i] < box[j]
          /\ \A p \in submitted : \/ \E i \in DOMAIN box : box[i] = p
                                  \/ p + FrameTime <= playhead
                                  \/ p <= shown
      BY DEF BoxKeeps
    <3>3. shown' <= lastPts' /\ (\A p \in submitted' : p <= lastPts')
      BY <2>2, <3>1, <3>2
    <3>4. CASE drawn.pts + FrameTime <= playhead /\ box' = box
      <4>1. \A i \in DOMAIN box' : box'[i] \in submitted' /\ box'[i] > shown'
        BY <2>2, <3>1, <3>2, <3>4
      <4>2. \A p \in submitted' : \/ \E i \in DOMAIN box' : box'[i] = p
                                  \/ p + FrameTime <= playhead'
                                  \/ p <= shown'
        BY <2>2, <3>1, <3>2, <3>4
      <4> QED
        BY <3>2, <3>3, <3>4, <4>1, <4>2 DEF BoxKeeps
    <3>5. CASE box' = Append(box, drawn.pts)
      <4>1. /\ Len(box) \in Nat /\ DOMAIN box = 1..Len(box)
            /\ \A i \in DOMAIN box : i \in DOMAIN box' /\ i <= Len(box) /\ box'[i] = box[i]
            /\ Len(box) + 1 \in DOMAIN box' /\ box'[Len(box) + 1] = drawn.pts
            /\ \A i \in DOMAIN box' : i \in DOMAIN box \/ i = Len(box) + 1
        BY <2>2, <3>1, <3>5, Appended
      <4>2. drawn.pts > shown /\ \A i \in DOMAIN box : box[i] < drawn.pts
        BY <2>2, <3>1, <3>2
      <4>3. \A i \in DOMAIN box' : box'[i] \in submitted' /\ box'[i] > shown'
        BY <2>2, <3>1, <3>2, <4>1, <4>2
      <4>4. \A i, j \in DOMAIN box' : i < j => box'[i] < box'[j]
        <5> SUFFICES ASSUME NEW i \in DOMAIN box', NEW j \in DOMAIN box', i < j
                     PROVE  box'[i] < box'[j]
          OBVIOUS
        <5>1. i \in DOMAIN box
          BY <4>1
        <5>2. CASE j \in DOMAIN box
          BY <3>2, <4>1, <5>1, <5>2
        <5>3. CASE j = Len(box) + 1
          BY <4>1, <4>2, <5>1, <5>3
        <5> QED
          BY <4>1, <5>2, <5>3
      <4>5. \A p \in submitted' : \/ \E i \in DOMAIN box' : box'[i] = p
                                  \/ p + FrameTime <= playhead'
                                  \/ p <= shown'
        BY <2>2, <3>1, <3>2, <4>1
      <4> QED
        BY <3>3, <4>3, <4>4, <4>5 DEF BoxKeeps
    <3> QED
      BY <2>2, <3>4, <3>5
  <2> QED
    BY <1>4, <2>1, <2>2, Handed
<1>5. ASSUME TakeDue PROVE BoxKeeps'
  <2>1. UNCHANGED <<lastPts, playhead, submitted>>
    BY <1>5, Taken
  <2>2. PICK k \in Nat :
          /\ k <= Len(box) /\ box' \in Seq(Nat) /\ Len(box') = Len(box) - k
          /\ \A i \in 1..(Len(box) - k) : box'[i] = box[i + k]
          /\ \A i \in DOMAIN box : i <= k <=> box[i] <= playhead
    BY <1>5, Taken
  <2>3. box \in Seq(Nat) /\ submitted \subseteq Nat /\ shown \in Int /\ playhead \in Nat
          /\ FrameTime \in Nat
    BY MotionConstants DEF BoxShapes, MotionShapes
  <2>4. /\ \A p \in submitted : p <= lastPts
        /\ shown <= lastPts
        /\ \A i \in DOMAIN box : box[i] \in submitted /\ box[i] > shown
        /\ \A i, j \in DOMAIN box : i < j => box[i] < box[j]
        /\ \A p \in submitted : \/ \E i \in DOMAIN box : box[i] = p
                                \/ p + FrameTime <= playhead
                                \/ p <= shown
    BY DEF BoxKeeps
  <2>5. /\ Len(box) \in Nat /\ DOMAIN box = 1..Len(box) /\ DOMAIN box' = 1..(Len(box) - k)
    BY <2>2, <2>3
  <2>6. \A i \in DOMAIN box' : i + k \in DOMAIN box /\ box'[i] = box[i + k] /\ i + k > k
    BY <2>2, <2>5
  <2>7. \A i \in DOMAIN box : i > k => i - k \in DOMAIN box' /\ box'[i - k] = box[i]
    <3> SUFFICES ASSUME NEW i \in DOMAIN box, i > k
                 PROVE  i - k \in DOMAIN box' /\ box'[i - k] = box[i]
      OBVIOUS
    <3>1. i - k \in 1..(Len(box) - k) /\ i - k + k = i
      BY <2>5
    <3> QED
      BY <2>2, <2>5, <3>1
  <2>8. \/ /\ shown' = shown
           /\ \A p \in submitted : shown < p /\ p <= playhead => p + FrameTime <= playhead
        \/ /\ shown' \in submitted /\ shown' > shown /\ shown' <= playhead
           /\ \A p \in submitted : p <= playhead /\ p > shown' => p + FrameTime <= playhead
    BY <1>5, Taken
  <2>9. shown' <= lastPts' /\ shown' \in Int /\ shown' >= shown
    <3>1. CASE shown' = shown
      BY <2>1, <2>3, <2>4, <3>1
    <3>2. CASE shown' \in submitted /\ shown' > shown
      <4>1. shown' \in Nat
        BY <2>3, <3>2
      <4> QED
        BY <2>1, <2>3, <2>4, <3>2, <4>1
    <3> QED
      BY <2>8, <3>1, <3>2
  <2>10. \A i \in DOMAIN box' : box'[i] \in submitted' /\ box'[i] > shown'
    <3> SUFFICES ASSUME NEW i \in DOMAIN box' PROVE box'[i] \in submitted' /\ box'[i] > shown'
      OBVIOUS
    <3>1. i + k \in DOMAIN box /\ box'[i] = box[i + k] /\ i + k > k
      BY <2>6
    <3>2. box[i + k] \in submitted /\ box[i + k] > shown
      BY <2>4, <3>1
    <3>3. ~(box[i + k] <= playhead)
      BY <2>2, <2>5, <3>1
    <3>4. box[i + k] \in Nat
      BY <2>3, <3>2
    <3> QED
      BY <2>1, <2>3, <2>8, <2>9, <3>1, <3>2, <3>3, <3>4
  <2>11. \A i, j \in DOMAIN box' : i < j => box'[i] < box'[j]
    <3> SUFFICES ASSUME NEW i \in DOMAIN box', NEW j \in DOMAIN box', i < j PROVE box'[i] < box'[j]
      OBVIOUS
    <3>1. i + k < j + k /\ i + k \in DOMAIN box /\ j + k \in DOMAIN box
      BY <2>5, <2>6
    <3> QED
      BY <2>4, <2>6, <3>1
  <2>12. ASSUME NEW p \in submitted'
         PROVE  \/ \E i \in DOMAIN box' : box'[i] = p
                \/ p + FrameTime <= playhead'
                \/ p <= shown'
    <3>1. p \in submitted /\ p \in Nat
      BY <2>1, <2>3
    <3>2. CASE p <= shown
      BY <2>3, <2>9, <3>1, <3>2
    <3>3. CASE p + FrameTime <= playhead
      BY <2>1, <3>3
    <3>4. ASSUME NEW i \in DOMAIN box, box[i] = p
          PROVE  \/ \E j \in DOMAIN box' : box'[j] = p
                 \/ p + FrameTime <= playhead
                 \/ p <= shown'
      <4>1. CASE i > k
        BY <2>7, <3>4, <4>1
      <4>2. CASE i <= k
        <5>1. p <= playhead /\ p > shown
          BY <2>2, <2>4, <3>4, <4>2
        <5> QED
          BY <2>3, <2>8, <2>9, <3>1, <5>1
      <4> QED
        BY <2>5, <4>1, <4>2
    <3> QED
      BY <2>1, <2>4, <3>1, <3>2, <3>3, <3>4
  <2> QED
    BY <2>1, <2>4, <2>9, <2>10, <2>11, <2>12 DEF BoxKeeps
<1>6. ASSUME PlayheadMoves PROVE BoxKeeps'
  <2>1. playhead' = playhead + 1 /\ UNCHANGED <<box, lastPts, submitted, shown>>
    BY <1>6 DEF PlayheadMoves
  <2>2. playhead \in Nat /\ FrameTime \in Nat /\ submitted \subseteq Nat
    BY MotionConstants DEF MotionShapes, BoxShapes
  <2>3. \A p \in submitted : p + FrameTime <= playhead => p + FrameTime <= playhead'
    BY <2>1, <2>2
  <2> QED
    BY <2>1, <2>3 DEF BoxKeeps
<1>7. ASSUME CancelMotion PROVE BoxKeeps'
  BY <1>7 DEF CancelMotion, BoxKeeps, BoxShapes, MotionShapes, MotionSilence
<1>8. ASSUME NextGeneration PROVE BoxKeeps'
  BY <1>8 DEF NextGeneration, BoxKeeps, BoxShapes, MotionShapes, MotionSilence
<1>9. ASSUME UNCHANGED motionVars PROVE BoxKeeps'
  BY <1>9 DEF motionVars, BoxKeeps, BoxShapes, MotionShapes, MotionSilence
<1> QED
  BY <1>1, <1>2, <1>3, <1>4, <1>5, <1>6, <1>7, <1>8, <1>9 DEF MotionNext

LEMMA AnswersKept == MotionIInv /\ [MotionNext]_motionVars => Answers'
<1> SUFFICES ASSUME MotionIInv, [MotionNext]_motionVars PROVE Answers'
  OBVIOUS
<1> USE DEF MotionIInv
<1>1. ASSUME Infer PROVE Answers'
  BY <1>1 DEF Infer, Answers
<1>2. ASSUME Push PROVE Answers'
  BY <1>2 DEF Push, PushStale, PushFits, Answers
<1>3. ASSUME NEW sample \in aim..Horizon, Select(sample) PROVE Answers'
  <2>0. UNCHANGED <<pushed, submitted, due>>
    BY <1>3, Selected
  <2>1. selected' = ReferenceIn(pushed, sample) /\ selected'.at = sample
    BY <1>3, SelectionIsRight
  <2> HIDE DEF ReferenceIn, DueIn
  <2> QED
    BY <2>0, <2>1 DEF Answers
<1>4. ASSUME Submit PROVE Answers'
  BY <1>4 DEF Submit, SubmitStale, SubmitFits, Answers
<1>5. ASSUME TakeDue PROVE Answers'
  <2>1. /\ UNCHANGED <<pushed, selected, submitted>>
        /\ due' = [at |-> playhead, pts |-> DueIn(submitted, playhead, shown), before |-> shown]
    BY <1>5, Taken
  <2> QED
    BY <2>1 DEF Answers
<1>6. ASSUME PlayheadMoves PROVE Answers'
  BY <1>6 DEF PlayheadMoves, Answers
<1>7. ASSUME CancelMotion PROVE Answers'
  BY <1>7 DEF CancelMotion, Answers
<1>8. ASSUME NextGeneration PROVE Answers'
  BY <1>8 DEF NextGeneration, Answers
<1>9. ASSUME UNCHANGED motionVars PROVE Answers'
  BY <1>9 DEF motionVars, Answers
<1> QED
  BY <1>1, <1>2, <1>3, <1>4, <1>5, <1>6, <1>7, <1>8, <1>9 DEF MotionNext

\* However inference, the two hand-overs, the pulls of the renderer and cancels interleave: the
\* timeline answers a position, and the mailbox gives the frame that is due, as they would out of
\* everything that was handed to them in this generation, and nothing of an earlier one is left.
THEOREM PictureSafe == MotionSpec => []PictureFollowsSound
<1>1. MotionIInv /\ [MotionNext]_motionVars => MotionIInv'
  BY MotionShapesKept, BoxShapesKept, MotionTrackKept, MotionSilenceKept, TimelineKeepsKept,
    BoxKeepsKept, AnswersKept DEF MotionIInv
<1>2. MotionIInv => PictureFollowsSound
  <2> SUFFICES ASSUME MotionIInv PROVE PictureFollowsSound
    OBVIOUS
  <2>1. Answers /\ TimelineKeeps /\ MotionShapes
    BY DEF MotionIInv
  <2>2. \A x : Reference(x) = ReferenceIn(pushed, x)
    BY DEF Reference, ReferenceIn, CurrentIn, NextIn, At
  <2>3. SelectionIsReference
    BY <2>1, <2>2 DEF SelectionIsReference, Answers
  <2>4. DueIsCurrent
    BY <2>1 DEF DueIsCurrent, Answers, DueIn
  <2>5. \A i \in 1..Len(timeline) : timeline[i].generation = generation
    BY <2>1 DEF TimelineKeeps, MotionShapes
  <2> QED
    BY <2>3, <2>4, <2>5 DEF PictureFollowsSound
<1> QED
  BY MotBegins, <1>1, <1>2, PTL DEF MotionSpec
=============================================================================
