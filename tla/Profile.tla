------------------------------- MODULE Profile -------------------------------
(***************************************************************************)
(* One local profile of the machine: the operators that run `tha local     *)
(* init`, `provision`, `up` and `down` on it, the API processes that `up`  *)
(* starts and that record themselves, and the device lease that sessions   *)
(* of these processes take and their GPU children inherit.                 *)
(*                                                                         *)
(* The kernel is external: flock, process identifiers that are used again, *)
(* pidfds.  An operator or an API may be killed between any two steps.  A  *)
(* process is known by its number; its start time tells it from a later    *)
(* one with the same pid.                                                  *)
(***************************************************************************)
EXTENDS Integers, FiniteSets

CONSTANTS
  Operator,    \* shells that run `tha local`
  Pid,         \* process identifiers
  MaxApis,     \* bound: API processes
  MaxSessions, \* bound: sessions that take the device
  MaxCrashes,  \* bound: operators and APIs killed
  None

Api == 1..MaxApis
Session == 1..MaxSessions

ASSUME ProfileAssumption ==
  /\ None \notin Operator \cup Pid \cup Api \cup Session
  /\ {MaxApis, MaxSessions} \subseteq Nat \ {0} /\ MaxCrashes \in Nat

VARIABLES
  files,     \* files of the profile written so far, the marker is the last
  software,  \* api-venv: "none", "partial", "ready"
  services,  \* the compose project runs
  recorded,  \* api-process.json: the API it names
  opLock,    \* who holds operation.lock
  cmd,       \* of each operator: its command, what it found, what it holds
  api,       \* of each API: its state and its pid
  owner,     \* the API that holds api-owner.lock
  alien,     \* the pid of some other process of the machine
  hit,       \* history: a signal went to a process that is no API
  orphans,   \* history: APIs whose launcher was gone before they were recorded
  sess,      \* of each session: its API, its descriptor, its GPU child
  device,    \* the session whose open file description holds the flock
  crashes

opVars == <<opLock, cmd>>
apiVars == <<recorded, api, owner, orphans>>
setupVars == <<files, software>>
deviceVars == <<sess, device>>
profileVars == <<setupVars, services, opVars, apiVars, alien, hit, deviceVars, crashes>>

Whole == 4
Alien == 0      \* some other process, where an API is named by its number
Refused == -1
NoCommand == [at |-> "idle", seen |-> None, handle |-> None]
NoApi == [st |-> "none", pid |-> None, term |-> FALSE]
NoSession == [api |-> None, held |-> FALSE, child |-> FALSE]
Live == {"starting", "locked", "recorded", "serving", "leaving"}
Kept == {"recorded", "serving"}      \* past its record, not yet leaving

ProfileInit ==
  /\ files = 0 /\ software = "none" /\ services = FALSE
  /\ recorded = None /\ opLock = None /\ cmd = [o \in Operator |-> NoCommand]
  /\ api = [a \in Api |-> NoApi] /\ owner = None /\ alien = None
  /\ hit = FALSE /\ orphans = {}
  /\ sess = [s \in Session |-> NoSession] /\ device = None
  /\ crashes = 0

LiveApis == {a \in Api : api[a].st \in Live}
PidOf(a) == api[a].pid
InUse == {PidOf(a) : a \in LiveApis} \cup ({alien} \ {None})
AtPid(p) == IF p = alien THEN Alien
            ELSE IF \E a \in LiveApis : PidOf(a) = p THEN CHOOSE a \in LiveApis : PidOf(a) = p
            ELSE None

-----------------------------------------------------------------------------
(* What an operator learns and does under operation.lock.                  *)

Goes(o, where) == cmd' = [cmd EXCEPT ![o].at = where]
Quits(o) == cmd' = [cmd EXCEPT ![o] = NoCommand] /\ opLock' = IF opLock = o THEN None ELSE opLock

\* owned_process(): the recorded process if it lives, None if nothing has its pid;
\* a pid that another process has now is refused.
OwnedProcess ==
  IF recorded = None THEN None
  ELSE IF AtPid(PidOf(recorded)) \in {None, recorded} THEN AtPid(PidOf(recorded)) ELSE Refused

\* A command takes the lock or fails, and looks for the API that is recorded.
Enter(o, found) ==
  /\ files = Whole /\ cmd[o].at = "idle" /\ opLock = None
  /\ found = OwnedProcess /\ opLock' = o

Untouched == UNCHANGED <<setupVars, services, apiVars, alien, hit, deviceVars, crashes>>

\* initialize(): the directory is made by one operator; the marker is written last.
InitBegin(o) ==
  /\ files = 0 /\ cmd[o].at = "idle"
  /\ files' = 1 /\ Goes(o, "init")
  /\ UNCHANGED <<software, services, opLock, apiVars, alien, hit, deviceVars, crashes>>

InitWrite(o) ==
  /\ cmd[o].at = "init"
  /\ files' = files + 1
  /\ IF files' = Whole THEN cmd' = [cmd EXCEPT ![o] = NoCommand] ELSE UNCHANGED cmd
  /\ UNCHANGED <<software, services, opLock, apiVars, alien, hit, deviceVars, crashes>>

\* provision(): not while an API is recorded and lives.
ProvisionBegin(o) ==
  /\ Enter(o, None) /\ Goes(o, "sync") /\ software' = "partial"
  /\ UNCHANGED <<files, services, apiVars, alien, hit, deviceVars, crashes>>

ProvisionEnd(o) ==
  /\ cmd[o].at = "sync" /\ software' \in {"partial", "ready"} /\ Quits(o)
  /\ UNCHANGED <<files, services, apiVars, alien, hit, deviceVars, crashes>>

\* doctor(): the environment is there; how far a provisioning came nobody asks.
Doctor == software # "none"

\* up(): nothing is recorded, the profile is complete, the port is free.
UpBegin(o) ==
  /\ Enter(o, None) /\ Doctor
  /\ \A a \in Api : api[a].st # "serving"
  /\ Goes(o, "compose")
  /\ Untouched

UpCompose(o) ==
  /\ cmd[o].at = "compose"
  /\ \/ services' = TRUE /\ Goes(o, "spawn") /\ UNCHANGED opLock
     \/ services' \in BOOLEAN /\ Quits(o)
  /\ UNCHANGED <<setupVars, apiVars, alien, hit, deviceVars, crashes>>

UpSpawn(o) ==
  /\ cmd[o].at = "spawn"
  /\ \E a \in Api, p \in Pid \ InUse :
       /\ api[a].st = "none" /\ \A b \in Api : b < a => api[b].st # "none"
       /\ api' = [api EXCEPT ![a] = [st |-> "starting", pid |-> p, term |-> FALSE]]
       /\ cmd' = [cmd EXCEPT ![o].at = "wait", ![o].seen = a]
  /\ UNCHANGED <<setupVars, services, opLock, recorded, owner, orphans, alien, hit, deviceVars, crashes>>

\* The launcher is gone: a child that is not recorded yet has nobody to wait for it.
Leaves(o) ==
  orphans' = IF cmd[o].at = "wait" /\ api[cmd[o].seen].st \in {"starting", "locked"}
             THEN orphans \cup {cmd[o].seen} ELSE orphans

\* The child has ended, some API answers, or 45 seconds have passed; the child has
\* recorded itself long before that.
UpEnd(o) ==
  /\ cmd[o].at = "wait"
  /\ \/ api[cmd[o].seen].st \notin {"starting", "locked"}
     \/ \E a \in Api : api[a].st = "serving"
  /\ Quits(o) /\ Leaves(o)
  /\ UNCHANGED <<setupVars, services, recorded, api, owner, alien, hit, deviceVars, crashes>>

\* down() finds the API, or goes straight to the services.
DownBegin(o) ==
  /\ \/ Enter(o, None) /\ Goes(o, "services")
     \/ \E a \in Api : /\ Enter(o, a)
                       /\ cmd' = [cmd EXCEPT ![o].at = "open", ![o].seen = a]
  /\ Untouched

\* pidfd_open() holds on to whatever has the pid now.
DownOpen(o) ==
  /\ cmd[o].at = "open"
  /\ LET who == AtPid(PidOf(cmd[o].seen))
     IN  \/ who = None /\ Quits(o)
         \/ /\ who # None /\ UNCHANGED opLock
            /\ cmd' = [cmd EXCEPT ![o].at = "confirm", ![o].handle = who]
  /\ Untouched

\* MUTANT: the ownership is not looked at again once the pidfd is held.
DownConfirm_Trusting(o) ==
  /\ cmd[o].at = "confirm" /\ Goes(o, "signal") /\ UNCHANGED opLock
  /\ Untouched

\* The ownership is looked at again before any signal.
DownConfirm(o) ==
  /\ cmd[o].at = "confirm"
  /\ \/ OwnedProcess = cmd[o].seen /\ Goes(o, "signal") /\ UNCHANGED opLock
     \/ OwnedProcess # cmd[o].seen /\ Quits(o)
  /\ Untouched

\* The signal reaches the process the pidfd was opened for, if it still lives.
DownSignal(o) ==
  /\ cmd[o].at = "signal"
  /\ LET who == cmd[o].handle
     IN  \/ who = Alien /\ hit' = TRUE /\ Quits(o) /\ UNCHANGED api
         \/ /\ who \in LiveApis /\ UNCHANGED <<hit, opLock>>
            /\ api' = [api EXCEPT ![who].term = TRUE] /\ Goes(o, "drain")
         \/ who \in Api \ LiveApis /\ Quits(o) /\ UNCHANGED <<hit, api>>
  /\ UNCHANGED <<setupVars, services, recorded, owner, orphans, alien, deviceVars, crashes>>

\* It has ended; or twenty seconds have passed, and its services and record stay.
DownDrain(o) ==
  /\ cmd[o].at = "drain"
  /\ \/ cmd[o].handle \notin LiveApis /\ Goes(o, "services") /\ UNCHANGED opLock
     \/ cmd[o].handle \in LiveApis /\ Quits(o)
  /\ Untouched

DownServices(o) ==
  /\ cmd[o].at = "services"
  /\ \/ services' = FALSE /\ Goes(o, "unlink") /\ UNCHANGED opLock
     \/ services' \in {services, FALSE} /\ Quits(o)
  /\ UNCHANGED <<setupVars, apiVars, alien, hit, deviceVars, crashes>>

DownUnlink(o) ==
  /\ cmd[o].at = "unlink" /\ recorded' = None /\ Quits(o)
  /\ UNCHANGED <<setupVars, services, api, owner, orphans, alien, hit, deviceVars, crashes>>

OperatorStep(o) ==
  \/ InitBegin(o) \/ InitWrite(o) \/ ProvisionBegin(o) \/ ProvisionEnd(o)
  \/ UpBegin(o) \/ UpCompose(o) \/ UpSpawn(o) \/ UpEnd(o)
  \/ DownBegin(o) \/ DownOpen(o) \/ DownConfirm(o) \/ DownSignal(o)
  \/ DownDrain(o) \/ DownServices(o) \/ DownUnlink(o)

Crash == crashes < MaxCrashes /\ crashes' = crashes + 1

\* An operator is killed: its lock is released, what it did stays.
Killed(o) ==
  /\ cmd[o].at # "idle" /\ Crash /\ Quits(o) /\ Leaves(o)
  /\ UNCHANGED <<setupVars, services, recorded, api, owner, alien, hit, deviceVars>>

-----------------------------------------------------------------------------
(* The device lease.                                                       *)

\* The kernel releases a flock with the last descriptor of its description.
Freed(s, d) == IF d # None /\ ~s[d].held /\ ~s[d].child THEN None ELSE d
NowOpen(s) == sess' = s /\ device' = Freed(s, device)

DeviceOnly == UNCHANGED <<setupVars, services, opVars, apiVars, alien, hit, crashes>>

Acquire(a, s) ==
  /\ api[a].st = "serving" /\ sess[s] = NoSession /\ device = None
  /\ \A t \in Session : t < s => sess[t] # NoSession
  /\ sess' = [sess EXCEPT ![s] = [api |-> a, held |-> TRUE, child |-> FALSE]] /\ device' = s
  /\ DeviceOnly

\* The speech or the media worker of the session inherits the description.
ChildStarts(s) ==
  /\ sess[s].held /\ ~sess[s].child
  /\ NowOpen([sess EXCEPT ![s].child = TRUE]) /\ DeviceOnly

ChildEnds(s) == sess[s].child /\ NowOpen([sess EXCEPT ![s].child = FALSE]) /\ DeviceOnly

\* The session closes its own descriptor, whatever its children do.
Release(s) == sess[s].held /\ NowOpen([sess EXCEPT ![s].held = FALSE]) /\ DeviceOnly

DeviceStep == \E s \in Session : \/ \E a \in Api : Acquire(a, s)
                                 \/ ChildStarts(s) \/ ChildEnds(s) \/ Release(s)

-----------------------------------------------------------------------------
(* An API process.                                                         *)

ApiOnly == UNCHANGED <<setupVars, services, opVars, alien, hit>>

\* The end of the process closes its lock and its descriptors, not its children's.
Dead(a) ==
  /\ api' = [api EXCEPT ![a].st = "dead", ![a].term = FALSE]
  /\ owner' = IF owner = a THEN None ELSE owner
  /\ NowOpen([s \in Session |-> IF sess[s].api = a THEN [sess[s] EXCEPT !.held = FALSE] ELSE sess[s]])

Becomes(a, st) == api' = [api EXCEPT ![a].st = st]

ApiGuard(a) ==
  /\ api[a].st = "starting"
  /\ \/ /\ owner = None /\ owner' = a /\ Becomes(a, "locked") /\ UNCHANGED deviceVars
     \/ owner # None /\ Dead(a)
  /\ ApiOnly /\ UNCHANGED <<recorded, orphans, crashes>>

ApiRecord(a) ==
  /\ api[a].st = "locked" /\ recorded' = a /\ Becomes(a, "recorded")
  /\ ApiOnly /\ UNCHANGED <<owner, orphans, deviceVars, crashes>>

\* The application starts on its port with its database, or fails.
ApiServe(a) ==
  /\ api[a].st = "recorded" /\ ~api[a].term
  /\ \/ services /\ Becomes(a, "serving")
     \/ Becomes(a, "leaving")
  /\ ApiOnly /\ UNCHANGED <<recorded, owner, orphans, deviceVars, crashes>>

\* A signal ends a process that loads at once, and makes one that serves drain.
ApiTerm(a) ==
  /\ api[a].term
  /\ \/ /\ api[a].st = "recorded" /\ Dead(a)
     \/ /\ api[a].st = "serving" /\ Becomes(a, "leaving") /\ UNCHANGED <<owner, deviceVars>>
  /\ ApiOnly /\ UNCHANGED <<recorded, orphans, crashes>>

\* It removes its own record only.
ApiLeave(a) ==
  /\ api[a].st = "leaving" /\ recorded' = IF recorded = a THEN None ELSE recorded
  /\ Dead(a)
  /\ ApiOnly /\ UNCHANGED <<orphans, crashes>>

ApiKilled(a) ==
  /\ api[a].st \in Live /\ Crash /\ Dead(a)
  /\ ApiOnly /\ UNCHANGED <<recorded, orphans>>

ApiStep(a) == ApiGuard(a) \/ ApiRecord(a) \/ ApiServe(a) \/ ApiTerm(a) \/ ApiLeave(a) \/ ApiKilled(a)

\* Some other process of the machine takes a free pid, or ends.
Other ==
  /\ IF alien = None THEN alien' \in Pid \ InUse ELSE alien' = None
  /\ UNCHANGED <<setupVars, services, opVars, apiVars, hit, deviceVars, crashes>>

ProfileNext ==
  \/ \E o \in Operator : OperatorStep(o) \/ Killed(o)
  \/ \E a \in Api : ApiStep(a)
  \/ DeviceStep \/ Other

ProfileSpec == ProfileInit /\ [][ProfileNext]_profileVars

-----------------------------------------------------------------------------
\* Every variable keeps its shape, and live processes have pids of their own.
ProfileTypeOK ==
  /\ files \in 0..Whole /\ software \in {"none", "partial", "ready"}
  /\ {services, hit} \subseteq BOOLEAN
  /\ recorded \in Api \cup {None} /\ owner \in Api \cup {None} /\ orphans \subseteq Api
  /\ opLock \in Operator \cup {None} /\ alien \in Pid \cup {None} /\ crashes \in 0..MaxCrashes
  /\ device \in Session \cup {None}
  /\ \A a, b \in LiveApis : PidOf(a) # alien /\ (a # b => PidOf(a) # PidOf(b))
  /\ \A o \in Operator : cmd[o].at \notin {"idle", "init"} => opLock = o

\* No process but an API of this profile is ever signalled, though records outlive
\* their processes and pids are used again between any two looks at them.
NoForeignSignal == ~hit

\* One device, one owner: while a session or a GPU child of it has the lease, none of
\* another session runs, through released sessions and killed APIs.
OneDeviceOwner == Cardinality({s \in Session : sess[s].held \/ sess[s].child}) <= 1

\* An API stays recorded, and its services up, from its record to its own end, over
\* failed and killed commands; but for one whose launcher was gone before the record.
OwnedApiIsKept ==
  \A a \in Api \ orphans : api[a].st \in Kept => recorded = a /\ services

\* The record that every command goes by and the lease that every session takes can
\* be relied on, whatever was killed.
OwnershipIsKept == ProfileTypeOK /\ NoForeignSignal /\ OwnedApiIsKept /\ OneDeviceOwner

\* "a launcher failure cannot leave an unrecorded API."
RecordedApi == \A a \in Api : api[a].st \in Kept => recorded = a
=============================================================================
