----------------------------- MODULE OwnedRuns ------------------------------
(***************************************************************************)
(* Programs that run other programs of the qualification one after the     *)
(* other and judge them: the matrices, the lifecycle pair and the soak,    *)
(* with run_owned_process() of qualify_claire_receiver_matrix.py, which    *)
(* starts a case as the leader of a group of its own and lets it go only   *)
(* when no process of the group is left.                                   *)
(*                                                                         *)
(* The processes of a case are numbered in the order they are started; the *)
(* leader is 0.  None of them leaves the group.                            *)
(***************************************************************************)
EXTENDS Integers, Sequences

CONSTANTS
  Rows,     \* the cases of a matrix
  Forks,    \* bound: processes a case starts
  Stops     \* bound: interrupts of the runner, limits it runs into and calls that raise

ASSUME OwnedRunsAssumption == Rows \in Nat \ {0} /\ Forks \in Nat /\ Stops \in Nat

VARIABLES
  runner,   \* the program that runs the others
  phase,    \* where it stands; "gone" when it has ended
  leader,   \* "none", "live", its exit "zero" or "one" while it is not reaped, "reaped"
  others,   \* the other live processes of the group
  started,  \* how many the case has started
  killed,   \* the group was sent SIGKILL: none of it can start another
  names,    \* of /proc, still to be read
  found,    \* one that was read is alive
  listedTo,   \* those started when the fence first read /proc
  goal,     \* why the group is fenced: "exit", "timeout", "raise"
  code,     \* of the case
  told,     \* what it wrote itself: "none"; "same", "changed": the files it was started from
  rows,     \* what was noted of each case
  changed,  \* a file that was pinned at the beginning is not what it was
  raised,   \* an exception is on its way out
  concluded,  \* the report: "none", "completed", "failed"
  cutShort,      \* history: the fence of an exception was itself broken off
  stops

ownedVars == <<runner, phase, leader, others, started, killed, names, found, listedTo, goal, code, told,
               rows, changed, raised, concluded, cutShort, stops>>

caseVars == <<leader, others, started, killed>>      \* the processes
fenceVars == <<names, found, listedTo, goal>>
bookVars == <<code, told, rows, concluded>>

RowsOf == IF runner = "soak" THEN 1 ELSE Rows
Live == others \cup (IF leader = "live" THEN {0} ELSE {})

OwnedInit ==
  /\ runner \in {"receiver", "publisher", "rate", "lifecycle", "soak", "inbound"} /\ phase = "next"
  /\ leader = "none" /\ others = {} /\ started = 0 /\ killed = FALSE
  /\ names = {} /\ found = FALSE /\ listedTo = 0 /\ goal = "exit"
  /\ code = "none" /\ told = "none" /\ rows = <<>> /\ changed = FALSE
  /\ raised = FALSE /\ concluded = "none" /\ cutShort = FALSE /\ stops = 0

Onward(next) == phase' = next
StopSpent == stops < Stops /\ stops' = stops + 1

-----------------------------------------------------------------------------
(* The processes of a case, and the files.                                 *)

\* A process starts another; the receiver of the inbound matrix has none.
Starts ==
  /\ Live # {} /\ ~killed /\ started < Forks /\ runner # "inbound"
  /\ started' = started + 1 /\ others' = others \cup {started + 1}
  /\ UNCHANGED <<runner, phase, leader, killed, changed, raised, cutShort, stops>>
  /\ UNCHANGED <<fenceVars, bookVars>>

\* By itself, or by a signal.
ProcessEnds ==
  /\ \/ leader = "live" /\ leader' \in {"zero", "one"} /\ UNCHANGED others
     \/ UNCHANGED leader /\ \E p \in others : others' = others \ {p}
  /\ UNCHANGED <<runner, phase, started, killed, changed, raised, cutShort, stops>>
  /\ UNCHANGED <<fenceVars, bookVars>>

\* The case stores its report, with the files it read again at its end.
Tells ==
  /\ leader = "live" /\ told = "none" /\ told' = IF changed THEN "changed" ELSE "same"
  /\ UNCHANGED <<runner, phase, code, rows, concluded, changed, raised, cutShort, stops>>
  /\ UNCHANGED <<caseVars, fenceVars>>

FileChanges ==
  /\ phase # "gone" /\ ~changed /\ changed' = TRUE
  /\ UNCHANGED <<runner, phase, raised, cutShort, stops>> /\ UNCHANGED <<caseVars, fenceVars, bookVars>>

-----------------------------------------------------------------------------
(* run_owned_process().                                                    *)

StartsCase ==
  /\ phase = "next" /\ Len(rows) < RowsOf /\ Onward("waiting")
  /\ leader' = "live" /\ others' = {} /\ started' = 0 /\ killed' = FALSE
  /\ names' = {} /\ found' = FALSE /\ listedTo' = 0 /\ goal' = "exit"
  /\ code' = "none" /\ told' = "none"
  /\ UNCHANGED <<runner, rows, changed, raised, concluded, cutShort, stops>>

\* The exit is looked at, and the leader left unreaped; or the time is over.
Waits ==
  /\ phase = "waiting" /\ runner # "inbound" /\ Onward("list")
  /\ \/ leader # "live" /\ UNCHANGED <<goal, stops>>
     \/ StopSpent /\ goal' = "timeout"
  /\ UNCHANGED <<runner, names, found, listedTo, changed, raised, cutShort>> /\ UNCHANGED <<caseVars, bookVars>>

\* live_group_members(): all names at once, then one after the other.
Lists ==
  /\ phase \in {"list", "list again"} /\ Onward(IF phase = "list" THEN "scan" ELSE "scan again")
  /\ names' = others \cup {0} /\ found' = FALSE
  /\ listedTo' = IF phase = "list" THEN started ELSE listedTo
  /\ UNCHANGED <<runner, goal, changed, raised, cutShort, stops>> /\ UNCHANGED <<caseVars, bookVars>>

Reads ==
  /\ phase \in {"scan", "scan again"}
  /\ \E p \in names : /\ \A q \in names : p <= q
                      /\ names' = names \ {p} /\ found' = (found \/ p \in Live)
  /\ UNCHANGED <<runner, phase, listedTo, goal, changed, raised, cutShort, stops>> /\ UNCHANGED <<caseVars, bookVars>>

\* fence_group(): nothing to do; or SIGTERM, the time it grants, SIGKILL, and a wait for the
\* last of them, which has a limit of its own.
Scanned ==
  /\ phase = "scan" /\ names = {} /\ Onward(IF found THEN "term" ELSE "reap")
  /\ UNCHANGED <<runner, changed, raised, cutShort, stops>> /\ UNCHANGED <<caseVars, fenceVars, bookVars>>

Terminates ==
  /\ phase = "term" /\ Onward("kill")
  /\ UNCHANGED <<runner, changed, raised, cutShort, stops>> /\ UNCHANGED <<caseVars, fenceVars, bookVars>>

Kills ==
  /\ phase = "kill" /\ Onward("list again") /\ killed' = TRUE
  /\ UNCHANGED <<runner, leader, others, started, changed, raised, cutShort, stops>>
  /\ UNCHANGED <<fenceVars, bookVars>>

ScannedAgain ==
  /\ phase = "scan again" /\ names = {} /\ Onward(IF found THEN "list again" ELSE "reap")
  /\ UNCHANGED <<runner, changed, raised, cutShort, stops>> /\ UNCHANGED <<caseVars, fenceVars, bookVars>>

\* MUTANT: the exit is taken with the descendants that were stopped after it.
Reaps_Lenient ==
  /\ phase = "reap" /\ leader' = "reaped" /\ Onward(IF goal = "raise" THEN "gone" ELSE "row")
  /\ code' = IF goal = "timeout" THEN "timeout" ELSE leader
  /\ UNCHANGED <<runner, others, started, killed, told, rows, concluded, changed, raised, cutShort, stops>>
  /\ UNCHANGED fenceVars

\* Now the leader may be reaped.  Descendants that had to be stopped spoil a success.
Reaps ==
  /\ phase = "reap" /\ leader' = "reaped" /\ Onward(IF goal = "raise" THEN "gone" ELSE "row")
  /\ code' = CASE goal = "timeout" -> "timeout"
               [] goal # "timeout" /\ killed /\ leader = "zero" -> "descendants"
               [] OTHER -> leader
  /\ UNCHANGED <<runner, others, started, killed, told, rows, concluded, changed, raised, cutShort, stops>>
  /\ UNCHANGED fenceVars

Inside == {"waiting", "list", "scan", "term", "kill", "list again", "scan again", "reap"}

\* SIGTERM and Ctrl-C become an exception, as does a group that does not end in its time: the
\* group is fenced once more, and an exception in that fence ends the runner.
Interrupted ==
  /\ runner # "inbound" /\ phase \in Inside /\ StopSpent /\ raised' = TRUE
  /\ IF goal = "raise" THEN cutShort' = TRUE /\ Onward("gone") /\ UNCHANGED goal
     ELSE goal' = "raise" /\ Onward("list") /\ UNCHANGED cutShort
  /\ UNCHANGED <<runner, names, found, listedTo, changed>> /\ UNCHANGED <<caseVars, bookVars>>

\* subprocess.run() of the inbound matrix: its time is over, or it is interrupted: it kills the
\* process itself.  That program has no handler for SIGTERM, which ends it on the spot.
InboundWaits ==
  /\ runner = "inbound" /\ phase = "waiting"
  /\ \/ /\ leader # "live" /\ leader' = "reaped" /\ code' = leader /\ Onward("row")
        /\ UNCHANGED <<raised, cutShort, stops>>
     \/ StopSpent /\ leader' = "reaped" /\ code' = "timeout" /\ Onward("row") /\ UNCHANGED <<raised, cutShort>>
     \/ /\ StopSpent /\ leader' = "reaped" /\ raised' = TRUE /\ Onward("gone") /\ UNCHANGED <<code, cutShort>>
     \/ StopSpent /\ raised' = TRUE /\ cutShort' = TRUE /\ Onward("gone") /\ UNCHANGED <<leader, code>>
  /\ UNCHANGED <<runner, others, started, killed, told, rows, concluded, changed>> /\ UNCHANGED fenceVars

-----------------------------------------------------------------------------
(* What each program makes of a case, and of all of them.                  *)

Noted(valid, next) ==
  /\ rows' = Append(rows, [code |-> code, valid |-> valid, told |-> told]) /\ Onward(next)
  /\ UNCHANGED <<raised, stops>>

\* Whether the log shows a panic and the report is what it should be is a choice.
ReceiverRow ==
  /\ runner = "receiver"
  /\ \E valid \in {FALSE, code = "zero" /\ told = "same"} :
       Noted(valid, IF valid /\ ~changed THEN "next" ELSE "judge")

PublisherRow ==
  /\ runner = "publisher"
  /\ \E valid \in {FALSE, code = "zero" /\ told = "same"} : Noted(valid, IF valid THEN "next" ELSE "judge")

\* With a schedule, a turn that does not reach the last phase is an exception.
RateRow ==
  /\ runner = "rate"
  /\ \/ \E valid \in {FALSE, code = "zero" /\ told = "same"} : Noted(valid, IF valid THEN "next" ELSE "judge")
     \/ code = "zero" /\ told # "none" /\ raised' = TRUE /\ Onward("gone") /\ UNCHANGED <<rows, stops>>

\* The receipt says whether the files are still the same.
LifecycleRow ==
  /\ runner = "lifecycle"
  /\ \E valid \in {FALSE, code = "zero" /\ told = "same" /\ ~changed} :
       Noted(valid, IF valid THEN "next" ELSE "judge")

\* The output exists; the file it came from is looked at before the next one.
InboundRow ==
  /\ runner = "inbound"
  /\ \E valid \in {FALSE, code = "zero" /\ told # "none"} :
       Noted(valid, IF valid /\ ~changed THEN "next" ELSE "judge")

\* The summary of the browser, the samples and what is left of the service.
SoakRow ==
  /\ runner = "soak"
  /\ \E valid \in {FALSE, code = "zero" /\ told # "none"} : Noted(valid, "judge")

TakesRow ==
  /\ phase = "row"
  /\ ReceiverRow \/ PublisherRow \/ RateRow \/ LifecycleRow \/ InboundRow \/ SoakRow
  /\ UNCHANGED <<runner, code, told, concluded, changed, cutShort>> /\ UNCHANGED <<caseVars, fenceVars>>

AllTaken ==
  /\ phase = "next" /\ Len(rows) = RowsOf /\ Onward("judge")
  /\ UNCHANGED <<runner, changed, raised, cutShort, stops>> /\ UNCHANGED <<caseVars, fenceVars, bookVars>>

\* All but the inbound matrix look at the files a last time.
Concludes ==
  /\ phase = "judge" /\ Onward("gone")
  /\ LET complete == /\ Len(rows) = RowsOf /\ \A i \in DOMAIN rows : rows[i].valid
                     /\ runner # "inbound" => ~changed
     IN concluded' = IF complete THEN "completed" ELSE "failed"
  /\ UNCHANGED <<runner, code, told, rows, changed, raised, cutShort, stops>> /\ UNCHANGED <<caseVars, fenceVars>>

\* An interrupt between two cases, or a file that is missing or damaged.
FailsBetween ==
  /\ phase \in {"next", "row", "judge"} /\ StopSpent /\ raised' = TRUE /\ Onward("gone")
  /\ UNCHANGED <<runner, changed, cutShort>> /\ UNCHANGED <<caseVars, fenceVars, bookVars>>

OwnedNext ==
  \/ Starts \/ ProcessEnds \/ Tells \/ FileChanges
  \/ StartsCase \/ Waits \/ Lists \/ Reads \/ Scanned \/ Terminates \/ Kills \/ ScannedAgain \/ Reaps
  \/ Interrupted \/ InboundWaits \/ TakesRow \/ AllTaken \/ Concludes
  \/ FailsBetween

OwnedSpec == OwnedInit /\ [][OwnedNext]_ownedVars

-----------------------------------------------------------------------------
\* A case is let go when it is over.  A signal goes to the group only while its leader, dead or
\* alive, holds the number of the group.  When the runner goes on or ends, no process of the
\* case is left, with one exception the code has: one that was started after the fence had
\* taken the names and whose parent ended before it was looked at; and none at all if the
\* group was killed.  Only an exception during the fence of an exception leaves more.  A case
\* noted with exit zero ended by itself and left nobody who was seen.  A completed report means
\* that all cases were noted valid, each from the files of the beginning, which are unchanged
\* at the end; the inbound matrix alone does not notice a change during its last case.
GroupsAreOwned ==
  /\ phase \in {"term", "kill"} => leader \in {"live", "zero", "one"}
  /\ phase \in {"row", "next", "judge"} \/ (phase = "gone" /\ ~cutShort) =>
       /\ leader \in {"none", "reaped"}
       /\ \A p \in others : p > listedTo /\ ~killed
  /\ phase = "row" /\ code = "zero" => ~killed /\ goal = "exit"
  /\ phase = "gone" /\ ~raised => concluded # "none"
  /\ concluded = "completed" =>
       /\ Len(rows) = RowsOf /\ \A i \in DOMAIN rows : rows[i].valid /\ rows[i].code = "zero"
       /\ runner # "inbound" => ~changed
       /\ runner \notin {"inbound", "soak"} => \A i \in DOMAIN rows : rows[i].told = "same"
=============================================================================
