----------------------------- MODULE Qualifier ------------------------------
(***************************************************************************)
(* main() of qualify_claire_session_worker.py: one case after the other on *)
(* a worker of its own, faults among them, under the lease of the device;  *)
(* what a case owns is put away in its finally, and again in the finally   *)
(* of the whole run; and a report only of a run in which every case was    *)
(* what it should be.  Nothing is assumed of the worker.                   *)
(***************************************************************************)
EXTENDS Integers, Sequences

\* "live": a voice speaks to the worker, a room receives its tracks.  "recorded": the same
\* from a file.  "plain": nobody receives.  "malformed": what goes in breaks the protocol.
\* "flood": more goes in than the worker takes, until a signal ends it.
Kinds == {"live", "recorded", "plain", "malformed", "flood"}

CONSTANTS
  CaseLists,        \* the lists of cases the options of the script select
  QualifierFaults   \* bound: calls that raise or run into their limit

ASSUME QualifierAssumption == CaseLists \subseteq Seq(Kinds) /\ QualifierFaults \in Nat

VARIABLES
  cases,      \* the list of this run
  at,         \* the case, and where the run stands in it
  owned,      \* of each case: its room, its voice, its process
  worker,     \* of the current case: its first and second event, and how it exited
  publication, \* the identifiers it gave to its tracks
  bindings,   \* those of the cases so far
  together,   \* a sample of the memory saw voice and worker side by side
  passed,     \* history: each case that was recorded, and how its worker did
  lease,      \* of the device: held by this run
  hooked,     \* the trace of the FFI's callback is installed
  sources,    \* the files under test are those of the beginning
  raising,    \* an exception is on its way out
  report,     \* the report was written
  unclosed,   \* history: a close itself has raised
  qualifierFaults

qualifierVars == <<cases, at, owned, worker, publication, bindings, together, passed, lease, hooked,
                   sources, raising, report, unclosed, qualifierFaults>>

Kind == cases[at.case]
Mine(what) == <<at.case, what>>
Wanted(kind) == {"worker"} \cup (IF kind \in {"live", "recorded"} THEN {"room"} ELSE {})
                           \cup (IF kind = "live" THEN {"voice"} ELSE {})
Silent == [first |-> "none", second |-> "none", exit |-> "none"]
Faulty == Kind \in {"malformed", "flood"}

QualifierInit ==
  /\ cases \in CaseLists /\ at = [case |-> 0, step |-> "start"] /\ owned = {} /\ worker = Silent
  /\ publication = 0 /\ bindings = <<>> /\ together = FALSE /\ passed = <<>> /\ lease = FALSE
  /\ hooked = FALSE /\ sources = TRUE /\ raising = FALSE /\ report = FALSE /\ unclosed = FALSE
  /\ qualifierFaults = 0

GoTo(step) == at' = [at EXCEPT !.step = step]
Spend == qualifierFaults < QualifierFaults /\ qualifierFaults' = qualifierFaults + 1
Kept == UNCHANGED <<cases, together, lease, hooked, sources, report, unclosed>>
RunKept == UNCHANGED <<publication, bindings, passed>> /\ Kept

-----------------------------------------------------------------------------
(* What goes on beside main().                                             *)

\* The worker says what it likes, may end at any time, and obeys a signal.  It may give its
\* tracks identifiers of their own, or those another had.
WorkerActs ==
  /\ Mine("worker") \in owned /\ worker.exit = "none"
  /\ \/ /\ worker.first = "none" /\ worker' = [worker EXCEPT !.first = "ready"]
        /\ publication' \in 1..Len(bindings) + 1
     \/ worker.first = "none" /\ worker' = [worker EXCEPT !.first = "error"] /\ UNCHANGED publication
     \/ /\ worker.first # "none" /\ worker.second = "none" /\ UNCHANGED publication
        /\ \E word \in {"eof", "wrong eof", "error"} : worker' = [worker EXCEPT !.second = word]
     \/ /\ \E code \in {"zero", "one", "other"} : worker' = [worker EXCEPT !.exit = code]
        /\ UNCHANGED publication
  /\ UNCHANGED <<at, owned, bindings, passed, raising, qualifierFaults>> /\ Kept

\* Somebody edits a file that is under test.
Edited ==
  /\ at.step \notin {"start", "gone"} /\ sources /\ sources' = FALSE
  /\ UNCHANGED <<cases, at, owned, worker, publication, bindings, together, passed, lease, hooked,
                 raising, report, unclosed, qualifierFaults>>

\* The thread that asks for the memory of the device's processes ten times a second.
Samples ==
  /\ ~together /\ together' = TRUE
  /\ {Mine("voice"), Mine("worker")} \subseteq owned /\ worker.exit = "none"
  /\ UNCHANGED <<cases, at, owned, worker, publication, bindings, passed, lease, hooked, sources,
                 raising, report, unclosed, qualifierFaults>>

-----------------------------------------------------------------------------
\* The lease is taken, and the trace installed if it was asked for.
Started ==
  /\ at.step = "start" /\ GoTo("next") /\ lease' = TRUE /\ hooked' \in BOOLEAN
  /\ UNCHANGED <<cases, owned, worker, publication, bindings, together, passed, sources, raising,
                 report, unclosed, qualifierFaults>>

\* Something that has to exist or to be what it was pinned as is not, or the device is leased
\* to another: before anything is owned.
Refuses ==
  /\ at.step = "start" /\ GoTo("gone") /\ raising' = TRUE
  /\ UNCHANGED <<owned, worker, qualifierFaults>> /\ RunKept

NextCase ==
  /\ at.step = "next"
  /\ IF at.case = Len(cases) THEN GoTo("put away") /\ UNCHANGED <<worker, publication>>
     ELSE /\ at' = [case |-> at.case + 1, step |-> "opening"]
          /\ worker' = Silent /\ publication' = 0
  /\ UNCHANGED <<owned, bindings, passed, raising, qualifierFaults>> /\ Kept

\* Before the case's own try: room, voice and process are owned in this order, room and voice
\* before they are connected and opened.
Opens ==
  /\ at.step = "opening"
  /\ \/ /\ owned' = owned \cup {Mine(what) : what \in Wanted(Kind)} /\ GoTo("ready")
        /\ UNCHANGED <<raising, qualifierFaults>>
     \/ /\ Spend /\ raising' = TRUE /\ GoTo("put away")
        /\ \E reached \in {{}, {"room"}, {"room", "voice"}} :
             owned' = owned \cup {Mine(what) : what \in reached \cap Wanted(Kind)}
  /\ UNCHANGED worker /\ RunKept

\* An exception inside the case's try.
Raises == raising' = TRUE /\ GoTo("finally")

WorkerReady ==
  /\ at.step = "ready"
  /\ \/ /\ worker.first = "ready" /\ GoTo("feeding") /\ bindings' = Append(bindings, publication)
        /\ UNCHANGED <<raising, qualifierFaults>>
     \/ /\ worker.first = "error" \/ (worker.first = "none" /\ worker.exit # "none")
        /\ Raises /\ UNCHANGED <<bindings, qualifierFaults>>
     \/ Spend /\ Raises /\ UNCHANGED bindings
  /\ UNCHANGED <<owned, worker, publication, passed>> /\ Kept

\* Input goes in, and raises at the latest when the worker's end is noticed; a flood has to
\* meet backpressure, and is ended by a signal.
Feeds ==
  /\ at.step = "feeding"
  /\ \/ GoTo("result") /\ UNCHANGED <<raising, qualifierFaults>>
     \/ worker.exit # "none" /\ Raises /\ UNCHANGED qualifierFaults
     \/ Spend /\ Raises
  /\ UNCHANGED <<owned, worker>> /\ RunKept

\* MUTANT: any end of a malformed case will do.
AsExpected_Lenient ==
  CASE Kind = "malformed" -> worker.exit # "none"
    [] Kind = "flood" -> worker.exit = "zero"
    [] OTHER -> worker.second = "eof"

\* What the case has to see of its worker before it is recorded.
AsExpected ==
  CASE Kind = "malformed" -> worker.second = "error" /\ worker.exit = "one"
    [] Kind = "flood" -> worker.exit = "zero"
    [] OTHER -> worker.second = "eof"

\* The event it waits for, the exit it waits for, or the end of the events has come.
IsSettled ==
  \/ worker.exit # "none"
  \/ Kind # "flood" /\ worker.second \notin {"none"} \cup (IF Faulty THEN {"error"} ELSE {})

Record == passed' = Append(passed, [case |-> at.case, second |-> worker.second, exit |-> worker.exit])

Result ==
  /\ at.step = "result"
  /\ \/ AsExpected /\ Record /\ GoTo("retire") /\ UNCHANGED <<raising, qualifierFaults>>
     \/ ~AsExpected /\ IsSettled /\ Raises /\ UNCHANGED <<passed, qualifierFaults>>
     \/ Spend /\ Raises /\ UNCHANGED passed
  /\ UNCHANGED <<owned, worker, publication, bindings>> /\ Kept

\* A worker that has reported the end is asked to go, and has to go well; its traces are read,
\* the result is stored.
Retires ==
  /\ at.step = "retire"
  /\ \/ /\ Faulty \/ worker.exit = "zero"
        /\ GoTo("finally") /\ UNCHANGED <<raising, qualifierFaults>>
     \/ ~Faulty /\ worker.exit \notin {"none", "zero"} /\ Raises /\ UNCHANGED qualifierFaults
     \/ Spend /\ Raises
  /\ UNCHANGED <<owned, worker>> /\ RunKept

-----------------------------------------------------------------------------
(* The two finally blocks.  Process, voice, streams and room are put away  *)
(* in this order; a close that raises leaves what comes after it, and may  *)
(* or may not have closed its own.                                         *)

Killed == worker' = IF worker.exit = "none" THEN [worker EXCEPT !.exit = "killed"] ELSE worker
AfterRaise == {{}, {"room"}, {"voice", "room"}}

CaseFinally ==
  /\ at.step = "finally" /\ Killed
  /\ LET slots(what) == {slot \in owned : slot[1] = at.case /\ slot[2] \in what}
     IN \/ /\ owned' = owned \ slots({"room", "voice", "worker"})
           /\ GoTo(IF raising THEN "put away" ELSE "next")
           /\ UNCHANGED <<raising, unclosed, qualifierFaults>>
        \/ /\ Spend /\ raising' = TRUE /\ unclosed' = TRUE /\ GoTo("put away")
           /\ \E left \in AfterRaise :
                owned' = (owned \ slots({"room", "voice", "worker"})) \cup slots(left)
  /\ UNCHANGED <<cases, publication, bindings, together, passed, lease, hooked, sources, report>>

\* A close that raises here leaves the rest of this block undone; the samples are stored last.
RunFinally ==
  /\ at.step = "put away" /\ Killed
  /\ \/ /\ owned' = {} /\ hooked' = FALSE /\ lease' = FALSE
        /\ \/ GoTo(IF raising THEN "gone" ELSE "judge") /\ UNCHANGED <<raising, qualifierFaults>>
           \/ Spend /\ raising' = TRUE /\ GoTo("gone")
        /\ UNCHANGED unclosed
     \/ /\ Spend /\ raising' = TRUE /\ unclosed' = TRUE /\ GoTo("gone")
        /\ \E left \in AfterRaise : owned' = {slot \in owned : slot[2] \in left}
        /\ UNCHANGED <<hooked, lease>>
  /\ UNCHANGED <<cases, publication, bindings, together, passed, sources, report>>

FreshTracks == \A i, j \in DOMAIN bindings : i # j => bindings[i] # bindings[j]
IsLive == \E c \in DOMAIN cases : cases[c] = "live"

\* If the lease can be had again, no identifier was used twice, no file has changed, and voice
\* and worker were seen side by side, there is a report.
ReportIsWritten ==
  /\ at.step = "judge" /\ GoTo("gone")
  /\ LET sound == sources /\ FreshTracks /\ (IsLive => together)
     IN \/ sound /\ report' = TRUE /\ UNCHANGED <<raising, qualifierFaults>>
        \/ ~sound /\ raising' = TRUE /\ UNCHANGED <<report, qualifierFaults>>
        \/ Spend /\ raising' = TRUE /\ UNCHANGED report
  /\ UNCHANGED <<cases, owned, worker, publication, bindings, together, passed, lease, hooked,
                 sources, unclosed>>

QualifierNext ==
  \/ WorkerActs \/ Edited \/ Samples \/ Started \/ Refuses \/ NextCase \/ Opens \/ WorkerReady
  \/ Feeds \/ Result \/ Retires \/ CaseFinally \/ RunFinally \/ ReportIsWritten

QualifierSpec == QualifierInit /\ [][QualifierNext]_qualifierVars

-----------------------------------------------------------------------------
\* The run owns what it started until it has put it away: nothing of an earlier case runs on
\* into the next one, and when the run has ended, however it ended, no process is left, and
\* nothing else either unless a close has itself raised; only then is the lease kept.  A run
\* ends with a report or with an exception.  A report means that every case was recorded in
\* its turn, each on tracks of its own, malformed input was refused by an error and the exit
\* that says so, whatever was to be spoken was reported spoken, and a live run had voice and
\* worker on the device together.
RunIsOwned ==
  /\ \A slot \in owned : slot[1] = at.case
  /\ owned # {} => lease
  /\ at.step = "gone" =>
       /\ \A slot \in owned : slot[2] # "worker"
       /\ owned # {} \/ lease \/ hooked => unclosed /\ raising
       /\ report = ~raising
  /\ report =>
       /\ Len(passed) = Len(cases) /\ ~lease /\ owned = {}
       /\ \A c \in DOMAIN passed :
            passed[c].case = c /\ \A d \in DOMAIN passed : c # d => bindings[c] # bindings[d]
       /\ \A c \in DOMAIN cases :
            CASE cases[c] = "malformed" -> passed[c].second = "error" /\ passed[c].exit = "one"
              [] cases[c] = "flood" -> passed[c].exit = "zero"
              [] OTHER -> passed[c].second = "eof" /\ (cases[c] = "live" => together)
=============================================================================
