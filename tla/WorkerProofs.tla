----------------------------- MODULE WorkerProofs -----------------------------
(***************************************************************************)
(* The API process around the lifecycle service, for any number of         *)
(* consents, uploads, assets, sessions, attempts, events and faults:       *)
(* every step of the loop, of the actors and of the requests is a step the *)
(* lifecycle allows, and no actor outlives a revocation.                   *)
(***************************************************************************)
EXTENDS ImportWorker, LifecycleProofs

\* Whoever imports has a claim that was given to it.
ClaimHeld ==
  worker.pc \in {"import", "invalid", "storage"} =>
    worker.asset \in Asset /\ worker.fence \in Fence /\ worker.step \in 1..8

\* Only the loop ends an event, and it forgets those it has ended.
BatchPending == worker.batch \subseteq outbox

\* The request that revokes holds mutation_lock as long as its transaction is open, and
\* so does the one that has checked a manifest and not given the row its actor.
LockHeld ==
  /\ mutex = "revoke" <=> revoking.active
  /\ \A s \in Session : actor[s] = "checked" =>
       mutex = "create" /\ \A t \in Session : actor[t] = "checked" => t = s

ActorsHaveRows ==
  \A s \in Session : actor[s] # "none" => session[s].status # "absent" /\ session[s].asset \in Asset

\* An actor that is not fenced has an approved asset, but for the time in which the
\* request that revoked it is about to fence it.
ActorsServed ==
  \A s \in Session : actor[s] \in {"checked", "running"} =>
    \/ serving[session[s].asset] = "approved"
    \/ mutex = "fence" /\ session[s].asset \in fencing

\* The inductive invariant, beside that of Lifecycle.
WorkerSound ==
  /\ Consistent
  /\ WorkerTypeOK /\ ClaimHeld /\ BatchPending /\ LockHeld /\ ActorsHaveRows /\ ActorsServed
  /\ NoStreamAfterReceipt

-----------------------------------------------------------------------------
(* Steps of the lifecycle that no actor notices                            *)

\* A session keeps its asset, what is served stays so, no event comes or goes and no
\* revocation begins or ends.
Undisturbed ==
  /\ \A s \in Session : session[s].status # "absent" =>
       session'[s].status # "absent" /\ session'[s].asset = session[s].asset
  /\ \A a \in Asset : serving[a] = "approved" => serving'[a] = "approved"
  /\ UNCHANGED <<outbox, receipts>> /\ revoking'.active = revoking.active

LEMMA NothingDisturbs ==
  ASSUME UNCHANGED vars
  PROVE  Undisturbed
BY DEF vars, Undisturbed

LEMMA RequestsDisturbNothing ==
  ASSUME TypeOK, Capture \/ Import \/ Time
  PROVE  Undisturbed
<1>1. CASE Capture \/ Time
  BY <1>1, CaptureFrame, TimeFrame DEF Undisturbed
<1>2. CASE Import
  <2>1. \A a \in Asset : serving[a] = "approved" => serving'[a] = "approved"
    BY ZenonT(30), <1>2 DEF Import, Enroll, Claim, Stage, WriteImportObject, WriteImportObjectKilled, Finish,
                Fail, Approve, Cancel, TypeOK
  <2> QED  BY <1>2, <2>1, ImportFrame DEF Undisturbed
<1> QED  BY <1>1, <1>2

LEMMA StoreDisturbsNothing ==
  ASSUME TypeOK, UnreservedSessions, Serve
  PROVE  Undisturbed
<1>1. ASSUME NEW t \in Session, session[t].status # "absent"
      PROVE  session'[t].status # "absent" /\ session'[t].asset = session[t].asset
  <2>1. CASE \E s \in Session, a \in Asset : Reserve(s, a)
    BY <1>1, <2>1 DEF Reserve, TypeOK
  <2>2. CASE \E s \in Session, status \in {"READY", "ACTIVE", "CLOSED", "FAILED"} :
               UpdateSession(s, status)
    BY <1>1, <2>2 DEF UpdateSession, TypeOK, SessionRow
  <2>3. CASE Recover \/ \E s \in Session : StopOrphan(s)
    <3> PICK r \in SessionRow : r = session[t]
      BY DEF TypeOK
    <3> DEFINE ended(status) == [r EXCEPT !.status = status, !.fence = @ + 1]
    <3>1. /\ ended("FAILED").asset = r.asset /\ ended("FAILED").status = "FAILED"
          /\ ended("CLOSED").asset = r.asset /\ ended("CLOSED").status = "CLOSED"
      BY DEF SessionRow
    <3>2. session'[t] \in {r, ended("FAILED"), ended("CLOSED")}
      <4>1. CASE Recover
        BY <4>1 DEF Recover
      <4>2. ASSUME NEW s \in Session, StopOrphan(s) PROVE session'[t] \in {r, ended("CLOSED")}
        BY <4>2 DEF StopOrphan, TypeOK
      <4> QED  BY <2>3, <4>1, <4>2
    <3> HIDE DEF ended
    <3> QED  BY <1>1, <3>1, <3>2
  <2> QED  BY <2>1, <2>2, <2>3 DEF Serve
<1> QED  BY <1>1, ServeFrame DEF Undisturbed

\* Nor does a purge that is interrupted, or a revocation that takes a lock.
LEMMA LocksDisturbNothing ==
  ASSUME TypeOK, NEW a \in Asset, LockServing(a)
  PROVE  Undisturbed
<1> PICK r \in Revocation : r = revoking
  BY DEF TypeOK
<1>1. revoking'.active = r.active
  BY DEF LockServing, Revocation
<1> QED  BY <1>1 DEF Undisturbed, LockServing

LEMMA PurgesDisturbNothing ==
  ASSUME NEW e, PurgeAssetInterrupted(e)
  PROVE  Undisturbed
BY DEF Undisturbed, PurgeAssetInterrupted

-----------------------------------------------------------------------------
(* Actors                                                                  *)

\* Where an asset is approved no receipt of its deletion exists.
LEMMA ApprovedHasNoReceipt ==
  ASSUME Consistent, NEW e \in receipts, e.kind = "revoke_asset"
  PROVE  e.id \in Asset /\ serving[e.id] # "approved"
<1>1. e.id \in Asset
  BY DEF Consistent, TypeOK, Event
<1> QED  BY <1>1 DEF Consistent, RevocationIsFinal, ServedIffApproved

ActorsAreSound == ActorsHaveRows /\ ActorsServed /\ NoStreamAfterReceipt

\* A step that no actor notices and that changes none.
LEMMA ActorsStay ==
  ASSUME ActorsAreSound, Undisturbed, actor' = actor, fencing' = fencing,
         mutex = "fence" => mutex' = "fence"
  PROVE  ActorsAreSound'
<1>1. ActorsHaveRows' /\ ActorsServed'
  BY DEF ActorsAreSound, ActorsHaveRows, ActorsServed, Undisturbed
<1>2. NoStreamAfterReceipt'
  BY DEF ActorsAreSound, ActorsHaveRows, NoStreamAfterReceipt, AffectedBy, Undisturbed
<1> QED  BY <1>1, <1>2 DEF ActorsAreSound

\* A step that changes one actor.
LEMMA OneActorStep ==
  ASSUME ActorsAreSound, Consistent, WorkerTypeOK, Undisturbed, NEW s \in Session,
         NEW new \in ActorState, actor' = [actor EXCEPT ![s] = new], fencing' = fencing,
         mutex = "fence" => mutex' = "fence",
         new # "none" => session'[s].status # "absent" /\ session'[s].asset \in Asset,
         new \in {"checked", "running"} =>
           session[s].status # "absent" /\ serving[session[s].asset] = "approved",
         new # "fenced"
  PROVE  ActorsAreSound'
<1>1. actor'[s] = new /\ \A t \in Session \ {s} : actor'[t] = actor[t]
  BY DEF WorkerTypeOK
<1>2. ActorsHaveRows'
  BY <1>1 DEF ActorsAreSound, ActorsHaveRows, Undisturbed
<1>3. ActorsServed'
  BY <1>1, <1>2 DEF ActorsAreSound, ActorsHaveRows, ActorsServed, Undisturbed
<1>4. NoStreamAfterReceipt'
  <2> SUFFICES ASSUME NEW e \in receipts, e.kind = "revoke_asset", NEW t \in Session,
                      session'[t].asset = e.id, actor'[t] \in {"checked", "running", "fenced"}
               PROVE  FALSE
    BY DEF NoStreamAfterReceipt, AffectedBy, Undisturbed
  <2>1. CASE t = s
    BY <1>1, <2>1, ApprovedHasNoReceipt DEF Undisturbed
  <2>2. CASE t # s
    BY <1>1, <2>2 DEF ActorsAreSound, ActorsHaveRows, NoStreamAfterReceipt, AffectedBy, Undisturbed
  <2> QED  BY <2>1, <2>2
<1> QED  BY <1>2, <1>3, <1>4 DEF ActorsAreSound

\* All actors are gone.
LEMMA NoActorStep ==
  ASSUME actor' = [s \in Session |-> "none"]
  PROVE  ActorsAreSound' /\ actor' \in [Session -> ActorState]
BY DEF ActorsAreSound, ActorsHaveRows, ActorsServed, NoStreamAfterReceipt, AffectedBy, ActorState

-----------------------------------------------------------------------------
(* The worker task                                                         *)

WorkerRow == [pc : {"claim", "import", "invalid", "storage", "outbox", "event", "expire"},
              asset : Asset \cup {NoAsset}, fence : Fence \cup {0}, step : 0..8, batch : SUBSET Event]

LEMMA PlanLength == Len(ImportPlan) = 8
BY DEF ImportPlan

WorkerIsWell == worker \in WorkerRow /\ ClaimHeld /\ BatchPending

LEMMA ListingWell ==
  ASSUME NEW b, b \subseteq outbox, TypeOK, outbox' = outbox,
         worker' = [Idle EXCEPT !.pc = "event", !.batch = b]
  PROVE  WorkerIsWell'
<1>1. worker' = [pc |-> "event", asset |-> NoAsset, fence |-> 0, step |-> 0, batch |-> b]
  BY DEF Idle
<1>2. b \subseteq Event
  BY DEF TypeOK
<1>3. worker' \in WorkerRow /\ worker'.pc = "event" /\ worker'.batch = b
  BY <1>1, <1>2 DEF WorkerRow
<1> QED  BY <1>3 DEF WorkerIsWell, ClaimHeld, BatchPending

LEMMA GotoWell ==
  ASSUME NEW pc \in {"claim", "outbox", "expire"}, Goto(pc)
  PROVE  WorkerIsWell'
<1>1. /\ [Idle EXCEPT !.pc = pc] \in WorkerRow /\ [Idle EXCEPT !.pc = pc].pc = pc
      /\ [Idle EXCEPT !.pc = pc].batch = {}
  BY DEF Idle, WorkerRow, NoAsset
<1> QED  BY <1>1 DEF Goto, WorkerIsWell, ClaimHeld, BatchPending

\* The import goes on with the next call, or goes wrong.
LEMMA ImportGoesOn ==
  ASSUME WorkerIsWell, Importing, outbox' = outbox,
         \/ Advance /\ Call # "finish"
         \/ \E pc \in {"invalid", "storage"} : worker' = [worker EXCEPT !.pc = pc]
  PROVE  WorkerIsWell'
<1> PICK w \in WorkerRow : w = worker
  BY DEF WorkerIsWell
<1>1. /\ w.asset \in Asset /\ w.fence \in Fence /\ w.step \in 1..8 /\ w.batch \subseteq outbox
  BY DEF WorkerIsWell, ClaimHeld, BatchPending, Importing
<1>2. CASE Advance /\ Call # "finish"
  <2>1. w.step # 8
    BY <1>2 DEF Call, ImportPlan
  <2> PICK n \in 1..8 : n = w.step + 1
    BY <1>1, <2>1
  <2>2. worker' = [w EXCEPT !.step = n]
    BY <1>2 DEF Advance
  <2> QED  BY <1>1, <2>2 DEF WorkerIsWell, ClaimHeld, BatchPending, WorkerRow
<1>3. CASE \E pc \in {"invalid", "storage"} : worker' = [worker EXCEPT !.pc = pc]
  BY <1>1, <1>3 DEF WorkerIsWell, ClaimHeld, BatchPending, WorkerRow
<1> QED  BY <1>2, <1>3

LEMMA WorkerStays ==
  ASSUME WorkerIsWell, worker' = worker, outbox \subseteq outbox'
  PROVE  WorkerIsWell'
BY DEF WorkerIsWell, ClaimHeld, BatchPending

-----------------------------------------------------------------------------
(* What a step has to do                                                   *)

ProcTypes ==
  /\ up \in BOOLEAN /\ actor \in [Session -> ActorState]
  /\ mutex \in {"free", "create", "revoke", "fence"}
  /\ fencing \subseteq Asset /\ faults \in 0..MaxFaults

\* It is a step of the lifecycle, or none, and leaves the process sound.
StepIsSound ==
  /\ [Next]_vars
  /\ WorkerIsWell' /\ LockHeld' /\ ActorsAreSound' /\ ProcTypes'

LEMMA PartsOf ==
  ASSUME WorkerSound
  PROVE  Consistent /\ TypeOK /\ WorkerIsWell /\ LockHeld /\ ActorsAreSound /\ ProcTypes
BY PlanLength DEF WorkerSound, WorkerTypeOK, WorkerIsWell, WorkerRow, ActorsAreSound, ProcTypes, Consistent

LEMMA SoundAfter ==
  ASSUME WorkerSound, StepIsSound
  PROVE  WorkerSound'
<1>1. Consistent'
  BY PartsOf, ConsistentStep DEF StepIsSound
<1>2. WorkerTypeOK'
  BY PlanLength DEF StepIsSound, WorkerTypeOK, WorkerIsWell, WorkerRow, ProcTypes
<1> QED  BY <1>1, <1>2 DEF StepIsSound, WorkerSound, WorkerIsWell, ActorsAreSound

LEMMA FaultType ==
  ASSUME WorkerSound, Fault
  PROVE  faults' \in 0..MaxFaults
BY WorkerAssumption DEF Fault, WorkerSound, WorkerTypeOK

\* A step of the worker that no actor notices.
LEMMA WorkerStep ==
  ASSUME WorkerSound, [Next]_vars, Undisturbed, UNCHANGED <<up, actor, mutex, fencing>>,
         faults' \in 0..MaxFaults, WorkerIsWell'
  PROVE  StepIsSound
<1>1. LockHeld' /\ ProcTypes'
  BY PartsOf DEF LockHeld, ProcTypes, Undisturbed
<1>2. ActorsAreSound'
  BY PartsOf, ActorsStay
<1> QED  BY <1>1, <1>2 DEF StepIsSound

\* One with an action of Import, or with none.
LEMMA ImportedStep ==
  ASSUME WorkerSound, Import \/ UNCHANGED vars, UNCHANGED <<up, actor, mutex, fencing>>,
         faults' \in 0..MaxFaults, outbox' = outbox => WorkerIsWell'
  PROVE  StepIsSound
<1>1. Undisturbed /\ [Next]_vars
  BY PartsOf, NothingDisturbs, RequestsDisturbNothing DEF Next
<1> QED  BY <1>1, WorkerStep DEF Undisturbed

LEMMA FaultsStay ==
  ASSUME WorkerSound, faults' = faults
  PROVE  faults' \in 0..MaxFaults
BY DEF WorkerSound, WorkerTypeOK

-----------------------------------------------------------------------------
(* The import half of the loop                                             *)

LEMMA ClaimJobStep ==
  ASSUME WorkerSound, ClaimJob
  PROVE  StepIsSound
<1> PICK a \in Asset : /\ Claim(a)
                       /\ IF job'[a].status = "running"
                            THEN worker' = [Idle EXCEPT !.pc = "import", !.step = 1,
                                                        !.asset = a, !.fence = job'[a].fence]
                            ELSE Goto("outbox")
  BY DEF ClaimJob
<1>1. Import
  BY DEF Import
<1>2. UNCHANGED <<up, actor, mutex, fencing, faults>>
  BY DEF ClaimJob, WorkerOnly
<1>3. WorkerIsWell'
  <2>1. CASE job'[a].status = "running"
    <3>1. Taken(a) \/ GivenUp(a)
      BY PartsOf, ClaimEffect
    <3>2. Taken(a)
      BY <2>1, <3>1 DEF GivenUp
    <3>3. /\ job[a].fence = job[a].attempt /\ job[a].fence \in Nat /\ MaxAttempts \in Nat
          /\ job[a].fence < MaxAttempts
      BY PartsOf, <3>2, RowTypes DEF Taken, Consistent, FenceCountsAttempts, Unfinished
    <3> PICK f \in Fence : f = job'[a].fence
      BY <3>2, <3>3 DEF Taken, Fence
    <3>4. worker' = [pc |-> "import", asset |-> a, fence |-> f, step |-> 1, batch |-> {}]
      BY <2>1 DEF Idle
    <3> QED  BY <3>4 DEF WorkerIsWell, WorkerRow, ClaimHeld, BatchPending
  <2>2. CASE job'[a].status # "running"
    BY <2>2, GotoWell
  <2> QED  BY <2>1, <2>2
<1> QED  BY <1>1, <1>2, <1>3, FaultsStay, ImportedStep

LEMMA CallOfWorker ==
  ASSUME WorkerSound, Importing
  PROVE  worker.asset \in Asset /\ worker.fence \in Fence
BY DEF WorkerSound, ClaimHeld, Importing

LEMMA StageImportStep ==
  ASSUME WorkerSound, StageImport
  PROVE  StepIsSound
<1>1. Import
  BY CallOfWorker DEF StageImport, Import
<1>2. UNCHANGED <<up, actor, mutex, fencing, faults>> /\ Call # "finish"
  BY DEF StageImport, WorkerOnly, StageNames
<1> QED  BY <1>1, <1>2, PartsOf, ImportGoesOn, FaultsStay, ImportedStep DEF StageImport

LEMMA ReadUploadStep ==
  ASSUME WorkerSound, ReadUpload
  PROVE  StepIsSound
<1>1. UNCHANGED <<up, actor, mutex, fencing, faults>> /\ UNCHANGED vars /\ Call # "finish" /\ Importing
  BY DEF ReadUpload, WorkerOnly
<1>2. Advance \/ worker' = [worker EXCEPT !.pc = "invalid"]
  BY DEF ReadUpload
<1> QED  BY <1>1, <1>2, PartsOf, ImportGoesOn, FaultsStay, ImportedStep

LEMMA WriteFileStep ==
  ASSUME WorkerSound, WriteFile
  PROVE  StepIsSound
<1>1. Import
  BY CallOfWorker, ImportedFiles DEF WriteFile, Import
<1>2. UNCHANGED <<up, actor, mutex, fencing, faults>> /\ Call # "finish" /\ Importing /\ Advance
  BY DEF WriteFile, WorkerOnly, Files
<1> QED  BY <1>1, <1>2, PartsOf, ImportGoesOn, FaultsStay, ImportedStep

\* The calls after which the loop goes to the outbox.
LEMMA ToOutboxStep ==
  ASSUME WorkerSound, FinishImport \/ ImportFenced \/ NothingToClaim \/ ReportFailure
  PROVE  StepIsSound
<1>1. Import \/ UNCHANGED vars
  <2>1. CASE FinishImport
    BY <2>1, CallOfWorker DEF FinishImport, Import
  <2>2. CASE ReportFailure
    BY <2>2 DEF ReportFailure, Import, WorkerSound, ClaimHeld
  <2> QED  BY <2>1, <2>2 DEF ImportFenced, NothingToClaim
<1>2. UNCHANGED <<up, actor, mutex, fencing, faults>> /\ Goto("outbox")
  BY DEF FinishImport, ImportFenced, NothingToClaim, ReportFailure, WorkerOnly
<1> QED  BY <1>1, <1>2, GotoWell, FaultsStay, ImportedStep

\* Those after which it reports a failure.
LEMMA ImportGoesWrongStep ==
  ASSUME WorkerSound, ImportInvalid \/ StorageError
  PROVE  StepIsSound
<1>1. /\ UNCHANGED <<up, actor, mutex, fencing>> /\ UNCHANGED vars /\ Importing
      /\ \E pc \in {"invalid", "storage"} : worker' = [worker EXCEPT !.pc = pc]
  BY DEF ImportInvalid, StorageError, WorkerOnly
<1>2. faults' \in 0..MaxFaults
  BY FaultType, FaultsStay DEF ImportInvalid, StorageError, WorkerOnly
<1> QED  BY <1>1, <1>2, PartsOf, ImportGoesOn, ImportedStep

LEMMA ImportStepSound ==
  ASSUME WorkerSound, ImportStep
  PROVE  StepIsSound
BY ClaimJobStep, StageImportStep, ReadUploadStep, WriteFileStep, ToOutboxStep, ImportGoesWrongStep
   DEF ImportStep

-----------------------------------------------------------------------------
(* The outbox half of the loop                                             *)

LEMMA DropWell ==
  ASSUME WorkerIsWell, worker.pc = "event", NEW e, Drop(e), outbox \ {e} \subseteq outbox'
  PROVE  WorkerIsWell'
<1> PICK w \in WorkerRow : w = worker
  BY DEF WorkerIsWell
<1>1. worker' = [w EXCEPT !.batch = w.batch \ {e}]
  BY DEF Drop
<1>2. w.batch \subseteq outbox /\ w.pc = "event" /\ w.batch \ {e} \subseteq Event
  BY DEF WorkerIsWell, BatchPending, WorkerRow
<1>3. worker' \in WorkerRow /\ worker'.pc = "event" /\ worker'.batch = w.batch \ {e}
  BY <1>1, <1>2 DEF WorkerRow
<1> QED  BY <1>2, <1>3 DEF WorkerIsWell, ClaimHeld, BatchPending

LEMMA ListOutboxStep ==
  ASSUME WorkerSound, ListOutbox
  PROVE  StepIsSound
<1> DEFINE b == {e \in outbox : Cardinality({d \in outbox : d.at < e.at}) < OutboxBatch}
<1>1. b \subseteq outbox /\ worker' = [Idle EXCEPT !.pc = "event", !.batch = b]
  BY DEF ListOutbox
<1> HIDE DEF b
<1>2. UNCHANGED <<up, actor, mutex, fencing, faults>> /\ UNCHANGED vars
  BY DEF ListOutbox, WorkerOnly
<1> QED  BY <1>1, <1>2, PartsOf, ListingWell, FaultsStay, ImportedStep

\* The event stays pending and the loop goes on with the next.
LEMMA EventStaysStep ==
  ASSUME WorkerSound, NEW e, Handling(e), Drop(e), UNCHANGED vars,
         UNCHANGED <<up, actor, mutex, fencing>>, faults' \in 0..MaxFaults
  PROVE  StepIsSound
<1>1. WorkerIsWell'
  BY PartsOf, DropWell DEF Handling, vars
<1> QED  BY <1>1, ImportedStep

LEMMA HandleConsentStep ==
  ASSUME WorkerSound, NEW e \in worker.batch, HandleConsent(e)
  PROVE  StepIsSound
<1> USE PartsOf
<1>1. CASE UNCHANGED vars
  BY <1>1, EventStaysStep, FaultsStay DEF HandleConsent, WorkerOnly
<1>2. CASE PurgeConsent(e)
  <2>1. e \in outbox /\ Drop(e) /\ worker.pc = "event" /\ UNCHANGED <<up, actor, mutex, fencing, faults>>
    BY DEF WorkerIsWell, BatchPending, HandleConsent, Handling, WorkerOnly
  <2>2. Next /\ UNCHANGED <<session, serving, revoking>> /\ outbox' = outbox \ {e}
        /\ receipts' = receipts \cup {e} /\ e.kind = "revoke_consent"
    BY <1>2, <2>1 DEF Next, Revoke, PurgeConsent
  <2>3. WorkerIsWell'
    BY <2>1, <2>2, DropWell
  <2>4. LockHeld' /\ ProcTypes'
    BY <2>1, <2>2 DEF LockHeld, ProcTypes
  <2>5. ActorsAreSound'
    BY <2>1, <2>2 DEF ActorsAreSound, ActorsHaveRows, ActorsServed, NoStreamAfterReceipt, AffectedBy
  <2> QED  BY <2>2, <2>3, <2>4, <2>5 DEF StepIsSound
<1> QED  BY <1>1, <1>2 DEF HandleConsent

\* The receipt is written when no actor streams the asset, and none is about to be made
\* for it: it would hold the lock, and have found the asset approved.
LEMMA HandleAssetStep ==
  ASSUME WorkerSound, NEW e \in worker.batch, HandleAsset(e)
  PROVE  StepIsSound
<1> USE PartsOf
<1>1. CASE UNCHANGED vars
  BY <1>1, EventStaysStep, FaultsStay DEF HandleAsset, WorkerOnly
<1>2. CASE e \in outbox /\ PurgeAsset(e)
  <2>1. Drop(e) /\ worker.pc = "event" /\ UNCHANGED <<up, actor, mutex, fencing, faults>>
        /\ SessionsHandled(e)
    BY DEF HandleAsset, Handling, WorkerOnly
  <2>2. Next /\ UNCHANGED <<session, serving, revoking>> /\ outbox' = outbox \ {e}
        /\ receipts' = receipts \cup {e} /\ e.kind = "revoke_asset" /\ asset[e.id].status = "revoked"
    BY <1>2 DEF Next, Revoke, PurgeAsset, Purgeable
  <2>3. WorkerIsWell'
    BY <2>1, <2>2, DropWell
  <2>4. LockHeld' /\ ProcTypes'
    BY <2>1, <2>2 DEF LockHeld, ProcTypes
  <2>5. e.id \in Asset /\ serving[e.id] # "approved"
    BY <1>2, <2>2 DEF TypeOK, Event, Consistent, ServedIffApproved
  <2>6. \A s \in AffectedBy(e) : actor[s] \notin {"checked", "running", "fenced"}
    <3> SUFFICES ASSUME NEW s \in AffectedBy(e), actor[s] \in {"checked", "running", "fenced"}
                 PROVE  FALSE
      OBVIOUS
    <3>1. s \in Session /\ session[s].asset = e.id /\ actor[s] = "checked"
      BY <2>1 DEF AffectedBy, SessionsHandled, Registered
    <3> QED  BY <2>5, <3>1 DEF LockHeld, ActorsAreSound, ActorsServed
  <2>7. ActorsHaveRows' /\ ActorsServed'
    BY <2>1, <2>2 DEF ActorsAreSound, ActorsHaveRows, ActorsServed
  <2>8. NoStreamAfterReceipt'
    BY <2>1, <2>2, <2>6 DEF ActorsAreSound, NoStreamAfterReceipt, AffectedBy
  <2> QED  BY <2>2, <2>3, <2>4, <2>7, <2>8 DEF StepIsSound, ActorsAreSound
<1> QED  BY <1>1, <1>2 DEF HandleAsset

LEMMA RoomErrorStep ==
  ASSUME WorkerSound, NEW e \in worker.batch, RoomError(e)
  PROVE  StepIsSound
BY EventStaysStep, FaultType DEF RoomError

\* One actor changes its state while the store changes its row, or nothing.
LEMMA ActorChanges ==
  ASSUME WorkerSound, Serve \/ UNCHANGED vars, NEW s \in Session, NEW new \in ActorState,
         actor' = [actor EXCEPT ![s] = new], up' = up, fencing' = fencing, faults' \in 0..MaxFaults,
         outbox' = outbox => WorkerIsWell', LockHeld', mutex' \in {"free", "create", "revoke", "fence"},
         mutex = "fence" => mutex' = "fence",
         new # "none" => \/ actor[s] # "none"
                         \/ session'[s].status # "absent" /\ session'[s].asset \in Asset,
         new \in {"checked", "running"} =>
           session[s].status # "absent" /\ serving[session[s].asset] = "approved",
         new # "fenced"
  PROVE  StepIsSound
<1> USE PartsOf
<1>1. Undisturbed /\ [Next]_vars
  BY NothingDisturbs, StoreDisturbsNothing DEF Next, Consistent
<1>2. new # "none" => session'[s].status # "absent" /\ session'[s].asset \in Asset
  BY <1>1 DEF Undisturbed, ActorsAreSound, ActorsHaveRows
<1>3. WorkerTypeOK
  BY DEF WorkerSound
<1>4. ActorsAreSound'
  BY <1>1, <1>2, <1>3, OneActorStep
<1>5. ProcTypes'
  BY DEF ProcTypes
<1> QED  BY <1>1, <1>4, <1>5 DEF StepIsSound, Undisturbed

LEMMA LockStays ==
  ASSUME WorkerSound, Serve \/ UNCHANGED vars, NEW s \in Session, NEW new \in ActorState,
         actor' = [actor EXCEPT ![s] = new], new # "checked", mutex' = mutex
  PROVE  LockHeld' /\ mutex' \in {"free", "create", "revoke", "fence"} /\ outbox' = outbox
<1>1. UNCHANGED <<outbox, revoking>>
  BY ServeFrame DEF vars
<1> QED  BY <1>1, PartsOf DEF LockHeld, ProcTypes

LEMMA CloseActorStep ==
  ASSUME WorkerSound, NEW e \in worker.batch, NEW s \in Session, CloseActor(e, s)
  PROVE  StepIsSound
<1>1. /\ Serve /\ actor' = [actor EXCEPT ![s] = "none"]
      /\ UNCHANGED <<up, worker, mutex, fencing, faults>>
  BY DEF CloseActor, Serve
<1>2. outbox' = outbox => WorkerIsWell'
  BY <1>1, PartsOf, WorkerStays
<1> QED
  BY <1>1, <1>2, FaultsStay, LockStays, ActorChanges DEF ActorState

LEMMA ClosePendingStep ==
  ASSUME WorkerSound, NEW e \in worker.batch, NEW s \in Session, ClosePending(e, s)
  PROVE  StepIsSound
<1>1. /\ UNCHANGED vars /\ actor' = [actor EXCEPT ![s] = "stopped"] /\ actor[s] # "none"
      /\ UNCHANGED <<up, mutex, fencing>> /\ Drop(e) /\ worker.pc = "event"
  BY DEF ClosePending, Handling, Streaming
<1>2. WorkerIsWell' /\ faults' \in 0..MaxFaults
  BY <1>1, PartsOf, DropWell, FaultType, FaultsStay DEF ClosePending, vars
<1> QED  BY <1>1, <1>2, LockStays, ActorChanges DEF ActorState

\* The store changes a row, and no actor changes.
LEMMA StoreStep ==
  ASSUME WorkerSound, Serve, UNCHANGED procVars
  PROVE  StepIsSound
<1>1. Undisturbed /\ [Next]_vars
  BY PartsOf, StoreDisturbsNothing DEF Next, Consistent
<1>2. WorkerIsWell'
  BY <1>1, PartsOf, WorkerStays DEF Undisturbed, procVars
<1> QED  BY <1>1, <1>2, FaultsStay, WorkerStep DEF procVars

LEMMA StopRowStep ==
  ASSUME WorkerSound, NEW e \in worker.batch, NEW s \in Session, StopRow(e, s)
  PROVE  StepIsSound
BY StoreStep DEF StopRow, Serve

\* A request, or the clock, changes neither actors nor the loop.
LEMMA RequestStep ==
  ASSUME WorkerSound, Capture \/ Import \/ Time, UNCHANGED procVars
  PROVE  StepIsSound
<1>1. Undisturbed /\ [Next]_vars
  BY PartsOf, RequestsDisturbNothing DEF Next
<1>2. WorkerIsWell'
  BY <1>1, PartsOf, WorkerStays DEF Undisturbed, procVars
<1> QED  BY <1>1, <1>2, FaultsStay, WorkerStep DEF procVars

LEMMA ToNextPassStep ==
  ASSUME WorkerSound, EndOfOutbox \/ ExpireStep
  PROVE  StepIsSound
<1>1. /\ UNCHANGED <<up, actor, mutex, fencing, faults>>
      /\ \E pc \in {"claim", "expire"} : Goto(pc)
      /\ Capture \/ UNCHANGED vars
  BY DEF EndOfOutbox, ExpireStep, WorkerOnly, Capture
<1>2. WorkerIsWell'
  BY <1>1, GotoWell
<1>3. Undisturbed /\ [Next]_vars
  BY <1>1, PartsOf, NothingDisturbs, RequestsDisturbNothing DEF Next
<1> QED  BY <1>1, <1>2, <1>3, FaultsStay, WorkerStep

LEMMA OutboxStepSound ==
  ASSUME WorkerSound, OutboxStep
  PROVE  StepIsSound
BY ListOutboxStep, HandleConsentStep, CloseActorStep, ClosePendingStep, StopRowStep, RoomErrorStep,
   HandleAssetStep, ToNextPassStep DEF OutboxStep

-----------------------------------------------------------------------------
(* Session actors                                                          *)

LEMMA ReserveSessionStep ==
  ASSUME WorkerSound, NEW s \in Session, NEW a \in Asset, ReserveSession(s, a)
  PROVE  StepIsSound
<1>1. /\ Serve /\ actor' = [actor EXCEPT ![s] = "creating"]
      /\ UNCHANGED <<up, worker, mutex, fencing, faults>>
  BY DEF ReserveSession, Serve
<1>2. session'[s].status # "absent" /\ session'[s].asset \in Asset
  BY PartsOf DEF ReserveSession, Reserve, TypeOK
<1>3. outbox' = outbox => WorkerIsWell'
  BY <1>1, PartsOf, WorkerStays
<1> QED
  BY <1>1, <1>2, <1>3, FaultsStay, LockStays, ActorChanges DEF ActorState

\* What the manifest says is what revocation would have changed.
LEMMA CheckManifestStep ==
  ASSUME WorkerSound, NEW s \in Session, CheckManifest(s)
  PROVE  StepIsSound
<1> USE PartsOf
<1>1. /\ UNCHANGED vars /\ actor' = [actor EXCEPT ![s] = "checked"]
      /\ UNCHANGED <<up, worker, fencing, faults>> /\ mutex = "free" /\ mutex' = "create"
      /\ actor[s] # "none" /\ asset[session[s].asset].status = "approved"
  BY DEF CheckManifest, ManifestServed
<1>2. session[s].status # "absent" /\ serving[session[s].asset] = "approved"
  BY <1>1 DEF ActorsAreSound, ActorsHaveRows, Consistent, ServedIffApproved
<1>3. LockHeld'
  BY <1>1 DEF LockHeld, vars
<1>4. WorkerIsWell'
  BY <1>1, WorkerStays DEF vars
<1> QED
  BY <1>1, <1>2, <1>3, <1>4, FaultsStay, ActorChanges DEF ActorState

LEMMA RefuseSessionStep ==
  ASSUME WorkerSound, NEW s \in Session, RefuseSession(s)
  PROVE  StepIsSound
<1>1. /\ Serve \/ UNCHANGED vars
      /\ actor' = [actor EXCEPT ![s] = "none"] /\ UNCHANGED <<up, worker, mutex, fencing, faults>>
  BY DEF RefuseSession, Serve
<1>2. outbox' = outbox => WorkerIsWell'
  BY <1>1, PartsOf, WorkerStays
<1> QED
  BY <1>1, <1>2, FaultsStay, LockStays, ActorChanges DEF ActorState

LEMMA StartActorStep ==
  ASSUME WorkerSound, NEW s \in Session, StartActor(s)
  PROVE  StepIsSound
<1> USE PartsOf
<1>1. /\ UNCHANGED vars /\ actor' = [actor EXCEPT ![s] = "running"]
      /\ UNCHANGED <<up, worker, fencing, faults>> /\ mutex = "create" /\ mutex' = "free"
      /\ actor[s] = "checked"
  BY DEF StartActor, LockHeld
<1>2. session[s].status # "absent" /\ serving[session[s].asset] = "approved"
  BY <1>1 DEF ActorsAreSound, ActorsHaveRows, ActorsServed
<1>3. WorkerIsWell'
  BY <1>1, WorkerStays DEF vars
<1>4. LockHeld'
  BY <1>1 DEF LockHeld, vars, ProcTypes
<1> QED
  BY <1>1, <1>2, <1>3, <1>4, FaultsStay, ActorChanges DEF ActorState

LEMMA ActorUpdateStep ==
  ASSUME WorkerSound, NEW s \in Session, ActorUpdate(s)
  PROVE  StepIsSound
BY StoreStep DEF ActorUpdate, Serve

LEMMA ActorClosesStep ==
  ASSUME WorkerSound, NEW s \in Session, ActorCloses(s)
  PROVE  StepIsSound
<1> PICK new \in {"none", "stopped"} : actor' = [actor EXCEPT ![s] = new]
  BY DEF ActorCloses
<1>1. /\ Serve \/ UNCHANGED vars
      /\ UNCHANGED <<up, worker, mutex, fencing>> /\ actor[s] # "none"
  BY DEF ActorCloses, Serve, Streaming
<1>2. faults' \in 0..MaxFaults
  BY FaultType, FaultsStay DEF ActorCloses
<1>3. outbox' = outbox => WorkerIsWell'
  BY <1>1, PartsOf, WorkerStays
<1> QED
  BY <1>1, <1>2, <1>3, LockStays, ActorChanges DEF ActorState

LEMMA ReapStep ==
  ASSUME WorkerSound, NEW s \in Session, Reap(s)
  PROVE  StepIsSound
<1>1. /\ UNCHANGED vars /\ actor' = [actor EXCEPT ![s] = "none"]
      /\ UNCHANGED <<up, worker, mutex, fencing, faults>>
  BY DEF Reap
<1>2. WorkerIsWell'
  BY <1>1, PartsOf, WorkerStays DEF vars
<1> QED
  BY <1>1, <1>2, FaultsStay, LockStays, ActorChanges DEF ActorState

-----------------------------------------------------------------------------
(* revoke_resource                                                         *)

LEMMA ApiRevokeStep ==
  ASSUME WorkerSound, ApiRevoke
  PROVE  StepIsSound
<1> USE PartsOf
<1> PICK C, A : BeginRevoke(C, A)
  BY DEF ApiRevoke, RevokeAsset, RevokeConsent
<1>1. Next
  BY DEF ApiRevoke, Next, Revoke
<1>2. /\ UNCHANGED <<up, worker, actor, fencing, faults>> /\ mutex = "free" /\ mutex' = "revoke"
      /\ UNCHANGED <<session, serving, outbox, receipts>>
  BY DEF ApiRevoke, BeginRevoke
<1>3. revoking'.active
  BY DEF BeginRevoke, NotRevoking
<1>4. WorkerIsWell'
  BY <1>2, WorkerStays
<1>5. LockHeld' /\ ProcTypes'
  BY <1>2, <1>3 DEF LockHeld, ProcTypes
<1>6. ActorsAreSound'
  BY <1>2 DEF ActorsAreSound, ActorsHaveRows, ActorsServed, NoStreamAfterReceipt, AffectedBy
<1> QED  BY <1>1, <1>4, <1>5, <1>6 DEF StepIsSound

LEMMA ApiLockStep ==
  ASSUME WorkerSound, ApiLock
  PROVE  StepIsSound
<1>1. Next /\ UNCHANGED procVars
  BY DEF ApiLock, Next, Revoke
<1>2. Undisturbed
  BY PartsOf, LocksDisturbNothing DEF ApiLock
<1>3. WorkerIsWell'
  BY <1>1, <1>2, PartsOf, WorkerStays DEF Undisturbed, procVars
<1> QED  BY <1>1, <1>2, <1>3, FaultsStay, WorkerStep DEF procVars

LEMMA CommitKeeps ==
  ASSUME TypeOK, CommitRevoke
  PROVE  /\ \A s \in Session : /\ session'[s].asset = session[s].asset
                               /\ session[s].status # "absent" => session'[s].status # "absent"
         /\ \A a \in Asset \ revoking.assets : serving'[a] = serving[a]
         /\ outbox \subseteq outbox' /\ receipts' = receipts /\ ~revoking'.active
<1>1. \A s \in Session : /\ session'[s].asset = session[s].asset
                         /\ session[s].status # "absent" => session'[s].status # "absent"
  BY DEF CommitRevoke, TypeOK, SessionRow
<1>2. \A a \in Asset \ revoking.assets : serving'[a] = serving[a]
  BY DEF CommitRevoke
<1>3. outbox \subseteq outbox' /\ receipts' = receipts /\ ~revoking'.active
  BY DEF CommitRevoke, NotRevoking
<1> QED  BY <1>1, <1>2, <1>3

\* From the commit on, whoever runs with a revoked asset is about to be fenced.
LEMMA ApiCommitStep ==
  ASSUME WorkerSound, ApiCommit
  PROVE  StepIsSound
<1> USE PartsOf
<1>1. /\ UNCHANGED <<up, worker, actor, faults>> /\ mutex = "revoke" /\ mutex' = "fence"
      /\ fencing' = revoking.assets /\ CommitRevoke
  BY DEF ApiCommit
<1>2. Next
  BY <1>1 DEF Next, Revoke
<1>3. WorkerIsWell'
  BY <1>1, CommitKeeps, WorkerStays
<1>4. revoking.assets \subseteq Asset
  BY DEF TypeOK, Revocation
<1>5. LockHeld' /\ ProcTypes'
  BY <1>1, <1>4, CommitKeeps DEF LockHeld, ProcTypes
<1>6. ActorsHaveRows'
  BY <1>1, CommitKeeps DEF ActorsAreSound, ActorsHaveRows
<1>7. ActorsServed'
  BY <1>1, CommitKeeps DEF ActorsAreSound, ActorsHaveRows, ActorsServed
<1>8. NoStreamAfterReceipt'
  BY <1>1, CommitKeeps DEF ActorsAreSound, NoStreamAfterReceipt, AffectedBy
<1> QED  BY <1>2, <1>3, <1>5, <1>6, <1>7, <1>8 DEF StepIsSound, ActorsAreSound

LEMMA ApiRollbackStep ==
  ASSUME WorkerSound, ApiRollback
  PROVE  StepIsSound
<1> USE PartsOf
<1>1. /\ UNCHANGED <<up, worker, actor, fencing>> /\ mutex = "revoke" /\ mutex' = "free"
      /\ UNCHANGED <<session, serving, outbox, receipts>> /\ ~revoking'.active /\ Next
  BY DEF ApiRollback, RollbackRevoke, NotRevoking, Next, Revoke
<1>2. faults' \in 0..MaxFaults
  BY FaultType DEF ApiRollback
<1>3. WorkerIsWell'
  BY <1>1, WorkerStays
<1>4. LockHeld' /\ ProcTypes'
  BY <1>1, <1>2 DEF LockHeld, ProcTypes
<1>5. ActorsAreSound'
  BY <1>1 DEF ActorsAreSound, ActorsHaveRows, ActorsServed, NoStreamAfterReceipt, AffectedBy
<1> QED  BY <1>1, <1>3, <1>4, <1>5 DEF StepIsSound

LEMMA FenceActorsStep ==
  ASSUME WorkerSound, FenceActors
  PROVE  StepIsSound
<1> USE PartsOf
<1>1. /\ UNCHANGED <<up, worker, faults>> /\ UNCHANGED vars /\ mutex = "fence" /\ mutex' = "free"
      /\ fencing' = {}
      /\ actor' = [s \in Session |-> IF actor[s] = "running" /\ session[s].asset \in fencing
                                     THEN "fenced" ELSE actor[s]]
  BY DEF FenceActors
<1>2. WorkerIsWell'
  BY <1>1, WorkerStays DEF vars
<1>3. ProcTypes'
  BY <1>1, FaultsStay DEF ProcTypes, ActorState
<1>4. LockHeld'
  BY <1>1 DEF LockHeld, vars
<1>5. ActorsHaveRows' /\ ActorsServed' /\ NoStreamAfterReceipt'
  BY <1>1 DEF LockHeld, vars, ActorsAreSound, ActorsHaveRows, ActorsServed, NoStreamAfterReceipt, AffectedBy
<1> QED  BY <1>1, <1>2, <1>3, <1>4, <1>5 DEF StepIsSound, ActorsAreSound

-----------------------------------------------------------------------------
(* The other requests and the death of the process                         *)

LEMMA ApiRequestStep ==
  ASSUME WorkerSound, ApiRequest \/ Tick
  PROVE  StepIsSound
<1>1. Capture \/ Import \/ Time
  BY DEF ApiRequest, Tick, Capture, Import
<1> QED  BY <1>1, RequestStep DEF ApiRequest, Tick

\* A kill leaves what the lifecycle leaves when a transaction or a write is cut short.
LEMMA KillStep ==
  ASSUME WorkerSound, Kill
  PROVE  StepIsSound
<1> USE PartsOf
<1>1. /\ up' = FALSE /\ worker' = Idle /\ actor' = [s \in Session |-> "none"] /\ mutex' = "free"
      /\ fencing' = {} /\ faults' \in 0..MaxFaults
  BY FaultType DEF Kill, Killed
<1>2. [Next]_vars /\ ~revoking'.active
  <2>1. CASE RollbackRevoke
    BY <2>1 DEF RollbackRevoke, NotRevoking, Next, Revoke
  <2>2. CASE Unlocked /\ UNCHANGED vars
    BY <2>2 DEF Unlocked, vars
  <2>3. CASE Importing /\ Call \in Files /\ WriteImportObjectKilled(worker.asset, worker.fence, Call)
    BY <2>3, CallOfWorker, ImportedFiles DEF Next, Import, WriteImportObjectKilled, Unlocked
  <2>4. CASE \E e \in worker.batch : e \in outbox /\ PurgeAssetInterrupted(e)
    BY <2>4 DEF Next, Revoke, PurgeAssetInterrupted, Unlocked
  <2>5. CASE \E u \in Upload : PutUploadKilled(u)
    BY <2>5 DEF Next, Capture, PutUploadKilled, Unlocked
  <2> QED  BY <2>1, <2>2, <2>3, <2>4, <2>5 DEF Kill
<1>3. WorkerIsWell'
  BY <1>1 DEF WorkerIsWell, WorkerRow, ClaimHeld, BatchPending, Idle
<1>4. ActorsAreSound' /\ ProcTypes' /\ LockHeld'
  BY <1>1, <1>2, NoActorStep DEF ProcTypes, LockHeld
<1> QED  BY <1>2, <1>3, <1>4 DEF StepIsSound

LEMMA RestartStep ==
  ASSUME WorkerSound, Restart
  PROVE  StepIsSound
<1> USE PartsOf
<1>1. (Recover \/ UNCHANGED vars) /\ up' = TRUE /\ UNCHANGED <<worker, actor, mutex, fencing, faults>>
  BY DEF Restart
<1>2. Undisturbed /\ [Next]_vars
  BY <1>1, NothingDisturbs, StoreDisturbsNothing DEF Next, Serve, Consistent
<1>3. WorkerIsWell' /\ ActorsAreSound'
  BY <1>1, <1>2, WorkerStays, ActorsStay DEF Undisturbed
<1>4. LockHeld' /\ ProcTypes'
  BY <1>1, <1>2 DEF LockHeld, ProcTypes, Undisturbed
<1> QED  BY <1>2, <1>3, <1>4 DEF StepIsSound

-----------------------------------------------------------------------------
(* The invariant and what follows from it                                  *)

LEMMA InitWorkerSound == WorkerInit => WorkerSound
<1> SUFFICES ASSUME WorkerInit PROVE WorkerSound
  OBVIOUS
<1>1. Consistent
  BY InitConsistent DEF WorkerInit
<1>2. WorkerIsWell
  BY DEF WorkerInit, WorkerIsWell, WorkerRow, ClaimHeld, BatchPending, Idle
<1>3. LockHeld /\ ActorsHaveRows /\ ActorsServed /\ NoStreamAfterReceipt
  BY DEF WorkerInit, Init, LockHeld, ActorsHaveRows, ActorsServed, NoStreamAfterReceipt, NotRevoking
<1>4. WorkerTypeOK
  BY <1>2, PlanLength, WorkerAssumption
     DEF WorkerInit, WorkerTypeOK, WorkerIsWell, WorkerRow, ActorState
<1> QED  BY <1>1, <1>2, <1>3, <1>4 DEF WorkerSound, WorkerIsWell

LEMMA WorkerNextSound ==
  ASSUME WorkerSound, WorkerNext
  PROVE  StepIsSound
<1>1. CASE \E s \in Session : ActorStep(s)
  BY <1>1, CheckManifestStep, RefuseSessionStep, StartActorStep, ReapStep DEF ActorStep
<1> QED
  BY <1>1, ImportStepSound, OutboxStepSound, ReserveSessionStep, ActorUpdateStep, ActorClosesStep,
     ApiRevokeStep, ApiLockStep, ApiCommitStep, ApiRollbackStep, FenceActorsStep, ApiRequestStep,
     KillStep, RestartStep
     DEF WorkerNext

LEMMA WorkerStutter ==
  ASSUME WorkerSound, UNCHANGED allVars
  PROVE  StepIsSound
<1>1. UNCHANGED vars /\ UNCHANGED <<up, worker, actor, mutex, fencing, faults>>
  BY DEF allVars, procVars
<1> QED  BY <1>1, PartsOf, WorkerStays, FaultsStay, ImportedStep DEF vars

\* Loop, actors, requests and kills keep the process sound, in any order.
THEOREM WorkerIsSound == WorkerSpec => []WorkerSound
<1>1. WorkerInit => WorkerSound
  BY InitWorkerSound
<1>2. WorkerSound /\ [WorkerNext]_allVars => WorkerSound'
  BY WorkerNextSound, WorkerStutter, SoundAfter
<1> QED  BY <1>1, <1>2, PTL DEF WorkerSpec

\* What the process does with the tables and files is what the lifecycle allows: its
\* theorems hold of the process too.
THEOREM WorkerIsLifecycle == WorkerSpec => LifecycleSpec
<1>1. WorkerInit => Init
  BY DEF WorkerInit
<1>2. WorkerSound /\ [WorkerNext]_allVars => [Next]_vars
  BY WorkerNextSound, WorkerStutter DEF StepIsSound
<1> QED  BY <1>1, <1>2, WorkerIsSound, PTL DEF WorkerSpec, LifecycleSpec, Spec

\* No actor speaks with an asset after the request that revoked it was answered, and
\* none streams one whose deletion receipt is written.
THEOREM NoActorOutlives == WorkerSpec => []NoActorOutlivesRevocation
<1>1. WorkerSound => NoActorOutlivesRevocation
  BY DEF WorkerSound, NoActorOutlivesRevocation, UnfencedActorIsAuthorized, ActorsServed
<1> QED  BY <1>1, WorkerIsSound, PTL
=============================================================================
