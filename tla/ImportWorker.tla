----------------------------- MODULE ImportWorker -----------------------------
(***************************************************************************)
(* The API process around the lifecycle service: the one worker loop of    *)
(* lifecycle_api.worker (claim, import, outbox, expiry), the in-memory     *)
(* session actors it closes, and the mutation_lock that revoke_resource    *)
(* and new_session share.  Every step that touches a table or a file is a  *)
(* step of Lifecycle; what is added here is who takes it and when.         *)
(*                                                                         *)
(* The process may be killed at any step; it then starts again through     *)
(* Store.recover.  Kills, storage errors, LiveKit errors and lost durable  *)
(* closes are drawn from one budget of MaxFaults.                          *)
(***************************************************************************)
EXTENDS Lifecycle, Sequences

CONSTANTS OutboxBatch,   \* pending events one pass of the loop lists (20)
          MaxFaults      \* bound on injected faults

ASSUME WorkerAssumption == OutboxBatch \in Nat \ {0} /\ MaxFaults \in Nat

VARIABLES
  up,       \* the API process runs
  worker,   \* the lifecycle worker task
  actor,    \* per session: its actor in the actors dict, or its creation
  mutex,    \* who holds mutation_lock
  fencing,  \* assets whose revocation committed but whose actors are not fenced
  faults

procVars == <<up, worker, actor, mutex, fencing, faults>>
allVars == <<vars, procVars>>

\* validate_import, as the calls it makes in order.
ImportPlan == <<"validate", "read", "export", "mesh", "avatar", "evaluate",
                "preview", "finish">>
StageNames == {"validate", "export", "evaluate"}
Files == {"mesh", "avatar", "preview"}

ASSUME ImportedFiles == Object = Files

Idle == [pc |-> "claim", asset |-> NoAsset, fence |-> 0, step |-> 0, batch |-> {}]

\* "creating": reserved, new_session waits for mutation_lock; "checked": its
\* manifest check passed; "stopped": closed, but the durable close is pending.
ActorState == {"none", "creating", "checked", "running", "fenced", "stopped"}
Registered(s) == actor[s] \in {"running", "fenced", "stopped"}
Streaming(s) == actor[s] \in {"running", "fenced"}

WorkerTypeOK ==
  /\ up \in BOOLEAN
  /\ worker \in [pc : {"claim", "import", "invalid", "storage", "outbox",
                       "event", "expire"},
                 asset : Asset \cup {NoAsset}, fence : Fence \cup {0},
                 step : 0..Len(ImportPlan), batch : SUBSET Event]
  /\ actor \in [Session -> ActorState]
  /\ mutex \in {"free", "create", "revoke", "fence"}
  /\ fencing \subseteq Asset
  /\ faults \in 0..MaxFaults

WorkerInit ==
  /\ Init
  /\ up = TRUE
  /\ worker = Idle
  /\ actor = [s \in Session |-> "none"]
  /\ mutex = "free"
  /\ fencing = {}
  /\ faults = 0

Fault == faults < MaxFaults /\ faults' = faults + 1

\* A step of the worker that ends at pc without touching anything else.
Goto(pc) == worker' = [Idle EXCEPT !.pc = pc]
WorkerOnly == UNCHANGED <<up, actor, mutex, fencing, faults>>

-----------------------------------------------------------------------------
(* The import half of the loop                                             *)

ClaimJob ==
  /\ up /\ worker.pc = "claim"
  /\ \E a \in Asset :
       /\ Claim(a)
       /\ IF job'[a].status = "running"
            THEN worker' = [Idle EXCEPT !.pc = "import", !.step = 1,
                                        !.asset = a, !.fence = job'[a].fence]
            ELSE Goto("outbox")
  /\ WorkerOnly

NothingToClaim ==
  /\ up /\ worker.pc = "claim"
  /\ Unlocked
  /\ \A a \in Asset : ~Claimable(a)
  /\ Goto("outbox")
  /\ WorkerOnly /\ UNCHANGED vars

Importing == up /\ worker.pc = "import"
Call == ImportPlan[worker.step]
Advance == worker' = [worker EXCEPT !.step = @ + 1]

StageImport ==
  /\ Importing /\ Call \in StageNames
  /\ Stage(worker.asset, worker.fence)
  /\ Advance
  /\ WorkerOnly

\* The upload is read without the lock: it may have been purged meanwhile.
ReadUpload ==
  /\ Importing /\ Call = "read"
  /\ IF job[worker.asset].upload \in file
       THEN Advance ELSE worker' = [worker EXCEPT !.pc = "invalid"]
  /\ WorkerOnly /\ UNCHANGED vars

\* MUTANT: the importer writes its files without the fenced transaction.
WriteFile_Unfenced ==
  /\ Importing /\ Call \in Files
  /\ objects' = [objects EXCEPT ![worker.asset] = @ \cup {Call}]
  /\ Advance
  /\ WorkerOnly
  /\ UNCHANGED <<consent, upload, file, leftover, asset, job, attempt, serving,
                 session, outbox, receipts, clock, revoking>>

WriteFile ==
  /\ Importing /\ Call \in Files
  /\ WriteImportObject(worker.asset, worker.fence, Call)
  /\ Advance
  /\ WorkerOnly

FinishImport ==
  /\ Importing /\ Call = "finish"
  /\ Finish(worker.asset, worker.fence)
  /\ Goto("outbox")
  /\ WorkerOnly

\* stale_import_attempt: the loop drops the claim and reports nothing.
ImportFenced ==
  /\ Importing /\ Call # "read"
  /\ Unlocked
  /\ IF Call \in StageNames THEN ~Owns(worker.asset, worker.fence)
     ELSE ~Publishable(worker.asset, worker.fence)
  /\ Goto("outbox")
  /\ WorkerOnly /\ UNCHANGED vars

\* The bundle, the loaded avatar or the rendered preview is refused.
ImportInvalid ==
  /\ Importing /\ Call \in {"read", "evaluate", "preview"}
  /\ worker' = [worker EXCEPT !.pc = "invalid"]
  /\ WorkerOnly /\ UNCHANGED vars

StorageError ==
  /\ Importing /\ Call \in Files \cup {"read"}
  /\ Fault
  /\ worker' = [worker EXCEPT !.pc = "storage"]
  /\ UNCHANGED <<up, actor, mutex, fencing>> /\ UNCHANGED vars

ReportFailure ==
  /\ up /\ worker.pc \in {"invalid", "storage"}
  /\ \/ Fail(worker.asset, worker.fence, worker.pc = "storage")
     \/ /\ Unlocked
        /\ ~(job[worker.asset].status = "running"
               /\ job[worker.asset].fence = worker.fence)
        /\ UNCHANGED vars
  /\ Goto("outbox")
  /\ WorkerOnly

ImportStep ==
  \/ ClaimJob \/ NothingToClaim \/ StageImport \/ ReadUpload \/ WriteFile
  \/ FinishImport \/ ImportFenced \/ ImportInvalid \/ StorageError
  \/ ReportFailure

-----------------------------------------------------------------------------
(* The outbox half of the loop                                             *)

ListOutbox ==
  /\ up /\ worker.pc = "outbox"
  /\ worker' = [Idle EXCEPT !.pc = "event", !.batch =
       {e \in outbox : Cardinality({d \in outbox : d.at < e.at}) < OutboxBatch}]
  /\ WorkerOnly /\ UNCHANGED vars

Handling(e) ==
  /\ up /\ worker.pc = "event"
  /\ e \in worker.batch
  /\ \A d \in worker.batch : e.at <= d.at

Drop(e) == worker' = [worker EXCEPT !.batch = @ \ {e}]

\* purge_consent returns False while an asset event of the consent is pending.
HandleConsent(e) ==
  /\ Handling(e) /\ e.kind = "revoke_consent"
  /\ \/ PurgeConsent(e)
     \/ Unlocked /\ ~ConsentPurgeable(e.id) /\ UNCHANGED vars
  /\ Drop(e)
  /\ WorkerOnly

AffectedBy(e) == {s \in Session : session[s].asset = e.id}

\* fence(permanent) and close of a live actor, whose close is persisted.
CloseActor(e, s) ==
  /\ Handling(e) /\ e.kind = "revoke_asset"
  /\ s \in AffectedBy(e) /\ Streaming(s)
  /\ UpdateSession(s, "FAILED")
  /\ actor' = [actor EXCEPT ![s] = "none"]
  /\ UNCHANGED <<up, worker, mutex, fencing, faults>>

\* The sources stop but the row is not written, now or at an earlier close:
\* close returns False and the event stays pending.
ClosePending(e, s) ==
  /\ Handling(e) /\ e.kind = "revoke_asset"
  /\ s \in AffectedBy(e)
  /\ \/ Streaming(s) /\ Fault
     \/ actor[s] = "stopped" /\ UNCHANGED faults
  /\ actor' = [actor EXCEPT ![s] = "stopped"]
  /\ Drop(e)
  /\ UNCHANGED <<up, mutex, fencing>> /\ UNCHANGED vars

StopRow(e, s) ==
  /\ Handling(e) /\ e.kind = "revoke_asset"
  /\ s \in AffectedBy(e) /\ ~Registered(s)
  /\ StopOrphan(s)
  /\ UNCHANGED procVars

RoomError(e) ==
  /\ Handling(e) /\ e.kind = "revoke_asset" /\ AffectedBy(e) # {}
  /\ Fault
  /\ Drop(e)
  /\ UNCHANGED <<up, actor, mutex, fencing>> /\ UNCHANGED vars

SessionsHandled(e) ==
  \A s \in AffectedBy(e) : ~Registered(s) /\ session[s].status # "DRAINING"

\* purge_and_receipt completes, does nothing for a complete event, or raises.
HandleAsset(e) ==
  /\ Handling(e) /\ e.kind = "revoke_asset"
  /\ SessionsHandled(e)
  /\ \/ e \in outbox /\ PurgeAsset(e)
     \/ Unlocked /\ (e \notin outbox \/ ~Purgeable(e.id)) /\ UNCHANGED vars
  /\ Drop(e)
  /\ WorkerOnly

EndOfOutbox ==
  /\ up /\ worker.pc = "event" /\ worker.batch = {}
  /\ Goto("expire")
  /\ WorkerOnly /\ UNCHANGED vars

ExpireStep ==
  /\ up /\ worker.pc = "expire"
  /\ \/ \E X \in SUBSET Upload : ExpireUploads(X)
     \/ Unlocked /\ (\A u \in Upload : ~Expired(u)) /\ UNCHANGED vars
  /\ Goto("claim")
  /\ WorkerOnly

OutboxStep ==
  \/ ListOutbox
  \/ \E e \in worker.batch : HandleConsent(e)
  \/ \E e \in worker.batch, s \in Session : CloseActor(e, s)
  \/ \E e \in worker.batch, s \in Session : ClosePending(e, s)
  \/ \E e \in worker.batch, s \in Session : StopRow(e, s)
  \/ \E e \in worker.batch : RoomError(e)
  \/ \E e \in worker.batch : HandleAsset(e)
  \/ EndOfOutbox
  \/ ExpireStep

-----------------------------------------------------------------------------
(* Session actors, as far as revocation meets them                         *)

ReserveSession(s, a) ==
  /\ up
  /\ Reserve(s, a)
  /\ actor' = [actor EXCEPT ![s] = "creating"]
  /\ UNCHANGED <<up, worker, mutex, fencing, faults>>

\* serving_manifest: approved under an active consent, and the file is there.
ManifestServed(a) ==
  /\ asset[a].status = "approved"
  /\ ConsentActive(asset[a].consent)
  /\ "avatar" \in objects[a]

\* MUTANT: new_session checks the manifest without mutation_lock.
CheckManifest_Unlocked(s) ==
  /\ up /\ actor[s] = "creating"
  /\ ManifestServed(session[s].asset)
  /\ actor' = [actor EXCEPT ![s] = "checked"]
  /\ UNCHANGED <<up, worker, mutex, fencing, faults>> /\ UNCHANGED vars

\* MUTANT: new_session trusts the row it reserved and checks no manifest.
CheckManifest_Trusting(s) ==
  /\ up /\ mutex = "free" /\ actor[s] = "creating"
  /\ mutex' = "create"
  /\ actor' = [actor EXCEPT ![s] = "checked"]
  /\ UNCHANGED <<up, worker, fencing, faults>> /\ UNCHANGED vars

CheckManifest(s) ==
  /\ up /\ mutex = "free" /\ actor[s] = "creating"
  /\ ManifestServed(session[s].asset)
  /\ mutex' = "create"
  /\ actor' = [actor EXCEPT ![s] = "checked"]
  /\ UNCHANGED <<up, worker, fencing, faults>> /\ UNCHANGED vars

\* The row is failed, unless another owner advanced its fence already.
RefuseSession(s) ==
  /\ up /\ mutex = "free" /\ actor[s] = "creating"
  /\ ~ManifestServed(session[s].asset)
  /\ \/ UpdateSession(s, "FAILED")
     \/ session[s].fence # 1 /\ UNCHANGED vars
  /\ actor' = [actor EXCEPT ![s] = "none"]
  /\ UNCHANGED <<up, worker, mutex, fencing, faults>>

StartActor(s) ==
  /\ up /\ actor[s] = "checked"
  /\ mutex' = "free"
  /\ actor' = [actor EXCEPT ![s] = "running"]
  /\ UNCHANGED <<up, worker, fencing, faults>> /\ UNCHANGED vars

ActorUpdate(s) ==
  /\ up /\ Streaming(s)
  /\ \E status \in {"READY", "ACTIVE"} : UpdateSession(s, status)
  /\ UNCHANGED procVars

\* The actor closes by itself: its client left, it failed, or close was called.
ActorCloses(s) ==
  /\ up /\ Streaming(s)
  /\ \/ /\ \E status \in {"CLOSED", "FAILED"} : UpdateSession(s, status)
        /\ actor' = [actor EXCEPT ![s] = "none"]
        /\ UNCHANGED faults
     \/ /\ Fault
        /\ actor' = [actor EXCEPT ![s] = "stopped"]
        /\ UNCHANGED vars
  /\ UNCHANGED <<up, worker, mutex, fencing>>

Reap(s) ==
  /\ up /\ actor[s] = "stopped"
  /\ actor' = [actor EXCEPT ![s] = "none"]
  /\ UNCHANGED <<up, worker, mutex, fencing, faults>> /\ UNCHANGED vars

ActorStep(s) ==
  \/ CheckManifest(s) \/ RefuseSession(s) \/ StartActor(s) \/ Reap(s)

-----------------------------------------------------------------------------
(* revoke_resource, under mutation_lock                                    *)

ApiRevoke ==
  /\ up /\ mutex = "free"
  /\ (\E a \in Asset : RevokeAsset(a)) \/ (\E c \in Consent : RevokeConsent(c))
  /\ mutex' = "revoke"
  /\ UNCHANGED <<up, worker, actor, fencing, faults>>

ApiLock ==
  /\ up /\ mutex = "revoke"
  /\ \E a \in Asset : LockServing(a)
  /\ UNCHANGED procVars

ApiCommit ==
  /\ up /\ mutex = "revoke"
  /\ CommitRevoke
  /\ mutex' = "fence"
  /\ fencing' = revoking.assets
  /\ UNCHANGED <<up, worker, actor, faults>>

ApiRollback ==
  /\ up /\ mutex = "revoke"
  /\ RollbackRevoke
  /\ Fault
  /\ mutex' = "free"
  /\ UNCHANGED <<up, worker, actor, fencing>>

FenceActors ==
  /\ up /\ mutex = "fence"
  /\ actor' = [s \in Session |->
       IF actor[s] = "running" /\ session[s].asset \in fencing
       THEN "fenced" ELSE actor[s]]
  /\ mutex' = "free"
  /\ fencing' = {}
  /\ UNCHANGED <<up, worker, faults>> /\ UNCHANGED vars

-----------------------------------------------------------------------------
(* The other requests, the clock and the death of the process              *)

ApiRequest ==
  /\ up
  /\ \/ \E c \in Consent : CreateConsent(c)
     \/ \E u \in Upload, c \in Consent : CreateUpload(u, c)
     \/ \E u \in Upload : PutUpload(u)
     \/ \E u \in Upload, a \in Asset : Enroll(u, a)
     \/ \E a \in Asset : Approve(a)
     \/ \E a \in Asset : Cancel(a)
  /\ UNCHANGED procVars

Tick == Time /\ UNCHANGED procVars

\* Everything in memory is lost; an open transaction rolls back.  A write may
\* leave its temporary behind, a purge may have removed some files.
Killed ==
  /\ up' = FALSE
  /\ worker' = Idle
  /\ actor' = [s \in Session |-> "none"]
  /\ mutex' = "free"
  /\ fencing' = {}

Kill ==
  /\ up
  /\ Fault
  /\ Killed
  /\ \/ RollbackRevoke
     \/ Unlocked /\ UNCHANGED vars
     \/ Importing /\ Call \in Files
          /\ WriteImportObjectKilled(worker.asset, worker.fence, Call)
     \/ \E e \in worker.batch :
          /\ Handling(e) /\ e \in outbox /\ e.kind = "revoke_asset"
          /\ SessionsHandled(e)
          /\ PurgeAssetInterrupted(e)
     \/ \E u \in Upload : PutUploadKilled(u)

\* lifespan recovers the session rows before it starts the worker.
Restart ==
  /\ ~up
  /\ \/ Recover
     \/ (\A s \in Session : session[s].status \notin SlotHolder) /\ UNCHANGED vars
  /\ up' = TRUE
  /\ UNCHANGED <<worker, actor, mutex, fencing, faults>>

WorkerNext ==
  \/ ImportStep
  \/ OutboxStep
  \/ \E s \in Session, a \in Asset : ReserveSession(s, a)
  \/ \E s \in Session : ActorStep(s)
  \/ \E s \in Session : ActorUpdate(s)
  \/ \E s \in Session : ActorCloses(s)
  \/ ApiRevoke
  \/ ApiLock
  \/ ApiCommit
  \/ ApiRollback
  \/ FenceActors
  \/ ApiRequest
  \/ Tick
  \/ Kill
  \/ Restart

WorkerSpec == WorkerInit /\ [][WorkerNext]_allVars

\* The loop runs for ever, transactions end, wall-clock delays pass, and a
\* killed process is started again.  No request is ever required to arrive.
Fairness ==
  /\ WF_allVars(ImportStep)
  /\ WF_allVars(OutboxStep)
  /\ WF_allVars(\E s \in Session : ActorStep(s))
  /\ WF_allVars(ApiLock \/ ApiCommit \/ FenceActors)
  /\ WF_allVars(Tick)
  /\ WF_allVars(Restart)

FairWorkerSpec == WorkerSpec /\ Fairness

-----------------------------------------------------------------------------
(* Properties                                                              *)

\* "permanently fences their publisher before cleanup awaits": once the revoke
\* request has released mutation_lock, no unfenced actor has a revoked asset,
\* whichever of revocation and session creation came first.
UnfencedActorIsAuthorized ==
  /\ WorkerTypeOK
  /\ \A s \in Session :
       actor[s] \in {"checked", "running"} /\ mutex \in {"free", "create"}
         => serving[session[s].asset] = "approved"

\* When the deletion receipt of an asset is written, no actor streams it and
\* none will: purge waits for the rows, and the rows for the actors.
NoStreamAfterReceipt ==
  \A e \in receipts : e.kind = "revoke_asset" =>
    \A s \in AffectedBy(e) : actor[s] \notin {"checked", "running", "fenced"}

\* Between the two a revoked asset is never spoken with.
NoActorOutlivesRevocation == UnfencedActorIsAuthorized /\ NoStreamAfterReceipt

\* What the process does with the tables and files is what Lifecycle allows.
LifecycleSpec == Spec

\* An import never stays queued or running: retries are bounded and a lease of
\* a dead process runs out.
ImportSettles ==
  \A a \in Asset :
    job[a].status \in {"queued", "running"} ~> job[a].status \notin {"queued", "running"}

\* Once the faults are over, a revoked asset is purged, unless its tombstone
\* is overwritten.
RevocationCompletes ==
  \A a \in Asset :
    PendingFor("revoke_asset", a)
      ~> (~PendingFor("revoke_asset", a) \/ asset[a].status # "revoked")

\* ... and a revoked consent too, unless an asset of it lost its tombstone.
ConsentPurgeCompletes ==
  \A c \in Consent :
    PendingFor("revoke_consent", c)
      ~> (\/ ~PendingFor("revoke_consent", c)
          \/ \E a \in Asset : asset[a].consent = c /\ asset[a].status # "revoked")

\* A session drained by a revocation gives the admission slot back.
DrainEnds ==
  \A s \in Session :
    session[s].status = "DRAINING" ~> session[s].status # "DRAINING"

\* The one loop and the requests get everything done that was begun.
WorkIsDone ==
  ImportSettles /\ RevocationCompletes /\ ConsentPurgeCompletes /\ DrainEnds
================================================================================
