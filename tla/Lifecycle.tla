------------------------------- MODULE Lifecycle -------------------------------
(***************************************************************************)
(* The durable import lifecycle of one tenant: server/lifecycle.py, with   *)
(* the session rows of server/db.py that revocation shares with it.        *)
(*                                                                         *)
(* Every service method is one PostgreSQL transaction.  The methods of     *)
(* Lifecycle take the advisory lock 1740290405, so they exclude each       *)
(* other; the methods of Store (reserve, update, recover) do not take it   *)
(* and may run while a revocation holds it, which is why revoke is several *)
(* steps here: it locks the serving row of one asset after the other and   *)
(* selects its live sessions, and writes them all back when it commits.    *)
(*                                                                         *)
(* The callers are the most general ones: any request may arrive at any    *)
(* time, and whoever was ever given a claim may still use it, however      *)
(* stale.  The importer and the outbox loop are in ImportWorker.           *)
(*                                                                         *)
(* A call that raises, or that replays an idempotency key, changes nothing *)
(* and is not an action.  Wall-clock time is abstracted: a job's lease is  *)
(* the ticks it has left, a retry delay and an upload grant are flags.     *)
(***************************************************************************)
EXTENDS Naturals, FiniteSets

CONSTANTS Consent,         \* ids of consent records
          Upload,          \* ids of uploads
          NumAssets,       \* how many enrollments there can be
          Session,         \* ids of sessions
          Object,          \* the files an import writes into an asset directory
          MaxAttempts,     \* attempts a job is given (3 in claim and fail)
          LeaseTicks,      \* ticks a claim or a stage gives a lease (30 seconds)
          MaxOpenUploads,  \* incomplete uploads a tenant may have (8)
          MaxLiveAssets,   \* non-revoked assets a tenant may have (32)
          ExpireBatch,     \* uploads one expire_uploads transaction handles (20)
          Killable,        \* whether a process may be killed inside write_object
          NoConsent, NoUpload

ASSUME LifecycleAssumption ==
  /\ NumAssets \in Nat
  /\ MaxAttempts \in Nat \ {0}
  /\ LeaseTicks \in Nat \ {0}
  /\ MaxOpenUploads \in Nat \ {0}
  /\ MaxLiveAssets \in Nat \ {0}
  /\ ExpireBatch \in Nat \ {0}
  /\ Killable \in BOOLEAN
  /\ NoConsent \notin Consent
  /\ NoUpload \notin Upload
  /\ IsFiniteSet(Consent) /\ IsFiniteSet(Upload) /\ IsFiniteSet(Session)

\* Assets are numbered in the order they are enrolled, which is the order of
\* Job.created; an asset has exactly one job (Job.asset_id is unique), so the
\* job of asset a is job[a].  A claim is the pair of an asset and a fence.
Asset == 1..NumAssets
NoAsset == 0
Fence == 1..MaxAttempts

VARIABLES
  consent,   \* the consent_records table
  upload,    \* the uploads table
  file,      \* uploads whose object exists under <tenant>/uploads
  leftover,  \* uploads of which a .pending- temporary copy is left there
  asset,     \* the managed_assets table
  job,       \* the jobs table
  attempt,   \* the job_attempts table: [asset][fence]
  serving,   \* the asset_revisions rows of imported assets
  objects,   \* the files in an asset's directory
  session,   \* the sessions table
  outbox,    \* pending outbox_events
  receipts,  \* complete outbox_events
  clock,     \* revocations committed, the order of Outbox.created
  revoking   \* the revocation that holds the lock before its commit

vars == <<consent, upload, file, leftover, asset, job, attempt, serving,
          objects, session, outbox, receipts, clock, revoking>>

ConsentStatus == {"absent", "active", "revoked"}
UploadStatus == {"absent", "pending", "sealed", "consumed", "expired", "revoked"}
AssetStatus == {"absent", "importing", "review", "approved", "failed",
                "cancelled", "revoked"}
JobStatus == {"absent", "queued", "running", "review", "complete", "failed",
              "cancelled"}
AttemptStatus == {"none", "running", "complete", "failed", "expired", "cancelled"}
ServingStatus == {"absent", "approved", "revoked"}
SessionStatus == {"absent", "PREPARING", "READY", "ACTIVE", "DRAINING",
                  "CLOSED", "FAILED"}

Event == [kind : {"revoke_asset"}, id : Asset, at : Nat]
           \cup [kind : {"revoke_consent"}, id : Consent, at : Nat]

NotRevoking == [active |-> FALSE, consents |-> {}, assets |-> {}, locked |-> {},
                sessions |-> {}]

\* The name of a write_object temporary that a killed process leaves behind.
Temporary == "temporary"

ConsentRow == [status : ConsentStatus, gen : Nat]
UploadRow == [status : UploadStatus, live : BOOLEAN,
              consent : Consent \cup {NoConsent}]
AssetRow == [status : AssetStatus, gen : Nat, consent : Consent \cup {NoConsent}]
JobRow == [status : JobStatus, attempt : Nat, fence : Nat, gen : Nat, cgen : Nat,
           lease : 0..LeaseTicks, due : BOOLEAN, upload : Upload \cup {NoUpload}]
SessionRow == [status : SessionStatus, fence : Nat, asset : Asset \cup {NoAsset}]
Revocation == [active : BOOLEAN, consents : SUBSET Consent, assets : SUBSET Asset,
               locked : SUBSET Asset, sessions : SUBSET Session]

TypeOK ==
  /\ consent \in [Consent -> ConsentRow]
  /\ upload \in [Upload -> UploadRow]
  /\ file \subseteq Upload
  /\ leftover \subseteq Upload
  /\ asset \in [Asset -> AssetRow]
  /\ job \in [Asset -> JobRow]
  /\ attempt \in [Asset -> [Fence -> AttemptStatus]]
  /\ serving \in [Asset -> ServingStatus]
  /\ objects \in [Asset -> SUBSET (Object \cup {Temporary})]
  /\ session \in [Session -> SessionRow]
  /\ outbox \subseteq Event
  /\ receipts \subseteq Event
  /\ clock \in Nat
  /\ revoking \in Revocation

Init ==
  /\ consent = [c \in Consent |-> [status |-> "absent", gen |-> 0]]
  /\ upload = [u \in Upload |->
                 [status |-> "absent", live |-> FALSE, consent |-> NoConsent]]
  /\ file = {}
  /\ leftover = {}
  /\ asset = [a \in Asset |->
                [status |-> "absent", gen |-> 0, consent |-> NoConsent]]
  /\ job = [a \in Asset |->
              [status |-> "absent", attempt |-> 0, fence |-> 0, gen |-> 0,
               cgen |-> 0, lease |-> 0, due |-> FALSE, upload |-> NoUpload]]
  /\ attempt = [a \in Asset |-> [f \in Fence |-> "none"]]
  /\ serving = [a \in Asset |-> "absent"]
  /\ objects = [a \in Asset |-> {}]
  /\ session = [s \in Session |->
                  [status |-> "absent", fence |-> 0, asset |-> NoAsset]]
  /\ outbox = {}
  /\ receipts = {}
  /\ clock = 0
  /\ revoking = NotRevoking

\* No transaction of another Lifecycle method holds the advisory lock.
Unlocked == ~revoking.active

-----------------------------------------------------------------------------
(* Consent and capture                                                     *)

ConsentActive(c) == c \in Consent /\ consent[c].status = "active"

CreateConsent(c) ==
  /\ Unlocked
  /\ consent[c].status = "absent"
  /\ consent' = [consent EXCEPT ![c] = [status |-> "active", gen |-> 1]]
  /\ UNCHANGED <<upload, file, leftover, asset, job, attempt, serving, objects,
                 session, outbox, receipts, clock, revoking>>

OpenUploads == {u \in Upload : upload[u].status \in {"pending", "sealed"}
                               /\ upload[u].live}

CreateUpload(u, c) ==
  /\ Unlocked
  /\ ConsentActive(c)
  /\ upload[u].status = "absent"
  /\ Cardinality(OpenUploads) < MaxOpenUploads
  /\ upload' = [upload EXCEPT ![u] =
                  [status |-> "pending", live |-> TRUE, consent |-> c]]
  /\ UNCHANGED <<consent, file, leftover, asset, job, attempt, serving, objects,
                 session, outbox, receipts, clock, revoking>>

\* MUTANT: put_upload forgets that a consumed upload is closed.
Writable_Consumed(u) ==
  /\ upload[u].status \in {"pending", "sealed", "consumed"}
  /\ upload[u].live
  /\ ConsentActive(upload[u].consent)

\* The grant checks of put_upload; the content hash is that of the upload.
Writable(u) ==
  /\ upload[u].status \in {"pending", "sealed"}
  /\ upload[u].live
  /\ ConsentActive(upload[u].consent)

PutUpload(u) ==
  /\ Unlocked
  /\ Writable(u)
  /\ file' = file \cup {u}
  /\ upload' = [upload EXCEPT ![u].status = "sealed"]
  /\ UNCHANGED <<consent, leftover, asset, job, attempt, serving, objects,
                 session, outbox, receipts, clock, revoking>>

\* The process is killed inside write_object: the transaction rolls back, but
\* the temporary, and the object too if it was linked already, stay on disk.
PutUploadKilled(u) ==
  /\ Killable
  /\ Unlocked
  /\ Writable(u)
  /\ u \notin file
  /\ leftover' = leftover \cup {u}
  /\ file' \in {file, file \cup {u}}
  /\ UNCHANGED <<consent, upload, asset, job, attempt, serving, objects,
                 session, outbox, receipts, clock, revoking>>

Expired(u) == upload[u].status \in {"pending", "sealed"} /\ ~upload[u].live

ExpireUploads(X) ==
  /\ Unlocked
  /\ X # {} /\ \A u \in X : Expired(u)
  /\ Cardinality(X) <= ExpireBatch
  /\ \/ Cardinality(X) = ExpireBatch
     \/ \A u \in Upload : Expired(u) => u \in X
  /\ file' = file \ X
  /\ upload' = [u \in Upload |-> IF u \in X
                  THEN [upload[u] EXCEPT !.status = "expired"] ELSE upload[u]]
  /\ UNCHANGED <<consent, leftover, asset, job, attempt, serving, objects,
                 session, outbox, receipts, clock, revoking>>

-----------------------------------------------------------------------------
(* Enrollment and the import job                                           *)

LiveAssets == {a \in Asset : asset[a].status \notin {"absent", "revoked"}}

\* MUTANT: an upload may be enrolled again.
Enrollable_Twice(u) ==
  /\ upload[u].status \in {"sealed", "consumed"}
  /\ upload[u].live
  /\ ConsentActive(upload[u].consent)

Enrollable(u) ==
  /\ upload[u].status = "sealed"
  /\ upload[u].live
  /\ ConsentActive(upload[u].consent)

Enroll(u, a) ==
  /\ Unlocked
  /\ Enrollable(u)
  /\ Cardinality(LiveAssets) < MaxLiveAssets
  /\ asset[a].status = "absent"
  /\ \A b \in Asset : b < a => asset[b].status # "absent"
  /\ asset' = [asset EXCEPT ![a] =
                 [status |-> "importing", gen |-> 1, consent |-> upload[u].consent]]
  /\ job' = [job EXCEPT ![a] =
               [status |-> "queued", attempt |-> 0, fence |-> 0, gen |-> 1,
                cgen |-> consent[upload[u].consent].gen, lease |-> 0,
                due |-> TRUE, upload |-> u]]
  /\ upload' = [upload EXCEPT ![u].status = "consumed"]
  /\ UNCHANGED <<consent, file, leftover, attempt, serving, objects,
                 session, outbox, receipts, clock, revoking>>

\* MUTANT: a running job is never taken over, its lease is ignored.
Claimable_QueuedOnly(a) == job[a].status = "queued" /\ job[a].due

Claimable(a) ==
  \/ job[a].status = "queued" /\ job[a].due
  \/ job[a].status = "running" /\ job[a].lease = 0

\* MUTANT: the fence is advanced before the attempt of the old one is looked up.
EndAttempt_NextFence(a, status) ==
  [f \in Fence |-> IF f = job[a].fence + 1 /\ attempt[a][f] = "running"
                   THEN status ELSE attempt[a][f]]

\* The attempt row of the job's current fence, if it is still running, ends.
EndAttempt(a, status) ==
  [f \in Fence |-> IF f = job[a].fence /\ attempt[a][f] = "running"
                   THEN status ELSE attempt[a][f]]

AuthorizationLost(a) ==
  asset[a].status = "revoked" \/ ~ConsentActive(asset[a].consent)

\* claim takes the oldest job it may run, and either gives it to the caller
\* with a new fence and lease or, if it has no attempts left, ends it.
Claim(a) ==
  /\ Unlocked
  /\ Claimable(a)
  /\ \A b \in Asset : Claimable(b) => a <= b
  /\ IF AuthorizationLost(a) \/ job[a].attempt >= MaxAttempts
       THEN /\ job' = [job EXCEPT ![a].status =
                         IF AuthorizationLost(a) THEN "cancelled" ELSE "failed"]
            /\ asset' = IF AuthorizationLost(a) THEN asset
                        ELSE [asset EXCEPT ![a].status = "failed"]
            /\ attempt' = [attempt EXCEPT ![a] = EndAttempt(a, "expired")]
       ELSE /\ job' = [job EXCEPT ![a].status = "running",
                                  ![a].attempt = @ + 1,
                                  ![a].fence = @ + 1,
                                  ![a].lease = LeaseTicks]
            /\ attempt' = [attempt EXCEPT ![a] =
                             [EndAttempt(a, "expired")
                                EXCEPT ![job[a].fence + 1] = "running"]]
            /\ UNCHANGED asset
  /\ UNCHANGED <<consent, upload, file, leftover, serving, objects,
                 session, outbox, receipts, clock, revoking>>

\* A caller holds claim <<a, f>>: claim returned it at some time.
Claimed(a, f) == attempt[a][f] # "none"

Owns(a, f) == job[a].status = "running" /\ job[a].fence = f /\ job[a].lease > 0

\* The check shared by write_import_object and finish.  The generations of the
\* claim are those of the job row, which no transaction changes.
Publishable(a, f) ==
  /\ Owns(a, f)
  /\ asset[a].gen = job[a].gen
  /\ consent[asset[a].consent].gen = job[a].cgen
  /\ consent[asset[a].consent].status = "active"
  /\ asset[a].status # "revoked"

\* stage renews the lease; the stage name itself is not modelled.
Stage(a, f) ==
  /\ Unlocked
  /\ Claimed(a, f)
  /\ Owns(a, f)
  /\ job' = [job EXCEPT ![a].lease = LeaseTicks]
  /\ UNCHANGED <<consent, upload, file, leftover, asset, attempt, serving,
                 objects, session, outbox, receipts, clock, revoking>>

WriteImportObject(a, f, o) ==
  /\ Unlocked
  /\ Claimed(a, f)
  /\ Publishable(a, f)
  /\ objects' = [objects EXCEPT ![a] = @ \cup {o}]
  /\ UNCHANGED <<consent, upload, file, leftover, asset, job, attempt, serving,
                 session, outbox, receipts, clock, revoking>>

\* The process is killed inside write_object before it unlinks the temporary.
WriteImportObjectKilled(a, f, o) ==
  /\ Killable
  /\ Unlocked
  /\ Claimed(a, f)
  /\ Publishable(a, f)
  /\ o \notin objects[a]
  /\ \E linked \in {{}, {o}} :
       objects' = [objects EXCEPT ![a] = @ \cup linked \cup {Temporary}]
  /\ UNCHANGED <<consent, upload, file, leftover, asset, job, attempt, serving,
                 session, outbox, receipts, clock, revoking>>

Finish(a, f) ==
  /\ Unlocked
  /\ Claimed(a, f)
  /\ Publishable(a, f)
  /\ asset' = [asset EXCEPT ![a].status = "review"]
  /\ job' = [job EXCEPT ![a].status = "review"]
  /\ attempt' = [attempt EXCEPT ![a][f] = "complete"]
  /\ UNCHANGED <<consent, upload, file, leftover, serving, objects, session,
                 outbox, receipts, clock, revoking>>

\* fail does not look at the lease: an owner that was not taken over may still
\* report its failure late.
Fail(a, f, retry) ==
  /\ Unlocked
  /\ Claimed(a, f)
  /\ job[a].status = "running"
  /\ job[a].fence = f
  /\ LET again == retry /\ job[a].attempt < MaxAttempts IN
       /\ job' = [job EXCEPT ![a].status = IF again THEN "queued" ELSE "failed",
                             ![a].due = FALSE]
       /\ asset' = IF ~again /\ asset[a].gen = job[a].gen
                   THEN [asset EXCEPT ![a].status = "failed"] ELSE asset
  /\ attempt' = [attempt EXCEPT ![a][f] = "failed"]
  /\ UNCHANGED <<consent, upload, file, leftover, serving, objects, session,
                 outbox, receipts, clock, revoking>>

Approve(a) ==
  /\ Unlocked
  /\ ConsentActive(asset[a].consent)
  /\ asset[a].status = "review"
  /\ asset' = [asset EXCEPT ![a].status = "approved"]
  /\ serving' = [serving EXCEPT ![a] = "approved"]
  /\ job' = [job EXCEPT ![a].status = "complete"]
  /\ UNCHANGED <<consent, upload, file, leftover, attempt, objects, session,
                 outbox, receipts, clock, revoking>>

Cancel(a) ==
  /\ Unlocked
  /\ job[a].status \notin {"absent", "complete", "cancelled"}
  /\ attempt' = [attempt EXCEPT ![a] = EndAttempt(a, "cancelled")]
  /\ job' = [job EXCEPT ![a].status = "cancelled", ![a].fence = @ + 1]
  /\ asset' = [asset EXCEPT ![a].status = "cancelled", ![a].gen = @ + 1]
  /\ UNCHANGED <<consent, upload, file, leftover, serving, objects, session,
                 outbox, receipts, clock, revoking>>

-----------------------------------------------------------------------------
(* Time                                                                    *)

LeaseTick(a) ==
  /\ job[a].status = "running" /\ job[a].lease > 0
  /\ job' = [job EXCEPT ![a].lease = @ - 1]
  /\ UNCHANGED <<consent, upload, file, leftover, asset, attempt, serving,
                 objects, session, outbox, receipts, clock, revoking>>

BackoffElapses(a) ==
  /\ job[a].status = "queued" /\ ~job[a].due
  /\ job' = [job EXCEPT ![a].due = TRUE]
  /\ UNCHANGED <<consent, upload, file, leftover, asset, attempt, serving,
                 objects, session, outbox, receipts, clock, revoking>>

UploadExpires(u) ==
  /\ upload[u].live
  /\ upload' = [upload EXCEPT ![u].live = FALSE]
  /\ UNCHANGED <<consent, file, leftover, asset, job, attempt, serving, objects,
                 session, outbox, receipts, clock, revoking>>

-----------------------------------------------------------------------------
(* Session rows (server/db.py)                                             *)

LiveSession == {"PREPARING", "READY", "ACTIVE"}
SlotHolder == LiveSession \cup {"DRAINING"}
Stopped == {"DRAINING", "CLOSED", "FAILED"}

\* MUTANT: reserve reads the serving row without FOR UPDATE.
Reserve_Unlocked(s, a) ==
  /\ serving[a] = "approved"
  /\ \A t \in Session : session[t].status \notin SlotHolder
  /\ session[s].status = "absent"
  /\ session' = [session EXCEPT ![s] =
                   [status |-> "PREPARING", fence |-> 1, asset |-> a]]
  /\ UNCHANGED <<consent, upload, file, leftover, asset, job, attempt, serving,
                 objects, outbox, receipts, clock, revoking>>

\* reserve locks the serving row, so it waits for a revocation that has it.
Reserve(s, a) ==
  /\ a \notin revoking.locked
  /\ serving[a] = "approved"
  /\ \A t \in Session : session[t].status \notin SlotHolder
  /\ session[s].status = "absent"
  /\ session' = [session EXCEPT ![s] =
                   [status |-> "PREPARING", fence |-> 1, asset |-> a]]
  /\ UNCHANGED <<consent, upload, file, leftover, asset, job, attempt, serving,
                 objects, outbox, receipts, clock, revoking>>

\* MUTANT: only a draining session is protected, a closed one can be revived.
UpdateSession_Revives(s, status) ==
  /\ session[s].fence = 1
  /\ session[s].status = "DRAINING" => status \in {"CLOSED", "FAILED"}
  /\ session' = [session EXCEPT ![s].status = status]
  /\ UNCHANGED <<consent, upload, file, leftover, asset, job, attempt, serving,
                 objects, outbox, receipts, clock, revoking>>

\* update by the controller that created the row, which writes with fence 1.
UpdateSession(s, status) ==
  /\ session[s].fence = 1
  /\ session[s].status \in Stopped => status \in {"CLOSED", "FAILED"}
  /\ session' = [session EXCEPT ![s].status = status]
  /\ UNCHANGED <<consent, upload, file, leftover, asset, job, attempt, serving,
                 objects, outbox, receipts, clock, revoking>>

\* recover, when the controller starts again.
Recover ==
  /\ \E s \in Session : session[s].status \in SlotHolder
  /\ session' = [s \in Session |-> IF session[s].status \in SlotHolder
                   THEN [session[s] EXCEPT !.status = "FAILED", !.fence = @ + 1]
                   ELSE session[s]]
  /\ UNCHANGED <<consent, upload, file, leftover, asset, job, attempt, serving,
                 objects, outbox, receipts, clock, revoking>>

StopOrphan(s) ==
  /\ Unlocked
  /\ session[s].status = "DRAINING"
  /\ session' = [session EXCEPT ![s].status = "CLOSED", ![s].fence = @ + 1]
  /\ UNCHANGED <<consent, upload, file, leftover, asset, job, attempt, serving,
                 objects, outbox, receipts, clock, revoking>>

-----------------------------------------------------------------------------
(* Revocation and purge                                                    *)

NotRevoked(A) == {a \in A : asset[a].status \notin {"absent", "revoked"}}

\* revoke holds the advisory lock and knows the rows it is going to revoke.
BeginRevoke(C, A) ==
  /\ Unlocked
  /\ C \cup A # {}
  /\ revoking' = [NotRevoking EXCEPT !.active = TRUE, !.consents = C, !.assets = A]
  /\ UNCHANGED <<consent, upload, file, leftover, asset, job, attempt, serving,
                 objects, session, outbox, receipts, clock>>

RevokeAsset(a) == BeginRevoke({}, NotRevoked({a}))

RevokeConsent(c) ==
  /\ consent[c].status # "absent"
  /\ BeginRevoke({d \in {c} : consent[d].status = "active"},
                 NotRevoked({a \in Asset : asset[a].consent = c}))

\* One turn of revoke's loop: the serving row of an asset is locked, if there
\* is one, and then the sessions to drain are selected, without a lock.
LockServing(a) ==
  /\ a \in revoking.assets \ revoking.locked
  /\ revoking' = [revoking EXCEPT !.locked = @ \cup {a},
                   !.sessions = @ \cup {s \in Session : session[s].asset = a
                                          /\ session[s].status \in LiveSession}]
  /\ UNCHANGED <<consent, upload, file, leftover, asset, job, attempt, serving,
                 objects, session, outbox, receipts, clock>>

\* Outbox.created: one revocation inserts its consent event, then its assets'.
RevocationEvents ==
  LET at == clock * (NumAssets + 1) IN
    {[kind |-> "revoke_consent", id |-> c, at |-> at] : c \in revoking.consents}
    \cup
    {[kind |-> "revoke_asset", id |-> a, at |-> at + a] : a \in revoking.assets}

\* MUTANT: a job in review is not cancelled by a revocation.
Unfinished_NotReview == {"queued", "running"}

Unfinished == {"queued", "running", "review"}

\* The commit writes every row the transaction loaded, whatever a session row
\* has become since it was selected.
CommitRevoke ==
  /\ revoking.active
  /\ revoking.locked = revoking.assets
  /\ consent' = [c \in Consent |-> IF c \in revoking.consents
                   THEN [status |-> "revoked", gen |-> consent[c].gen + 1]
                   ELSE consent[c]]
  /\ asset' = [a \in Asset |-> IF a \in revoking.assets
                 THEN [asset[a] EXCEPT !.status = "revoked", !.gen = @ + 1]
                 ELSE asset[a]]
  /\ serving' = [a \in Asset |->
                   IF a \in revoking.assets /\ serving[a] = "approved"
                   THEN "revoked" ELSE serving[a]]
  /\ job' = [a \in Asset |->
               IF a \in revoking.assets /\ job[a].status \in Unfinished
               THEN [job[a] EXCEPT !.status = "cancelled", !.fence = @ + 1]
               ELSE job[a]]
  /\ attempt' = [a \in Asset |->
                   IF a \in revoking.assets /\ job[a].status \in Unfinished
                   THEN EndAttempt(a, "cancelled") ELSE attempt[a]]
  /\ session' = [s \in Session |-> IF s \in revoking.sessions
                   THEN [session[s] EXCEPT !.status = "DRAINING"]
                   ELSE session[s]]
  /\ outbox' = outbox \cup RevocationEvents
  /\ clock' = clock + 1
  /\ revoking' = NotRevoking
  /\ UNCHANGED <<upload, file, leftover, objects, receipts>>

\* The transaction is lost before its commit.
RollbackRevoke ==
  /\ revoking.active
  /\ revoking' = NotRevoking
  /\ UNCHANGED <<consent, upload, file, leftover, asset, job, attempt, serving,
                 objects, session, outbox, receipts, clock>>

PendingFor(kind, id) == \E e \in outbox : e.kind = kind /\ e.id = id

\* The checks of purge_and_receipt: a tombstone, and no session of the asset.
Purgeable(a) ==
  /\ asset[a].status = "revoked"
  /\ \A s \in Session : session[s].asset = a => session[s].status \notin SlotHolder

PurgeAsset(e) ==
  /\ Unlocked
  /\ e.kind = "revoke_asset"
  /\ Purgeable(e.id)
  /\ objects' = [objects EXCEPT ![e.id] = {}]
  /\ file' = file \ {job[e.id].upload}
  /\ outbox' = outbox \ {e}
  /\ receipts' = receipts \cup {e}
  /\ UNCHANGED <<consent, upload, leftover, asset, job, attempt, serving,
                 session, clock, revoking>>

\* rmtree fails or the process is killed part way, or the commit is lost after the
\* directory and the upload have gone: files go, the event stays.
PurgeAssetInterrupted(e) ==
  /\ Unlocked
  /\ e.kind = "revoke_asset"
  /\ Purgeable(e.id)
  /\ \E rest \in SUBSET objects[e.id] :
       /\ objects' = [objects EXCEPT ![e.id] = rest]
       /\ \/ UNCHANGED file
          \/ rest = {} /\ file' = file \ {job[e.id].upload}
  /\ UNCHANGED <<consent, upload, leftover, asset, job, attempt, serving,
                 session, outbox, receipts, clock, revoking>>

ConsentPurgeable(c) ==
  /\ consent[c].status = "revoked"
  /\ \A a \in Asset : asset[a].consent = c => ~PendingFor("revoke_asset", a)

UploadsOf(c) == {u \in Upload : upload[u].consent = c}

PurgeConsent(e) ==
  /\ Unlocked
  /\ e.kind = "revoke_consent"
  /\ ConsentPurgeable(e.id)
  /\ file' = file \ UploadsOf(e.id)
  /\ upload' = [u \in Upload |-> IF u \in UploadsOf(e.id)
                  THEN [upload[u] EXCEPT !.status = "revoked"] ELSE upload[u]]
  /\ outbox' = outbox \ {e}
  /\ receipts' = receipts \cup {e}
  /\ UNCHANGED <<consent, leftover, asset, job, attempt, serving, objects,
                 session, clock, revoking>>

-----------------------------------------------------------------------------

Capture ==
  \/ \E c \in Consent : CreateConsent(c)
  \/ \E u \in Upload, c \in Consent : CreateUpload(u, c)
  \/ \E u \in Upload : PutUpload(u)
  \/ \E u \in Upload : PutUploadKilled(u)
  \/ \E X \in SUBSET Upload : ExpireUploads(X)

Import ==
  \/ \E u \in Upload, a \in Asset : Enroll(u, a)
  \/ \E a \in Asset : Claim(a)
  \/ \E a \in Asset, f \in Fence : Stage(a, f)
  \/ \E a \in Asset, f \in Fence, o \in Object : WriteImportObject(a, f, o)
  \/ \E a \in Asset, f \in Fence, o \in Object : WriteImportObjectKilled(a, f, o)
  \/ \E a \in Asset, f \in Fence : Finish(a, f)
  \/ \E a \in Asset, f \in Fence, retry \in BOOLEAN : Fail(a, f, retry)
  \/ \E a \in Asset : Approve(a)
  \/ \E a \in Asset : Cancel(a)

Time ==
  \/ \E a \in Asset : LeaseTick(a)
  \/ \E a \in Asset : BackoffElapses(a)
  \/ \E u \in Upload : UploadExpires(u)

Serve ==
  \/ \E s \in Session, a \in Asset : Reserve(s, a)
  \/ \E s \in Session, status \in {"READY", "ACTIVE", "CLOSED", "FAILED"} :
       UpdateSession(s, status)
  \/ Recover
  \/ \E s \in Session : StopOrphan(s)

Revoke ==
  \/ \E a \in Asset : RevokeAsset(a)
  \/ \E c \in Consent : RevokeConsent(c)
  \/ \E a \in Asset : LockServing(a)
  \/ CommitRevoke
  \/ RollbackRevoke
  \/ \E e \in outbox : PurgeAsset(e)
  \/ \E e \in outbox : PurgeAssetInterrupted(e)
  \/ \E e \in outbox : PurgeConsent(e)

Next == Capture \/ Import \/ Time \/ Serve \/ Revoke

Spec == Init /\ [][Next]_vars

-----------------------------------------------------------------------------
(* Safety                                                                  *)

\* The row a session is admitted on (asset_revisions) and the row revocation
\* tombstones (managed_assets) never disagree: an asset is served exactly while
\* it is approved under an active consent and its job is closed.
ServedIffApproved ==
  \A a \in Asset :
    /\ serving[a] = "approved" <=> asset[a].status = "approved"
    /\ serving[a] = "approved" => /\ ConsentActive(asset[a].consent)
                                  /\ job[a].status = "complete"

\* No session prepares, waits or speaks with an asset whose revocation has
\* committed, although reserve and update never take the lifecycle lock.
LiveSessionIsAuthorized ==
  \A s \in Session : session[s].status \in LiveSession =>
    session[s].asset \in Asset /\ serving[session[s].asset] = "approved"

\* The single admission slot: two sessions are never live at once.
OneLiveSession ==
  \A s, t \in Session :
    session[s].status \in LiveSession /\ session[t].status \in LiveSession => s = t

\* What admission promises: one session at a time, with an asset that is approved.
LiveSessionsAreSound == LiveSessionIsAuthorized /\ OneLiveSession

\* A job that may still run (or is in review) is one whose authorization holds
\* and whose recorded generations are current: what makes the generation checks
\* of finish and write_import_object, and the authorization_lost branch of
\* claim, redundant as long as every revocation cascades to the jobs.
RunnableJobIsAuthorized ==
  \A a \in Asset : job[a].status \in Unfinished =>
    /\ asset[a].status = IF job[a].status = "review" THEN "review" ELSE "importing"
    /\ asset[a].gen = job[a].gen
    /\ ConsentActive(asset[a].consent)
    /\ consent[asset[a].consent].gen = job[a].cgen

\* The attempt history and the job agree: an attempt is recorded as running
\* exactly while its fence is the fence of a running job.  stage, finish and
\* fail dereference that row without a check.
FencedAttempts ==
  \A a \in Asset : \A f \in Fence :
    attempt[a][f] = "running" <=> job[a].status = "running" /\ job[a].fence = f

\* An asset with a deletion receipt has no file left and its upload is gone:
\* no claim, however late, recreates what was purged.
ErasedAfterReceipt ==
  \A e \in receipts :
    /\ e.kind = "revoke_asset" => objects[e.id] = {} /\ job[e.id].upload \notin file
    /\ e.kind = "revoke_consent" => UploadsOf(e.id) \cap file = {}

\* One upload is imported at most once, whatever keys the enrollments carried.
UploadImportedOnce ==
  \A a, b \in Asset :
    job[a].upload = job[b].upload /\ job[a].upload # NoUpload => a = b

\* What the importer promises: an upload has one job, and a job one attempt at a time.
ImportsAreExclusive == FencedAttempts /\ UploadImportedOnce

\* A recorded end of an attempt is never rewritten by a later owner.
AttemptEndIsFinal ==
  [][\A a \in Asset : \A f \in Fence :
       attempt[a][f] \notin {"none", "running"} => attempt'[a][f] = attempt[a][f]]_vars

\* Revocation is final: from the commit of its event on, an asset is never
\* imported, reviewed, approved or served again, and a consent never active,
\* although the job of the asset may still be cancelled.
RevocationIsFinal ==
  \A e \in outbox \cup receipts :
    /\ e.kind = "revoke_asset" =>
         /\ asset[e.id].status \in {"revoked", "cancelled"}
         /\ job[e.id].status \in {"complete", "failed", "cancelled"}
    /\ e.kind = "revoke_consent" => consent[e.id].status = "revoked"

-----------------------------------------------------------------------------
(* What the inductive invariant adds to the properties above               *)

\* The status of an asset and of its one job move together.
JobsFollowAssets ==
  \A a \in Asset :
    /\ asset[a].status = "absent" <=> job[a].status = "absent"
    /\ asset[a].status = "importing" => job[a].status \in {"queued", "running"}
    /\ asset[a].status = "review" => job[a].status = "review"
    /\ job[a].status = "complete" => asset[a].status \in {"approved", "revoked"}

\* Until a job is cancelled or ends its fence counts its attempts, and no
\* attempt was ever made with a fence to come.
FenceCountsAttempts ==
  \A a \in Asset :
    /\ job[a].status = "absent" => job[a].fence = 0
    /\ job[a].status \in Unfinished =>
         job[a].fence = job[a].attempt /\ job[a].attempt <= MaxAttempts
    /\ \A f \in Fence : f > job[a].fence => attempt[a][f] = "none"

\* An upload that was enrolled can neither be written nor enrolled again.
EnrolledUploadsAreClosed ==
  \A a \in Asset :
    /\ job[a].status = "absent" => job[a].upload = NoUpload
    /\ job[a].upload # NoUpload =>
         upload[job[a].upload].status \in {"consumed", "revoked"}

\* What a revocation knows stays true until it commits.
RevocationInProgress ==
  /\ ~revoking.active => revoking = NotRevoking
  /\ revoking.locked \subseteq revoking.assets
  /\ \A a \in revoking.assets : asset[a].status \notin {"absent", "revoked"}
  /\ \A c \in revoking.consents :
       /\ consent[c].status = "active"
       /\ \A a \in Asset : asset[a].consent = c =>
            a \in revoking.assets \/ asset[a].status \in {"absent", "revoked"}
  /\ \A s \in Session :
       session[s].status \in LiveSession /\ session[s].asset \in revoking.locked
         => s \in revoking.sessions

\* Only a reserved session can be updated.
UnreservedSessions ==
  \A s \in Session : session[s].status = "absent" => session[s].fence = 0

\* The inductive invariant of Spec (proved so in LifecycleProofs): whatever
\* services, importers, clients and crashes do, in whatever order, the tables
\* stay consistent with one another and with the files.
Consistent ==
  /\ TypeOK
  /\ ServedIffApproved /\ LiveSessionIsAuthorized /\ OneLiveSession
  /\ RunnableJobIsAuthorized /\ FencedAttempts /\ ErasedAfterReceipt
  /\ UploadImportedOnce /\ RevocationIsFinal
  /\ JobsFollowAssets /\ FenceCountsAttempts /\ EnrolledUploadsAreClosed
  /\ RevocationInProgress /\ UnreservedSessions

-----------------------------------------------------------------------------
(* What the repository says and the code does not do                       *)

\* "Tombstones/audit hashes remain" (docs/p05.md): a revoked asset stays
\* revoked.  cancel overwrites the tombstone of an asset whose job had failed.
TombstoneRemains ==
  [][\A a \in Asset : asset[a].status = "revoked" => asset'[a].status = "revoked"]_vars

\* "DRAINING sessions retain the single admission slot until cleanup": at most
\* one session holds it.  revoke drains a session that has closed since it was
\* selected, when another session may have the slot already.
SingleAdmission ==
  \A s, t \in Session :
    session[s].status \in SlotHolder /\ session[t].status \in SlotHolder => s = t

\* "expired incomplete objects are cleaned by the worker": neither the object
\* nor a part of it is left of an upload that expired.  expire_uploads unlinks
\* the object but not the temporary of an interrupted write.
ExpiredUploadsAreCleaned ==
  \A u \in Upload : upload[u].status = "expired" => u \notin file \cup leftover
================================================================================
