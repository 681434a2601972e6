---------------------------- MODULE LifecycleProofs ----------------------------
(***************************************************************************)
(* Consistent is an inductive invariant of Lifecycle, for any number of    *)
(* consents, uploads, assets, sessions and attempts; the safety properties *)
(* the runs check on small instances follow from it.                       *)
(*                                                                         *)
(* First what each group of actions leaves alone, then one lemma per       *)
(* conjunct of Consistent, each split on the actions that can disturb it.  *)
(***************************************************************************)
EXTENDS Lifecycle, TLAPS

-----------------------------------------------------------------------------
(* What the groups of actions of Next leave alone                          *)

\* Consent and upload requests leave jobs, sessions and events alone.
LEMMA CaptureFrame ==
  ASSUME Capture
  PROVE  UNCHANGED <<asset, job, attempt, serving, objects, session, outbox,
                     receipts, clock, revoking>>
BY DEF Capture, CreateConsent, CreateUpload, PutUpload, PutUploadKilled,
       ExpireUploads

\* Enrollment, import and review leave consents, stored uploads, sessions and
\* events alone.
LEMMA ImportFrame ==
  ASSUME Import
  PROVE  UNCHANGED <<consent, file, leftover, session, outbox, receipts, clock,
                     revoking>>
BY DEF Import, Enroll, Claim, Stage, WriteImportObject,
       WriteImportObjectKilled, Finish, Fail, Approve, Cancel

\* The passing of time changes leases, delays and grants only.
LEMMA TimeFrame ==
  ASSUME Time
  PROVE  UNCHANGED <<consent, file, leftover, asset, attempt, serving, objects,
                     session, outbox, receipts, clock, revoking>>
BY DEF Time, LeaseTick, BackoffElapses, UploadExpires

\* The session store writes session rows only.
LEMMA ServeFrame ==
  ASSUME Serve
  PROVE  UNCHANGED <<consent, upload, file, leftover, asset, job, attempt,
                     serving, objects, outbox, receipts, clock, revoking>>
BY DEF Serve, Reserve, UpdateSession, Recover, StopOrphan

-----------------------------------------------------------------------------
(* Type correctness                                                        *)

\* What the actions write into a row is a row.

\* put, expire and purge change an upload's status, time its grant.
LEMMA UploadRowUpdate ==
  ASSUME NEW r \in UploadRow
  PROVE  /\ \A st \in UploadStatus : [r EXCEPT !.status = st] \in UploadRow
         /\ [r EXCEPT !.live = FALSE] \in UploadRow
BY DEF UploadRow

\* finish, fail and approve change an asset's status.
LEMMA AssetRowStatus ==
  ASSUME NEW r \in AssetRow, NEW st \in AssetStatus
  PROVE  [r EXCEPT !.status = st] \in AssetRow
BY DEF AssetRow

\* cancel and revoke also advance its generation.
LEMMA AssetRowRetired ==
  ASSUME NEW r \in AssetRow, NEW st \in AssetStatus
  PROVE  [r EXCEPT !.status = st, !.gen = @ + 1] \in AssetRow
<1>1. ASSUME NEW n \in Nat
      PROVE  [r EXCEPT !.status = st, !.gen = n] \in AssetRow
  BY DEF AssetRow
<1>2. r.gen + 1 \in Nat
  BY DEF AssetRow
<1> QED  BY <1>1, <1>2

\* claim (giving up), finish and approve change a job's status.
LEMMA JobRowStatus ==
  ASSUME NEW r \in JobRow, NEW st \in JobStatus
  PROVE  [r EXCEPT !.status = st] \in JobRow
BY DEF JobRow

\* fail also sets the retry delay.
LEMMA JobRowFailed ==
  ASSUME NEW r \in JobRow, NEW st \in JobStatus, NEW due \in BOOLEAN
  PROVE  [r EXCEPT !.status = st, !.due = due] \in JobRow
BY DEF JobRow

\* The retry delay elapses.
LEMMA JobRowDue ==
  ASSUME NEW r \in JobRow
  PROVE  [r EXCEPT !.due = TRUE] \in JobRow
BY DEF JobRow

\* stage renews a lease and time consumes it.
LEMMA JobRowLease ==
  ASSUME NEW r \in JobRow, NEW n \in 0..LeaseTicks
  PROVE  [r EXCEPT !.lease = n] \in JobRow
BY DEF JobRow

\* cancel and revoke advance a job's fence.
LEMMA JobRowFenced ==
  ASSUME NEW r \in JobRow, NEW st \in JobStatus
  PROVE  [r EXCEPT !.status = st, !.fence = @ + 1] \in JobRow
<1>1. ASSUME NEW n \in Nat
      PROVE  [r EXCEPT !.status = st, !.fence = n] \in JobRow
  BY DEF JobRow
<1>2. r.fence + 1 \in Nat
  BY DEF JobRow
<1> QED  BY <1>1, <1>2

\* claim advances attempt and fence and starts a lease.
LEMMA JobRowClaimed ==
  ASSUME NEW r \in JobRow
  PROVE  [r EXCEPT !.status = "running", !.attempt = @ + 1, !.fence = @ + 1,
                   !.lease = LeaseTicks] \in JobRow
<1>1. ASSUME NEW m \in Nat, NEW n \in Nat, NEW k \in 0..LeaseTicks
      PROVE  [r EXCEPT !.status = "running", !.attempt = m, !.fence = n,
                       !.lease = k] \in JobRow
  BY DEF JobRow, JobStatus
<1>2. /\ r.attempt + 1 \in Nat
      /\ r.fence + 1 \in Nat
      /\ LeaseTicks \in 0..LeaseTicks
  BY LifecycleAssumption DEF JobRow
<1> QED  BY <1>1, <1>2

\* update and revoke change a session's status.
LEMMA SessionRowStatus ==
  ASSUME NEW r \in SessionRow, NEW st \in SessionStatus
  PROVE  [r EXCEPT !.status = st] \in SessionRow
BY DEF SessionRow

\* recover and stop_orphan also advance its fence.
LEMMA SessionRowFenced ==
  ASSUME NEW r \in SessionRow, NEW st \in SessionStatus
  PROVE  [r EXCEPT !.status = st, !.fence = @ + 1] \in SessionRow
<1>1. ASSUME NEW n \in Nat
      PROVE  [r EXCEPT !.status = st, !.fence = n] \in SessionRow
  BY DEF SessionRow
<1>2. r.fence + 1 \in Nat
  BY DEF SessionRow
<1> QED  BY <1>1, <1>2

\* The events a revocation inserts are outbox rows.
LEMMA EventType ==
  ASSUME TypeOK
  PROVE  RevocationEvents \subseteq Event
<1>1. clock * (NumAssets + 1) \in Nat
  BY LifecycleAssumption DEF TypeOK
<1>2. \A a \in Asset : a \in Nat
  BY LifecycleAssumption DEF Asset
<1>3. revoking.consents \subseteq Consent /\ revoking.assets \subseteq Asset
  BY DEF TypeOK, Revocation
<1> QED  BY <1>1, <1>2, <1>3 DEF RevocationEvents, Event

\* Ending an attempt keeps the history one status per fence.
LEMMA EndAttemptType ==
  ASSUME TypeOK, NEW a \in Asset, NEW status \in AttemptStatus
  PROVE  EndAttempt(a, status) \in [Fence -> AttemptStatus]
BY DEF EndAttempt, TypeOK

\* Consent and upload requests keep the types.
LEMMA CaptureType ==
  ASSUME TypeOK, Capture
  PROVE  TypeOK'
<1>0. UNCHANGED <<asset, job, attempt, serving, objects, session, outbox,
                  receipts, clock, revoking>>
  BY CaptureFrame
<1>1. CASE \E c \in Consent : CreateConsent(c)
  BY <1>0, <1>1 DEF CreateConsent, TypeOK, ConsentRow, ConsentStatus
<1>2. CASE \E u \in Upload, c \in Consent : CreateUpload(u, c)
  BY <1>0, <1>2 DEF CreateUpload, TypeOK, UploadRow, UploadStatus
<1>3. CASE \E u \in Upload : PutUpload(u)
  <2> PICK u \in Upload : PutUpload(u)  BY <1>3
  <2>1. upload' \in [Upload -> UploadRow]
    BY UploadRowUpdate DEF PutUpload, TypeOK, UploadStatus
  <2> QED  BY <1>0, <2>1 DEF PutUpload, TypeOK
<1>4. CASE \E u \in Upload : PutUploadKilled(u)
  BY <1>0, <1>4 DEF PutUploadKilled, TypeOK
<1>5. CASE \E X \in SUBSET Upload : ExpireUploads(X)
  <2> PICK X \in SUBSET Upload : ExpireUploads(X)  BY <1>5
  <2>1. \A u \in Upload : [upload[u] EXCEPT !.status = "expired"] \in UploadRow
    BY UploadRowUpdate DEF TypeOK, UploadStatus
  <2>2. upload' \in [Upload -> UploadRow]
    BY <2>1 DEF ExpireUploads, TypeOK
  <2> QED  BY <1>0, <2>2 DEF ExpireUploads, TypeOK
<1> QED  BY <1>1, <1>2, <1>3, <1>4, <1>5 DEF Capture

\* Enrollment, import and review keep the types.
LEMMA ImportType ==
  ASSUME TypeOK, Import
  PROVE  TypeOK'
<1>0. UNCHANGED <<consent, file, leftover, session, outbox, receipts, clock,
                  revoking>>
  BY ImportFrame
<1>1. CASE \E u \in Upload, a \in Asset : Enroll(u, a)
  <2> PICK u \in Upload, a \in Asset : Enroll(u, a)  BY <1>1
  <2>1. upload[u].consent \in Consent
    BY DEF Enroll, Enrollable, ConsentActive
  <2>2. asset' \in [Asset -> AssetRow]
    BY <2>1 DEF Enroll, TypeOK, AssetRow, AssetStatus
  <2>3. consent[upload[u].consent].gen \in Nat
    BY <2>1 DEF TypeOK, ConsentRow
  <2>4. job' \in [Asset -> JobRow]
    <3>1. [status |-> "queued", attempt |-> 0, fence |-> 0, gen |-> 1,
           cgen |-> consent[upload[u].consent].gen, lease |-> 0, due |-> TRUE,
           upload |-> u] \in JobRow
      BY <2>3, LifecycleAssumption DEF JobRow, JobStatus
    <3> QED  BY <3>1 DEF Enroll, TypeOK
  <2>5. upload' \in [Upload -> UploadRow]
    BY UploadRowUpdate DEF Enroll, TypeOK, UploadStatus
  <2> QED  BY <1>0, <2>2, <2>4, <2>5 DEF Enroll, TypeOK
<1>2. CASE \E a \in Asset : Claim(a)
  <2> PICK a \in Asset : Claim(a)  BY <1>2
  <2>1. EndAttempt(a, "expired") \in [Fence -> AttemptStatus]
    BY EndAttemptType DEF AttemptStatus
  <2>2. attempt' \in [Asset -> [Fence -> AttemptStatus]]
    <3>1. \A f : [EndAttempt(a, "expired") EXCEPT ![f] = "running"]
                    \in [Fence -> AttemptStatus]
      BY <2>1 DEF AttemptStatus
    <3>2. PICK r \in [Fence -> AttemptStatus] : attempt' = [attempt EXCEPT ![a] = r]
      BY <2>1, <3>1 DEF Claim
    <3> QED  BY <3>2 DEF TypeOK
  <2>3. asset' \in [Asset -> AssetRow]
    <3>1. [asset EXCEPT ![a].status = "failed"] \in [Asset -> AssetRow]
      BY AssetRowStatus DEF TypeOK, AssetStatus
    <3>2. asset' = asset \/ asset' = [asset EXCEPT ![a].status = "failed"]
      BY DEF Claim
    <3> QED  BY <3>1, <3>2 DEF TypeOK
  <2>4. job' \in [Asset -> JobRow]
    <3>1. CASE AuthorizationLost(a) \/ job[a].attempt >= MaxAttempts
      <4> DEFINE st == IF AuthorizationLost(a) THEN "cancelled" ELSE "failed"
      <4>1. [job[a] EXCEPT !.status = st] \in JobRow
        BY JobRowStatus DEF TypeOK, JobStatus
      <4> QED  BY <3>1, <4>1 DEF Claim, TypeOK
    <3>2. CASE ~(AuthorizationLost(a) \/ job[a].attempt >= MaxAttempts)
      <4> DEFINE r == [job[a] EXCEPT !.status = "running", !.attempt = @ + 1,
                                     !.fence = @ + 1, !.lease = LeaseTicks]
      <4>1. r \in JobRow
        BY JobRowClaimed DEF TypeOK
      <4>2. job' = [job EXCEPT ![a] = r]
        BY <3>2 DEF Claim
      <4> QED  BY <4>1, <4>2 DEF TypeOK
    <3> QED  BY <3>1, <3>2
  <2> QED  BY <1>0, <2>2, <2>3, <2>4 DEF Claim, TypeOK
<1>3. CASE \E a \in Asset, f \in Fence : Stage(a, f)
  <2> PICK a \in Asset, f \in Fence : Stage(a, f)  BY <1>3
  <2>1. LeaseTicks \in 0..LeaseTicks
    BY LifecycleAssumption
  <2>2. job' \in [Asset -> JobRow]
    BY <2>1, JobRowLease DEF Stage, TypeOK
  <2> QED  BY <1>0, <2>2 DEF Stage, TypeOK
<1>4. CASE \E a \in Asset, f \in Fence, o \in Object : WriteImportObject(a, f, o)
  BY <1>0, <1>4 DEF WriteImportObject, TypeOK
<1>5. CASE \E a \in Asset, f \in Fence, o \in Object :
             WriteImportObjectKilled(a, f, o)
  BY <1>0, <1>5 DEF WriteImportObjectKilled, TypeOK
<1>6. CASE \E a \in Asset, f \in Fence : Finish(a, f)
  <2> PICK a \in Asset, f \in Fence : Finish(a, f)  BY <1>6
  <2>1. asset' \in [Asset -> AssetRow]
    BY AssetRowStatus DEF Finish, TypeOK, AssetStatus
  <2>2. job' \in [Asset -> JobRow]
    BY JobRowStatus DEF Finish, TypeOK, JobStatus
  <2> QED  BY <1>0, <2>1, <2>2 DEF Finish, TypeOK, AttemptStatus
<1>7. CASE \E a \in Asset, f \in Fence, retry \in BOOLEAN : Fail(a, f, retry)
  <2> PICK a \in Asset, f \in Fence, retry \in BOOLEAN : Fail(a, f, retry)
    BY <1>7
  <2> DEFINE again == retry /\ job[a].attempt < MaxAttempts
             st == IF again THEN "queued" ELSE "failed"
  <2>1. [job[a] EXCEPT !.status = st, !.due = FALSE] \in JobRow
    BY JobRowFailed DEF TypeOK, JobStatus
  <2>2. job' \in [Asset -> JobRow]
    BY <2>1 DEF Fail, TypeOK
  <2>3. asset' \in [Asset -> AssetRow]
    BY AssetRowStatus DEF Fail, TypeOK, AssetStatus
  <2> QED  BY <1>0, <2>2, <2>3 DEF Fail, TypeOK, AttemptStatus
<1>8. CASE \E a \in Asset : Approve(a)
  <2> PICK a \in Asset : Approve(a)  BY <1>8
  <2>1. asset' \in [Asset -> AssetRow]
    BY AssetRowStatus DEF Approve, TypeOK, AssetStatus
  <2>2. job' \in [Asset -> JobRow]
    BY JobRowStatus DEF Approve, TypeOK, JobStatus
  <2> QED  BY <1>0, <2>1, <2>2 DEF Approve, TypeOK, ServingStatus
<1>9. CASE \E a \in Asset : Cancel(a)
  <2> PICK a \in Asset : Cancel(a)  BY <1>9
  <2>1. asset' \in [Asset -> AssetRow]
    BY AssetRowRetired DEF Cancel, TypeOK, AssetStatus
  <2>2. job' \in [Asset -> JobRow]
    BY JobRowFenced DEF Cancel, TypeOK, JobStatus
  <2>3. attempt' \in [Asset -> [Fence -> AttemptStatus]]
    BY EndAttemptType DEF Cancel, TypeOK, AttemptStatus
  <2> QED  BY <1>0, <2>1, <2>2, <2>3 DEF Cancel, TypeOK
<1> QED  BY <1>1, <1>2, <1>3, <1>4, <1>5, <1>6, <1>7, <1>8, <1>9 DEF Import

\* The passing of time keeps the types.
LEMMA TimeType ==
  ASSUME TypeOK, Time
  PROVE  TypeOK'
<1>0. UNCHANGED <<consent, file, leftover, asset, attempt, serving, objects,
                  session, outbox, receipts, clock, revoking>>
  BY TimeFrame
<1>1. CASE \E a \in Asset : LeaseTick(a)
  <2> PICK a \in Asset : LeaseTick(a)  BY <1>1
  <2>1. job[a].lease - 1 \in 0..LeaseTicks
    BY LifecycleAssumption DEF LeaseTick, TypeOK, JobRow
  <2> QED  BY <1>0, <2>1, JobRowLease DEF LeaseTick, TypeOK
<1>2. CASE \E a \in Asset : BackoffElapses(a)
  BY <1>0, <1>2, JobRowDue DEF BackoffElapses, TypeOK
<1>3. CASE \E u \in Upload : UploadExpires(u)
  BY <1>0, <1>3, UploadRowUpdate DEF UploadExpires, TypeOK
<1> QED  BY <1>1, <1>2, <1>3 DEF Time

\* The session store keeps the types.
LEMMA ServeType ==
  ASSUME TypeOK, Serve
  PROVE  TypeOK'
<1>0. UNCHANGED <<consent, upload, file, leftover, asset, job, attempt,
                  serving, objects, outbox, receipts, clock, revoking>>
  BY ServeFrame
<1>1. CASE \E s \in Session, a \in Asset : Reserve(s, a)
  BY <1>0, <1>1 DEF Reserve, TypeOK, SessionRow, SessionStatus
<1>2. CASE \E s \in Session, status \in {"READY", "ACTIVE", "CLOSED", "FAILED"} :
             UpdateSession(s, status)
  <2> PICK s \in Session, status \in {"READY", "ACTIVE", "CLOSED", "FAILED"} :
             UpdateSession(s, status)
    BY <1>2
  <2> status \in SessionStatus
    BY DEF SessionStatus
  <2>1. session' \in [Session -> SessionRow]
    BY SessionRowStatus DEF UpdateSession, TypeOK
  <2> QED  BY <1>0, <2>1 DEF TypeOK
<1>3. CASE Recover
  BY <1>0, <1>3, SessionRowFenced DEF Recover, TypeOK, SessionStatus
<1>4. CASE \E s \in Session : StopOrphan(s)
  <2> PICK s \in Session : StopOrphan(s)  BY <1>4
  <2> DEFINE r == [session[s] EXCEPT !.status = "CLOSED", !.fence = @ + 1]
  <2>0. r \in SessionRow
    BY SessionRowFenced DEF TypeOK, SessionStatus
  <2>1. session' \in [Session -> SessionRow]
    BY <2>0 DEF StopOrphan, TypeOK
  <2> QED  BY <1>0, <2>1 DEF TypeOK
<1> QED  BY <1>1, <1>2, <1>3, <1>4 DEF Serve

\* No transaction in progress is a revocation record too.
LEMMA NotRevokingType == NotRevoking \in Revocation
BY DEF NotRevoking, Revocation

\* Revocation and purge keep the types.
LEMMA RevokeType ==
  ASSUME TypeOK, Revoke
  PROVE  TypeOK'
<1>1. ASSUME NEW C \in SUBSET Consent, NEW A \in SUBSET Asset, BeginRevoke(C, A)
      PROVE  TypeOK'
  BY <1>1 DEF BeginRevoke, NotRevoking, TypeOK, Revocation
<1>2. CASE \E a \in Asset : RevokeAsset(a)
  <2> PICK a \in Asset : RevokeAsset(a)  BY <1>2
  <2> NotRevoked({a}) \subseteq Asset  BY DEF NotRevoked
  <2> QED  BY <1>1 DEF RevokeAsset
<1>3. CASE \E c \in Consent : RevokeConsent(c)
  <2> PICK c \in Consent : RevokeConsent(c)  BY <1>3
  <2> /\ {d \in {c} : consent[d].status = "active"} \subseteq Consent
      /\ NotRevoked({a \in Asset : asset[a].consent = c}) \subseteq Asset
    BY DEF NotRevoked
  <2> QED  BY <1>1 DEF RevokeConsent
<1>4. CASE \E a \in Asset : LockServing(a)
  <2> PICK a \in Asset : LockServing(a)  BY <1>4
  <2> DEFINE S == {s \in Session : session[s].asset = a
                                     /\ session[s].status \in LiveSession}
  <2>1. ASSUME NEW L \in SUBSET Asset, NEW T \in SUBSET Session
        PROVE  [revoking EXCEPT !.locked = L, !.sessions = T] \in Revocation
    BY DEF TypeOK, Revocation
  <2>2. /\ revoking.locked \cup {a} \in SUBSET Asset
        /\ revoking.sessions \cup S \in SUBSET Session
    BY DEF TypeOK, Revocation
  <2>3. revoking' \in Revocation
    BY <2>1, <2>2 DEF LockServing
  <2> QED  BY <2>3 DEF LockServing, TypeOK
<1>5. CASE CommitRevoke
  <2>1. RevocationEvents \subseteq Event
    BY EventType
  <2>2. attempt' \in [Asset -> [Fence -> AttemptStatus]]
    BY <1>5, EndAttemptType DEF CommitRevoke, TypeOK, AttemptStatus
  <2>3. consent' \in [Consent -> ConsentRow]
    <3>1. \A c \in Consent :
            [status |-> "revoked", gen |-> consent[c].gen + 1] \in ConsentRow
      BY DEF TypeOK, ConsentRow, ConsentStatus
    <3> QED  BY <1>5, <3>1 DEF CommitRevoke, TypeOK
  <2>4. asset' \in [Asset -> AssetRow]
    BY <1>5, AssetRowRetired DEF CommitRevoke, TypeOK, AssetStatus
  <2>5. job' \in [Asset -> JobRow]
    BY <1>5, JobRowFenced DEF CommitRevoke, TypeOK, JobStatus
  <2>6. serving' \in [Asset -> ServingStatus]
    BY <1>5 DEF CommitRevoke, TypeOK, ServingStatus
  <2>7. session' \in [Session -> SessionRow]
    BY <1>5, SessionRowStatus DEF CommitRevoke, TypeOK, SessionStatus
  <2>8. outbox' \subseteq Event
    BY <1>5, <2>1 DEF CommitRevoke, TypeOK
  <2>9. clock' \in Nat
    <3>1. clock \in Nat
      BY DEF TypeOK
    <3>2. clock' = clock + 1
      BY <1>5, Zenon DEF CommitRevoke
    <3> QED  BY <3>1, <3>2
  <2>10. revoking' \in Revocation /\ UNCHANGED <<upload, file, leftover, objects, receipts>>
    BY <1>5, NotRevokingType DEF CommitRevoke
  <2> QED  BY <2>2, <2>3, <2>4, <2>5, <2>6, <2>7, <2>8, <2>9, <2>10 DEF TypeOK
<1>6. CASE RollbackRevoke
  BY <1>6, NotRevokingType DEF RollbackRevoke, TypeOK
<1>7. CASE \E e \in outbox : PurgeAsset(e)
  BY <1>7 DEF PurgeAsset, TypeOK
<1>8. CASE \E e \in outbox : PurgeAssetInterrupted(e)
  <2> PICK e \in outbox : PurgeAssetInterrupted(e)  BY <1>8
  <2>1. e.id \in Asset => objects[e.id] \subseteq Object \cup {Temporary}
    BY DEF TypeOK
  <2> QED  BY <2>1 DEF PurgeAssetInterrupted, TypeOK
<1>9. CASE \E e \in outbox : PurgeConsent(e)
  <2> PICK e \in outbox : PurgeConsent(e)  BY <1>9
  <2>1. \A u \in Upload : [upload[u] EXCEPT !.status = "revoked"] \in UploadRow
    BY UploadRowUpdate DEF TypeOK, UploadStatus
  <2>2. upload' \in [Upload -> UploadRow]
    BY <2>1 DEF PurgeConsent, TypeOK
  <2> QED  BY <2>2 DEF PurgeConsent, TypeOK
<1> QED
  BY <1>2, <1>3, <1>4, <1>5, <1>6, <1>7, <1>8, <1>9 DEF Revoke

\* The empty tables have their types.
LEMMA InitType == Init => TypeOK
BY LifecycleAssumption
   DEF Init, TypeOK, ConsentRow, UploadRow, AssetRow, JobRow, SessionRow,
       Revocation, ConsentStatus, UploadStatus, AssetStatus, JobStatus,
       AttemptStatus, ServingStatus, SessionStatus, NotRevoking, Asset, NoAsset

\* Every step keeps the types.
LEMMA TypeAfter ==
  ASSUME TypeOK, Next
  PROVE  TypeOK'
BY CaptureType, ImportType, TimeType, ServeType, RevokeType DEF Next

\* Every table, file set and lease stays of its type.
THEOREM TypeCorrect == Spec => []TypeOK
<1>1. TypeOK /\ [Next]_vars => TypeOK'
  <2> SUFFICES ASSUME TypeOK, [Next]_vars PROVE TypeOK'
    OBVIOUS
  <2>1. CASE UNCHANGED vars
    BY <2>1 DEF vars, TypeOK
  <2> QED  BY <2>1, TypeAfter
<1> QED  BY <1>1, InitType, PTL DEF Spec

-----------------------------------------------------------------------------
(* What the job actions do to the rows of the asset, and to no other      *)

Untouched(b) ==
  /\ asset'[b] = asset[b] /\ job'[b] = job[b] /\ attempt'[b] = attempt[b]
  /\ serving'[b] = serving[b]

\* Nothing but the lease and the retry delay of a job changes.
SameJob(b) ==
  /\ job'[b].status = job[b].status /\ job'[b].attempt = job[b].attempt
  /\ job'[b].fence = job[b].fence /\ job'[b].gen = job[b].gen
  /\ job'[b].cgen = job[b].cgen /\ job'[b].upload = job[b].upload

Ended(a, f, status) ==
  IF f = job[a].fence /\ attempt[a][f] = "running" THEN status ELSE attempt[a][f]

Enrolled(u, a) ==
  /\ \A b \in Asset \ {a} : Untouched(b)
  /\ upload[u].consent \in Consent /\ consent[upload[u].consent].status = "active"
  /\ upload[u].status = "sealed" /\ asset[a].status = "absent"
  /\ asset'[a].status = "importing" /\ asset'[a].gen = 1
  /\ asset'[a].consent = upload[u].consent
  /\ job'[a].status = "queued" /\ job'[a].attempt = 0 /\ job'[a].fence = 0
  /\ job'[a].gen = 1 /\ job'[a].cgen = consent[upload[u].consent].gen
  /\ job'[a].upload = u
  /\ attempt'[a] = attempt[a] /\ serving'[a] = serving[a]

\* What enroll does to the rows of its asset.
LEMMA EnrollEffect ==
  ASSUME TypeOK, NEW u \in Upload, NEW a \in Asset, Enroll(u, a)
  PROVE  Enrolled(u, a)
BY DEF Enroll, Enrollable, TypeOK, Untouched, Enrolled, ConsentActive

\* stage, a lease tick and the end of a retry delay keep every status.
LEMMA TimerEffect ==
  ASSUME TypeOK, NEW a \in Asset,
         \/ \E f \in Fence : Stage(a, f)
         \/ LeaseTick(a)
         \/ BackoffElapses(a)
  PROVE  \A b \in Asset : SameJob(b)
<1>1. PICK r : job' = [job EXCEPT ![a] = r] /\ r.status = job[a].status
                 /\ r.attempt = job[a].attempt /\ r.fence = job[a].fence
                 /\ r.gen = job[a].gen /\ r.cgen = job[a].cgen
                 /\ r.upload = job[a].upload
  BY DEF Stage, LeaseTick, BackoffElapses, TypeOK, JobRow
<1> QED  BY <1>1 DEF SameJob, TypeOK

SameClaim(a) ==
  /\ job'[a].gen = job[a].gen /\ job'[a].cgen = job[a].cgen
  /\ job'[a].upload = job[a].upload

\* claim takes the job, or ends it.
Taken(a) ==
  /\ \A b \in Asset \ {a} : Untouched(b)
  /\ job[a].status \in {"queued", "running"} /\ job[a].attempt < MaxAttempts
  /\ SameClaim(a)
  /\ job'[a].status = "running" /\ job'[a].attempt = job[a].attempt + 1
  /\ job'[a].fence = job[a].fence + 1
  /\ asset'[a] = asset[a] /\ serving'[a] = serving[a]
  /\ \A f \in Fence : attempt'[a][f] =
       IF f = job[a].fence + 1 THEN "running" ELSE Ended(a, f, "expired")

GivenUp(a) ==
  /\ \A b \in Asset \ {a} : Untouched(b)
  /\ job[a].status \in {"queued", "running"}
  /\ SameClaim(a)
  /\ job'[a].attempt = job[a].attempt /\ job'[a].fence = job[a].fence
  /\ serving'[a] = serving[a]
  /\ \A f \in Fence : attempt'[a][f] = Ended(a, f, "expired")
  /\ \/ /\ job'[a].status = "cancelled" /\ AuthorizationLost(a)
        /\ asset'[a] = asset[a]
     \/ /\ job'[a].status = "failed" /\ ~AuthorizationLost(a)
        /\ asset'[a].status = "failed" /\ asset'[a].consent = asset[a].consent

\* claim either takes its job or gives it up.
LEMMA ClaimEffect ==
  ASSUME TypeOK, NEW a \in Asset, Claim(a)
  PROVE  Taken(a) \/ GivenUp(a)
<1>1. job[a].status \in {"queued", "running"}
  BY DEF Claim, Claimable
<1>2. CASE AuthorizationLost(a) \/ job[a].attempt >= MaxAttempts
  <2> DEFINE st == IF AuthorizationLost(a) THEN "cancelled" ELSE "failed"
  <2>1. job' = [job EXCEPT ![a].status = st]
    BY <1>2 DEF Claim
  <2>2. \A f \in Fence : attempt'[a][f] = Ended(a, f, "expired")
    BY <1>2 DEF Claim, EndAttempt, Ended, TypeOK
  <2>3. GivenUp(a)
    BY <1>1, <1>2, <2>1, <2>2
       DEF Claim, Untouched, TypeOK, JobRow, AssetRow, GivenUp, SameClaim
  <2> QED  BY <2>3
<1>3. CASE ~(AuthorizationLost(a) \/ job[a].attempt >= MaxAttempts)
  <2>1. PICK r : job' = [job EXCEPT ![a] = r] /\ r.status = "running"
                 /\ r.attempt = job[a].attempt + 1 /\ r.fence = job[a].fence + 1
                 /\ r.gen = job[a].gen /\ r.cgen = job[a].cgen
                 /\ r.upload = job[a].upload
    BY <1>3 DEF Claim, TypeOK, JobRow
  <2>2. job[a].attempt < MaxAttempts
    BY <1>3, LifecycleAssumption DEF TypeOK, JobRow
  <2>3. attempt' = [attempt EXCEPT ![a] =
           [EndAttempt(a, "expired") EXCEPT ![job[a].fence + 1] = "running"]]
    BY <1>3 DEF Claim
  <2>4. \A f \in Fence : attempt'[a][f] =
          IF f = job[a].fence + 1 THEN "running" ELSE Ended(a, f, "expired")
    BY <2>3 DEF EndAttempt, Ended, TypeOK
  <2>5. Taken(a)
    BY <1>1, <1>3, <2>1, <2>2, <2>3, <2>4
       DEF Claim, Untouched, TypeOK, Taken, SameClaim
  <2> QED  BY <2>5
<1> QED  BY <1>2, <1>3

Finished(a, f) ==
  /\ \A b \in Asset \ {a} : Untouched(b)
  /\ job[a].status = "running" /\ job[a].fence = f
  /\ SameClaim(a)
  /\ job'[a].attempt = job[a].attempt /\ job'[a].fence = f
  /\ job'[a].status = "review" /\ asset'[a].status = "review"
  /\ asset'[a].gen = asset[a].gen /\ asset'[a].consent = asset[a].consent
  /\ serving'[a] = serving[a]
  /\ \A g \in Fence :
       attempt'[a][g] = IF g = f THEN "complete" ELSE attempt[a][g]

\* What finish does to the rows of its asset.
LEMMA FinishEffect ==
  ASSUME TypeOK, NEW a \in Asset, NEW f \in Fence, Finish(a, f)
  PROVE  Finished(a, f)
BY DEF Finish, Publishable, Owns, Untouched, TypeOK, JobRow, AssetRow, Finished,
       SameClaim

Failed(a, f) ==
  /\ \A b \in Asset \ {a} : Untouched(b)
  /\ job[a].status = "running" /\ job[a].fence = f
  /\ SameClaim(a)
  /\ job'[a].attempt = job[a].attempt /\ job'[a].fence = f
  /\ asset'[a].gen = asset[a].gen /\ asset'[a].consent = asset[a].consent
  /\ \/ job'[a].status = "queued" /\ asset'[a] = asset[a]
     \/ job'[a].status = "failed" /\ asset[a].gen = job[a].gen
          /\ asset'[a].status = "failed"
     \/ job'[a].status = "failed" /\ asset[a].gen # job[a].gen
          /\ asset'[a] = asset[a]
  /\ serving'[a] = serving[a]
  /\ \A g \in Fence :
       attempt'[a][g] = IF g = f THEN "failed" ELSE attempt[a][g]

\* What fail does to the rows of its asset.
LEMMA FailEffect ==
  ASSUME TypeOK, NEW a \in Asset, NEW f \in Fence, NEW retry \in BOOLEAN,
         Fail(a, f, retry)
  PROVE  Failed(a, f)
<1> DEFINE again == retry /\ job[a].attempt < MaxAttempts
           st == IF again THEN "queued" ELSE "failed"
           r == [job[a] EXCEPT !.status = st, !.due = FALSE]
<1>0. /\ r.status = st /\ r.attempt = job[a].attempt /\ r.fence = job[a].fence
      /\ r.gen = job[a].gen /\ r.cgen = job[a].cgen /\ r.upload = job[a].upload
  BY DEF TypeOK, JobRow
<1>1. job' = [job EXCEPT ![a] = r]
  BY DEF Fail
<1>2. \/ again /\ asset' = asset
      \/ ~again /\ asset[a].gen = job[a].gen
           /\ asset' = [asset EXCEPT ![a].status = "failed"]
      \/ ~again /\ asset[a].gen # job[a].gen /\ asset' = asset
  BY DEF Fail
<1>3. attempt' = [attempt EXCEPT ![a][f] = "failed"]
  BY DEF Fail
<1> QED
  BY <1>0, <1>1, <1>2, <1>3
     DEF Fail, Untouched, TypeOK, AssetRow, Failed, SameClaim

Approved(a) ==
  /\ \A b \in Asset \ {a} : Untouched(b)
  /\ asset[a].consent \in Consent /\ consent[asset[a].consent].status = "active"
  /\ asset[a].status = "review"
  /\ asset'[a].status = "approved" /\ job'[a].status = "complete"
  /\ SameClaim(a) /\ job'[a].fence = job[a].fence
  /\ asset'[a].gen = asset[a].gen /\ asset'[a].consent = asset[a].consent
  /\ serving'[a] = "approved" /\ attempt'[a] = attempt[a]

\* What approve does to the rows of its asset.
LEMMA ApproveEffect ==
  ASSUME TypeOK, NEW a \in Asset, Approve(a)
  PROVE  Approved(a)
BY DEF Approve, Untouched, TypeOK, JobRow, AssetRow, Approved, SameClaim,
       ConsentActive

Cancelled(a) ==
  /\ \A b \in Asset \ {a} : Untouched(b)
  /\ job[a].status \notin {"absent", "complete", "cancelled"}
  /\ asset'[a].status = "cancelled" /\ asset'[a].consent = asset[a].consent
  /\ job'[a].status = "cancelled" /\ job'[a].fence = job[a].fence + 1
  /\ job'[a].upload = job[a].upload
  /\ serving'[a] = serving[a]
  /\ \A f \in Fence : attempt'[a][f] = Ended(a, f, "cancelled")

\* What cancel does to the rows of its asset.
LEMMA CancelEffect ==
  ASSUME TypeOK, NEW a \in Asset, Cancel(a)
  PROVE  Cancelled(a)
<1> DEFINE r == [job[a] EXCEPT !.status = "cancelled", !.fence = @ + 1]
           q == [asset[a] EXCEPT !.status = "cancelled", !.gen = @ + 1]
<1>1. /\ r.status = "cancelled" /\ r.fence = job[a].fence + 1
      /\ r.upload = job[a].upload
  BY DEF TypeOK, JobRow
<1>2. q.status = "cancelled" /\ q.consent = asset[a].consent
  BY DEF TypeOK, AssetRow
<1>3. job' = [job EXCEPT ![a] = r] /\ asset' = [asset EXCEPT ![a] = q]
  BY DEF Cancel
<1>4. \A f \in Fence : attempt'[a][f] = Ended(a, f, "cancelled")
  BY DEF Cancel, EndAttempt, Ended, TypeOK
<1> QED  BY <1>1, <1>2, <1>3, <1>4 DEF Cancel, Untouched, TypeOK, Cancelled

Revoked(a) ==
  /\ asset'[a].status = "revoked" /\ asset'[a].consent = asset[a].consent
  /\ serving'[a] # "approved"
  /\ job'[a].upload = job[a].upload
  /\ \/ /\ job[a].status \in Unfinished
        /\ job'[a].status = "cancelled" /\ job'[a].fence = job[a].fence + 1
        /\ \A f \in Fence : attempt'[a][f] = Ended(a, f, "cancelled")
     \/ /\ job[a].status \notin Unfinished
        /\ job'[a] = job[a] /\ attempt'[a] = attempt[a]

\* A committed revocation either revokes an asset or leaves it untouched.
LEMMA CommitEffect ==
  ASSUME TypeOK, CommitRevoke, NEW a \in Asset
  PROVE  IF a \in revoking.assets THEN Revoked(a) ELSE Untouched(a)
<1>1. CASE a \in revoking.assets /\ job[a].status \in Unfinished
  <2>1. job'[a] = [job[a] EXCEPT !.status = "cancelled", !.fence = @ + 1]
    BY <1>1 DEF CommitRevoke
  <2>2. /\ job'[a].status = "cancelled" /\ job'[a].fence = job[a].fence + 1
        /\ job'[a].upload = job[a].upload
    BY <2>1 DEF TypeOK, JobRow
  <2>3. \A f \in Fence : attempt'[a][f] = Ended(a, f, "cancelled")
    BY <1>1 DEF CommitRevoke, EndAttempt, Ended
  <2> QED  BY ZenonT(30), <1>1, <2>2, <2>3 DEF CommitRevoke, TypeOK, AssetRow, Revoked
<1>2. CASE a \in revoking.assets /\ job[a].status \notin Unfinished
  BY <1>2 DEF CommitRevoke, TypeOK, AssetRow, Revoked
<1>3. CASE a \notin revoking.assets
  BY <1>3 DEF CommitRevoke, Untouched
<1> QED  BY <1>1, <1>2, <1>3

-----------------------------------------------------------------------------
(* The rows of an asset stay consistent                                    *)

RowsConsistent ==
  /\ ServedIffApproved /\ RunnableJobIsAuthorized /\ FencedAttempts
  /\ JobsFollowAssets /\ FenceCountsAttempts

\* RowsConsistent, for one asset.
StatusesAgree(a) ==
  /\ serving[a] = "approved" <=> asset[a].status = "approved"
  /\ serving[a] = "approved" => /\ ConsentActive(asset[a].consent)
                                /\ job[a].status = "complete"
  /\ asset[a].status = "absent" <=> job[a].status = "absent"
  /\ asset[a].status = "importing" => job[a].status \in {"queued", "running"}
  /\ asset[a].status = "review" => job[a].status = "review"
  /\ job[a].status = "complete" => asset[a].status \in {"approved", "revoked"}
  /\ job[a].status \in Unfinished =>
       /\ asset[a].status = IF job[a].status = "review" THEN "review" ELSE "importing"
       /\ asset[a].gen = job[a].gen
       /\ ConsentActive(asset[a].consent)
       /\ consent[asset[a].consent].gen = job[a].cgen

AttemptsAgree(a) ==
  /\ \A f \in Fence :
       attempt[a][f] = "running" <=> job[a].status = "running" /\ job[a].fence = f
  /\ job[a].status = "absent" => job[a].fence = 0
  /\ job[a].status \in Unfinished =>
       job[a].fence = job[a].attempt /\ job[a].attempt <= MaxAttempts
  /\ \A f \in Fence : f > job[a].fence => attempt[a][f] = "none"

\* The consistency of the tables is that of each asset's rows.
LEMMA RowByRow ==
  ASSUME RowsConsistent, NEW a \in Asset
  PROVE  StatusesAgree(a) /\ AttemptsAgree(a)
<1>1. StatusesAgree(a)
  BY DEF RowsConsistent, ServedIffApproved, RunnableJobIsAuthorized,
         JobsFollowAssets, StatusesAgree
<1>2. AttemptsAgree(a)
  BY DEF RowsConsistent, FencedAttempts, FenceCountsAttempts, AttemptsAgree
<1> QED  BY <1>1, <1>2

\* ... and so is that of the next state.
LEMMA RowsAfter ==
  ASSUME \A a \in Asset : StatusesAgree(a)' /\ AttemptsAgree(a)'
  PROVE  RowsConsistent'
<1>1. (ServedIffApproved /\ RunnableJobIsAuthorized /\ JobsFollowAssets)'
  BY DEF ServedIffApproved, RunnableJobIsAuthorized, JobsFollowAssets,
         StatusesAgree
<1>2. (FencedAttempts /\ FenceCountsAttempts)'
  BY DEF FencedAttempts, FenceCountsAttempts, AttemptsAgree
<1> QED  BY <1>1, <1>2 DEF RowsConsistent

\* The types of one asset's rows.
LEMMA RowTypes ==
  ASSUME TypeOK, NEW a \in Asset
  PROVE  /\ job[a].fence \in Nat /\ job[a].attempt \in Nat
         /\ Fence \subseteq Nat /\ MaxAttempts \in Nat
BY LifecycleAssumption DEF TypeOK, JobRow, Fence

\* Untouched rows under an unchanged consent stay consistent.
LEMMA UntouchedRow ==
  ASSUME NEW a \in Asset, StatusesAgree(a), AttemptsAgree(a), Untouched(a),
         consent' = consent
  PROVE  StatusesAgree(a)' /\ AttemptsAgree(a)'
BY DEF Untouched, StatusesAgree, AttemptsAgree, ConsentActive

\* Rows of which only the lease or the delay changed stay consistent.
LEMMA SameJobRow ==
  ASSUME NEW a \in Asset, StatusesAgree(a), AttemptsAgree(a), SameJob(a),
         UNCHANGED <<consent, asset, attempt, serving>>
  PROVE  StatusesAgree(a)' /\ AttemptsAgree(a)'
BY DEF SameJob, StatusesAgree, AttemptsAgree, ConsentActive

\* enroll keeps the rows of every asset consistent.
LEMMA EnrollRows ==
  ASSUME TypeOK, RowsConsistent, NEW u \in Upload, NEW a \in Asset, Enroll(u, a)
  PROVE  RowsConsistent'
<1>0. Enrolled(u, a)
  BY EnrollEffect
<1>1. consent' = consent
  BY DEF Enroll
<1>2. StatusesAgree(a) /\ AttemptsAgree(a)
  BY RowByRow
<1>3. StatusesAgree(a)'
  BY <1>0, <1>1, <1>2
     DEF Enrolled, SameClaim, StatusesAgree, ConsentActive, Unfinished
<1>4. AttemptsAgree(a)'
  BY <1>0, <1>2, RowTypes
     DEF Enrolled, AttemptsAgree, StatusesAgree, Unfinished, Ended
<1>5. ASSUME NEW b \in Asset \ {a} PROVE StatusesAgree(b)' /\ AttemptsAgree(b)'
  <2>1. Untouched(b)
    BY <1>0 DEF Enrolled
  <2>2. StatusesAgree(b) /\ AttemptsAgree(b)
    BY RowByRow
  <2> QED  BY <1>1, <2>1, <2>2, UntouchedRow
<1> QED  BY <1>3, <1>4, <1>5, RowsAfter

\* claim keeps the rows of every asset consistent.
LEMMA ClaimRows ==
  ASSUME TypeOK, RowsConsistent, NEW a \in Asset, Claim(a)
  PROVE  RowsConsistent'
<1>0. Taken(a) \/ GivenUp(a)
  BY ClaimEffect
<1>1. consent' = consent
  BY DEF Claim
<1>2. StatusesAgree(a) /\ AttemptsAgree(a)
  BY RowByRow
<1>3. StatusesAgree(a)'
  BY <1>0, <1>1, <1>2
     DEF Taken, GivenUp, AuthorizationLost, SameClaim, StatusesAgree, ConsentActive, Unfinished
<1>4. AttemptsAgree(a)'
  BY <1>0, <1>2, RowTypes
     DEF Taken, GivenUp, AttemptsAgree, StatusesAgree, Unfinished, Ended
<1>5. ASSUME NEW b \in Asset \ {a} PROVE StatusesAgree(b)' /\ AttemptsAgree(b)'
  <2>1. Untouched(b)
    BY <1>0 DEF Taken, GivenUp
  <2>2. StatusesAgree(b) /\ AttemptsAgree(b)
    BY RowByRow
  <2> QED  BY <1>1, <2>1, <2>2, UntouchedRow
<1> QED  BY <1>3, <1>4, <1>5, RowsAfter

\* finish keeps the rows of every asset consistent.
LEMMA FinishRows ==
  ASSUME TypeOK, RowsConsistent, NEW a \in Asset, NEW f \in Fence, Finish(a, f)
  PROVE  RowsConsistent'
<1>0. Finished(a, f)
  BY FinishEffect
<1>1. consent' = consent
  BY DEF Finish
<1>2. StatusesAgree(a) /\ AttemptsAgree(a)
  BY RowByRow
<1>3. StatusesAgree(a)'
  BY <1>0, <1>1, <1>2
     DEF Finished, SameClaim, StatusesAgree, ConsentActive, Unfinished
<1>4. AttemptsAgree(a)'
  BY <1>0, <1>2, RowTypes
     DEF Finished, AttemptsAgree, StatusesAgree, Unfinished, Ended
<1>5. ASSUME NEW b \in Asset \ {a} PROVE StatusesAgree(b)' /\ AttemptsAgree(b)'
  <2>1. Untouched(b)
    BY <1>0 DEF Finished
  <2>2. StatusesAgree(b) /\ AttemptsAgree(b)
    BY RowByRow
  <2> QED  BY <1>1, <2>1, <2>2, UntouchedRow
<1> QED  BY <1>3, <1>4, <1>5, RowsAfter

\* fail keeps the rows of every asset consistent.
LEMMA FailRows ==
  ASSUME TypeOK, RowsConsistent, NEW a \in Asset, NEW f \in Fence, NEW retry \in BOOLEAN,
         Fail(a, f, retry)
  PROVE  RowsConsistent'
<1>0. Failed(a, f)
  BY FailEffect
<1>1. consent' = consent
  BY DEF Fail
<1>2. StatusesAgree(a) /\ AttemptsAgree(a)
  BY RowByRow
<1>3. StatusesAgree(a)'
  BY <1>0, <1>1, <1>2
     DEF Failed, SameClaim, StatusesAgree, ConsentActive, Unfinished
<1>4. AttemptsAgree(a)'
  BY <1>0, <1>2, RowTypes
     DEF Failed, AttemptsAgree, StatusesAgree, Unfinished, Ended
<1>5. ASSUME NEW b \in Asset \ {a} PROVE StatusesAgree(b)' /\ AttemptsAgree(b)'
  <2>1. Untouched(b)
    BY <1>0 DEF Failed
  <2>2. StatusesAgree(b) /\ AttemptsAgree(b)
    BY RowByRow
  <2> QED  BY <1>1, <2>1, <2>2, UntouchedRow
<1> QED  BY <1>3, <1>4, <1>5, RowsAfter

\* approve keeps the rows of every asset consistent.
LEMMA ApproveRows ==
  ASSUME TypeOK, RowsConsistent, NEW a \in Asset, Approve(a)
  PROVE  RowsConsistent'
<1>0. Approved(a)
  BY ApproveEffect
<1>1. consent' = consent
  BY DEF Approve
<1>2. StatusesAgree(a) /\ AttemptsAgree(a)
  BY RowByRow
<1>3. StatusesAgree(a)'
  BY <1>0, <1>1, <1>2
     DEF Approved, SameClaim, StatusesAgree, ConsentActive, Unfinished
<1>4. AttemptsAgree(a)'
  BY <1>0, <1>2, RowTypes
     DEF Approved, AttemptsAgree, StatusesAgree, Unfinished, Ended
<1>5. ASSUME NEW b \in Asset \ {a} PROVE StatusesAgree(b)' /\ AttemptsAgree(b)'
  <2>1. Untouched(b)
    BY <1>0 DEF Approved
  <2>2. StatusesAgree(b) /\ AttemptsAgree(b)
    BY RowByRow
  <2> QED  BY <1>1, <2>1, <2>2, UntouchedRow
<1> QED  BY <1>3, <1>4, <1>5, RowsAfter

\* cancel keeps the rows of every asset consistent.
LEMMA CancelRows ==
  ASSUME TypeOK, RowsConsistent, NEW a \in Asset, Cancel(a)
  PROVE  RowsConsistent'
<1>0. Cancelled(a)
  BY CancelEffect
<1>1. consent' = consent
  BY DEF Cancel
<1>2. StatusesAgree(a) /\ AttemptsAgree(a)
  BY RowByRow
<1>3. StatusesAgree(a)'
  BY <1>0, <1>1, <1>2
     DEF Cancelled, SameClaim, StatusesAgree, ConsentActive, Unfinished
<1>4. AttemptsAgree(a)'
  BY <1>0, <1>2, RowTypes
     DEF Cancelled, AttemptsAgree, StatusesAgree, Unfinished, Ended
<1>5. ASSUME NEW b \in Asset \ {a} PROVE StatusesAgree(b)' /\ AttemptsAgree(b)'
  <2>1. Untouched(b)
    BY <1>0 DEF Cancelled
  <2>2. StatusesAgree(b) /\ AttemptsAgree(b)
    BY RowByRow
  <2> QED  BY <1>1, <2>1, <2>2, UntouchedRow
<1> QED  BY <1>3, <1>4, <1>5, RowsAfter

\* Timers keep the rows of every asset consistent.
LEMMA TimerRows ==
  ASSUME TypeOK, RowsConsistent, NEW a \in Asset,
         \/ \E f \in Fence : Stage(a, f)
         \/ LeaseTick(a)
         \/ BackoffElapses(a)
  PROVE  RowsConsistent'
<1>1. \A b \in Asset : SameJob(b)
  BY TimerEffect
<1>2. UNCHANGED <<consent, asset, attempt, serving>>
  BY DEF Stage, LeaseTick, BackoffElapses
<1> QED  BY <1>1, <1>2, RowByRow, SameJobRow, RowsAfter

\* A revocation takes every asset of the consents it revokes with it, so that
\* the rows it leaves alone keep an active consent of the same generation.
LEMMA CommitRows ==
  ASSUME TypeOK, RowsConsistent, RevocationInProgress, CommitRevoke
  PROVE  RowsConsistent'
<1>1. ASSUME NEW a \in Asset PROVE StatusesAgree(a)' /\ AttemptsAgree(a)'
  <2>1. StatusesAgree(a) /\ AttemptsAgree(a)
    BY RowByRow
  <2>2. CASE a \in revoking.assets
    <3>1. Revoked(a)
      BY <2>2, CommitEffect
    <3>2. asset[a].status \notin {"absent", "revoked"}
      BY <2>2 DEF RevocationInProgress
    <3>3. StatusesAgree(a)'
      BY <2>1, <3>1, <3>2 DEF Revoked, StatusesAgree, Unfinished
    <3>4. AttemptsAgree(a)'
      BY <2>1, <3>1, RowTypes
         DEF Revoked, AttemptsAgree, StatusesAgree, Unfinished, Ended
    <3> QED  BY <3>3, <3>4
  <2>3. CASE a \notin revoking.assets
    <3>1. Untouched(a)
      BY <2>3, CommitEffect
    <3>2. asset[a].status \notin {"absent", "revoked"}
            => asset[a].consent \notin revoking.consents
      BY <2>3 DEF RevocationInProgress
    <3>3. asset[a].consent \in Consent /\ asset[a].consent \notin revoking.consents
            => consent'[asset[a].consent] = consent[asset[a].consent]
      BY DEF CommitRevoke
    <3>4. StatusesAgree(a)'
      BY <2>1, <3>1, <3>2, <3>3
         DEF Untouched, StatusesAgree, ConsentActive, Unfinished
    <3>5. AttemptsAgree(a)'
      BY <2>1, <3>1 DEF Untouched, AttemptsAgree
    <3> QED  BY <3>4, <3>5
  <2> QED  BY <2>2, <2>3
<1> QED  BY <1>1, RowsAfter

\* Recording a consent keeps the rows consistent: no asset has it yet.
LEMMA CaptureRows ==
  ASSUME TypeOK, RowsConsistent, Capture
  PROVE  RowsConsistent'
<1>1. \A a \in Asset : asset'[a] = asset[a] /\ job'[a] = job[a]
                         /\ attempt'[a] = attempt[a] /\ serving'[a] = serving[a]
  BY CaptureFrame
<1>2. \A c \in Consent : consent[c].status # "absent" => consent'[c] = consent[c]
  BY DEF Capture, CreateConsent, CreateUpload, PutUpload, PutUploadKilled,
         ExpireUploads, TypeOK
<1>3. ASSUME NEW a \in Asset PROVE StatusesAgree(a)' /\ AttemptsAgree(a)'
  <2>1. StatusesAgree(a) /\ AttemptsAgree(a)
    BY RowByRow
  <2>2. ConsentActive(asset[a].consent)
          => consent'[asset[a].consent] = consent[asset[a].consent]
    BY <1>2 DEF ConsentActive
  <2> QED  BY <1>1, <2>1, <2>2 DEF StatusesAgree, AttemptsAgree, ConsentActive
<1> QED  BY <1>3, RowsAfter

\* Every step keeps the rows consistent.
LEMMA RowsStep ==
  ASSUME TypeOK, RowsConsistent, RevocationInProgress, Next
  PROVE  RowsConsistent'
<1>1. ASSUME UNCHANGED <<consent, asset, job, attempt, serving>>
      PROVE  RowsConsistent'
  <2>1. \A a \in Asset : StatusesAgree(a)' /\ AttemptsAgree(a)'
    BY <1>1, RowByRow DEF StatusesAgree, AttemptsAgree, ConsentActive
  <2> QED  BY <2>1, RowsAfter
<1>2. CASE Capture
  BY <1>2, CaptureRows
<1>3. CASE Import
  <2>1. CASE \E a \in Asset, f \in Fence, o \in Object :
               WriteImportObject(a, f, o) \/ WriteImportObjectKilled(a, f, o)
    BY <1>1, <2>1 DEF WriteImportObject, WriteImportObjectKilled
  <2> QED
    BY <1>3, <2>1, EnrollRows, ClaimRows, TimerRows, FinishRows, FailRows,
       ApproveRows, CancelRows
       DEF Import
<1>4. CASE Time
  <2>1. CASE \E u \in Upload : UploadExpires(u)
    BY <1>1, <2>1 DEF UploadExpires
  <2> QED  BY <1>4, <2>1, TimerRows DEF Time
<1>5. CASE Serve
  BY <1>1, <1>5, ServeFrame
<1>6. CASE Revoke
  <2>1. CASE CommitRevoke
    BY <2>1, CommitRows
  <2>2. CASE ~CommitRevoke
    <3>1. UNCHANGED <<consent, asset, job, attempt, serving>>
      BY <1>6, <2>2
         DEF Revoke, RevokeAsset, RevokeConsent, BeginRevoke, LockServing,
             RollbackRevoke, PurgeAsset, PurgeAssetInterrupted, PurgeConsent
    <3> QED  BY <1>1, <3>1
  <2> QED  BY <2>1, <2>2
<1> QED  BY <1>2, <1>3, <1>4, <1>5, <1>6 DEF Next

-----------------------------------------------------------------------------
(* Sessions, and the revocation in progress                                *)

\* recover leaves no session live.
LEMMA RecoverEffect ==
  ASSUME TypeOK, Recover, NEW t \in Session
  PROVE  session'[t] = session[t] \/ session'[t].status = "FAILED"
<1> DEFINE r == [session[t] EXCEPT !.status = "FAILED", !.fence = @ + 1]
<1>1. r.status = "FAILED"
  BY DEF TypeOK, SessionRow
<1>2. session'[t] = session[t] \/ session'[t] = r
  BY DEF Recover
<1> QED  BY <1>1, <1>2

\* stop_orphan closes a draining session only.
LEMMA StopEffect ==
  ASSUME TypeOK, NEW s \in Session, StopOrphan(s), NEW t \in Session
  PROVE  session'[t] = session[t] \/ session'[t].status = "CLOSED"
<1> DEFINE r == [session[s] EXCEPT !.status = "CLOSED", !.fence = @ + 1]
<1>1. r.status = "CLOSED"
  BY DEF TypeOK, SessionRow
<1>2. session' = [session EXCEPT ![s] = r]
  BY DEF StopOrphan
<1> QED  BY <1>1, <1>2 DEF TypeOK

\* A session without a row is never written.
LEMMA UnreservedStep ==
  ASSUME TypeOK, UnreservedSessions, Next
  PROVE  UnreservedSessions'
<1>1. ASSUME NEW t \in Session, session'[t].status = "absent"
      PROVE  session'[t] = session[t]
  <2>1. CASE \E s \in Session, a \in Asset : Reserve(s, a)
    BY <1>1, <2>1 DEF Reserve, TypeOK
  <2>2. CASE \E s \in Session, status \in {"READY", "ACTIVE", "CLOSED", "FAILED"} :
               UpdateSession(s, status)
    BY <1>1, <2>2 DEF UpdateSession, TypeOK, SessionRow
  <2>3. CASE Recover
    BY <1>1, <2>3, RecoverEffect DEF TypeOK, SessionRow
  <2>4. CASE \E s \in Session : StopOrphan(s)
    BY <1>1, <2>4, StopEffect DEF TypeOK, SessionRow
  <2>5. CASE CommitRevoke
    BY <1>1, <2>5 DEF CommitRevoke, TypeOK, SessionRow
  <2>6. CASE Revoke /\ ~CommitRevoke
    BY <2>6
       DEF Revoke, RevokeAsset, RevokeConsent, BeginRevoke, LockServing,
           RollbackRevoke, PurgeAsset, PurgeAssetInterrupted, PurgeConsent
  <2> QED
    BY <2>1, <2>2, <2>3, <2>4, <2>5, <2>6, CaptureFrame, ImportFrame, TimeFrame
       DEF Next, Serve
<1> QED  BY <1>1 DEF UnreservedSessions

\* A session that is live after a step of Serve was live before, or it has just
\* been reserved while nothing held the slot.
JustReserved(t) ==
  /\ session'[t].asset \in Asset /\ serving[session'[t].asset] = "approved"
  /\ session'[t].asset \notin revoking.locked
  /\ \A s \in Session : session[s].status \notin SlotHolder
  /\ \A s \in Session \ {t} : session'[s] = session[s]

\* A session is live after a step of the store only if it was, or if reserve
\* just admitted it, when no other was.
LEMMA LiveAfterServe ==
  ASSUME TypeOK, UnreservedSessions, Serve, NEW t \in Session,
         session'[t].status \in LiveSession
  PROVE  \/ session[t].status \in LiveSession /\ session'[t].asset = session[t].asset
         \/ JustReserved(t)
<1>1. CASE \E s \in Session, a \in Asset : Reserve(s, a)
  <2> PICK s \in Session, a \in Asset : Reserve(s, a)  BY <1>1
  <2>1. CASE t = s
    BY <2>1 DEF Reserve, JustReserved, TypeOK
  <2>2. CASE t # s
    BY <2>2 DEF Reserve, TypeOK
  <2> QED  BY <2>1, <2>2
<1>2. CASE \E s \in Session, status \in {"READY", "ACTIVE", "CLOSED", "FAILED"} :
             UpdateSession(s, status)
  <2> PICK s \in Session, status \in {"READY", "ACTIVE", "CLOSED", "FAILED"} :
             UpdateSession(s, status)
    BY <1>2
  <2>1. session'[t].asset = session[t].asset
    BY DEF UpdateSession, TypeOK, SessionRow
  <2>2. CASE t = s
    <3>1. session'[s].status = status
      BY DEF UpdateSession, TypeOK, SessionRow
    <3>2. session[s].status \notin Stopped /\ session[s].status # "absent"
      BY <2>2, <3>1 DEF UpdateSession, LiveSession, UnreservedSessions
    <3> QED
      BY <2>1, <2>2, <3>2 DEF TypeOK, SessionRow, SessionStatus, Stopped, LiveSession
  <2>3. CASE t # s
    BY <2>3 DEF UpdateSession, TypeOK
  <2> QED  BY <2>2, <2>3
<1>3. CASE Recover \/ \E s \in Session : StopOrphan(s)
  BY <1>3, RecoverEffect, StopEffect DEF LiveSession
<1> QED  BY <1>1, <1>2, <1>3 DEF Serve

\* The other steps make no session live.
LEMMA LiveAfterOther ==
  ASSUME TypeOK, Capture \/ Import \/ Time \/ Revoke,
         NEW t \in Session, session'[t].status \in LiveSession
  PROVE  /\ session'[t] = session[t]
         /\ CommitRevoke => t \notin revoking.sessions
<1>1. CASE CommitRevoke
  BY <1>1 DEF CommitRevoke, TypeOK, SessionRow, LiveSession
<1>2. CASE ~CommitRevoke
  BY <1>2, CaptureFrame, ImportFrame, TimeFrame
     DEF Revoke, RevokeAsset, RevokeConsent, BeginRevoke, LockServing,
         RollbackRevoke, PurgeAsset, PurgeAssetInterrupted, PurgeConsent
<1> QED  BY <1>1, <1>2

\* The admission slot is never given twice.
LEMMA OneLiveStep ==
  ASSUME TypeOK, UnreservedSessions, OneLiveSession, Next
  PROVE  OneLiveSession'
<1> SUFFICES ASSUME NEW s \in Session, NEW t \in Session, s # t,
                    session'[s].status \in LiveSession,
                    session'[t].status \in LiveSession
             PROVE  FALSE
  BY DEF OneLiveSession
<1>1. CASE Serve
  <2>1. ~JustReserved(s) /\ ~JustReserved(t)
    BY DEF JustReserved, SlotHolder
  <2> QED  BY <1>1, <2>1, LiveAfterServe DEF OneLiveSession
<1>2. CASE Capture \/ Import \/ Time \/ Revoke
  BY <1>2, LiveAfterOther DEF OneLiveSession
<1> QED  BY <1>1, <1>2 DEF Next

\* revoke starts with the rows it is to revoke.
LEMMA BeginInProgress ==
  ASSUME TypeOK, NEW C \in SUBSET Consent, NEW A \in SUBSET Asset, BeginRevoke(C, A),
         \A a \in A : asset[a].status \notin {"absent", "revoked"},
         \A c \in C :
           /\ consent[c].status = "active"
           /\ \A a \in Asset : asset[a].consent = c =>
                a \in A \/ asset[a].status \in {"absent", "revoked"}
  PROVE  RevocationInProgress'
<1>1. /\ revoking'.active /\ revoking'.consents = C /\ revoking'.assets = A
      /\ revoking'.locked = {}
      /\ UNCHANGED <<asset, consent, session>>
  BY DEF BeginRevoke, NotRevoking
<1> QED  BY <1>1 DEF RevocationInProgress

\* What a revocation knows under the advisory lock stays true until it commits.
LEMMA InProgressStep ==
  ASSUME TypeOK, UnreservedSessions, RevocationInProgress, Next
  PROVE  RevocationInProgress'
<1>1. ASSUME revoking' = NotRevoking
      PROVE  RevocationInProgress'
  BY <1>1 DEF RevocationInProgress, NotRevoking
<1>2. ASSUME Unlocked, revoking' = revoking
      PROVE  RevocationInProgress'
  BY <1>1, <1>2 DEF RevocationInProgress, Unlocked
<1>3. CASE Capture
  <2>1. Unlocked
    BY <1>3 DEF Capture, CreateConsent, CreateUpload, PutUpload, PutUploadKilled,
                ExpireUploads
  <2> QED  BY <1>2, <1>3, <2>1, CaptureFrame
<1>4. CASE Import
  <2>1. Unlocked
    BY <1>4 DEF Import, Enroll, Claim, Stage, WriteImportObject,
                WriteImportObjectKilled, Finish, Fail, Approve, Cancel
  <2> QED  BY <1>2, <1>4, <2>1, ImportFrame
<1>5. CASE Time
  BY <1>5, TimeFrame DEF RevocationInProgress
<1>6. CASE Serve
  <2>1. UNCHANGED <<revoking, asset, consent>>
    BY <1>6, ServeFrame
  <2>2. ASSUME NEW t \in Session, session'[t].status \in LiveSession,
               session'[t].asset \in revoking.locked
        PROVE  t \in revoking.sessions
    BY <1>6, <2>2, LiveAfterServe DEF RevocationInProgress, JustReserved
  <2> QED  BY <2>1, <2>2 DEF RevocationInProgress
<1>7. CASE \E a \in Asset : RevokeAsset(a)
  <2> PICK a \in Asset : RevokeAsset(a)  BY <1>7
  <2> DEFINE A == NotRevoked({a})
  <2>1. /\ A \subseteq Asset
        /\ \A b \in A : asset[b].status \notin {"absent", "revoked"}
    BY DEF NotRevoked
  <2>2. BeginRevoke({}, A)
    BY DEF RevokeAsset
  <2> HIDE DEF A
  <2> QED  BY <2>1, <2>2, BeginInProgress
<1>8. CASE \E c \in Consent : RevokeConsent(c)
  <2> PICK c \in Consent : RevokeConsent(c)  BY <1>8
  <2> DEFINE C == {d \in {c} : consent[d].status = "active"}
             A == NotRevoked({a \in Asset : asset[a].consent = c})
  <2>1. /\ C \subseteq Consent /\ A \subseteq Asset
        /\ \A a \in A : asset[a].status \notin {"absent", "revoked"}
        /\ \A d \in C :
             /\ consent[d].status = "active"
             /\ \A a \in Asset : asset[a].consent = d =>
                  a \in A \/ asset[a].status \in {"absent", "revoked"}
    BY DEF NotRevoked
  <2>2. BeginRevoke(C, A)
    BY DEF RevokeConsent
  <2> HIDE DEF C, A
  <2> QED  BY <2>1, <2>2, BeginInProgress
<1>9. CASE \E a \in Asset : LockServing(a)
  <2> PICK a \in Asset : LockServing(a)  BY <1>9
  <2>1. /\ revoking'.active = revoking.active
        /\ revoking'.consents = revoking.consents
        /\ revoking'.assets = revoking.assets
        /\ revoking'.locked = revoking.locked \cup {a}
        /\ revoking'.sessions = revoking.sessions
             \cup {s \in Session : session[s].asset = a
                                     /\ session[s].status \in LiveSession}
    BY DEF LockServing, TypeOK, Revocation
  <2>2. UNCHANGED <<asset, consent, session>> /\ a \in revoking.assets
    BY DEF LockServing
  <2>3. revoking.active
    BY <2>2 DEF RevocationInProgress, NotRevoking
  <2> QED  BY <2>1, <2>2, <2>3 DEF RevocationInProgress
<1>10. CASE CommitRevoke \/ RollbackRevoke
  BY <1>1, <1>10 DEF CommitRevoke, RollbackRevoke
<1>11. CASE \E e \in outbox : PurgeAsset(e) \/ PurgeAssetInterrupted(e)
                                \/ PurgeConsent(e)
  BY <1>2, <1>11 DEF PurgeAsset, PurgeAssetInterrupted, PurgeConsent
<1> QED
  BY <1>3, <1>4, <1>5, <1>6, <1>7, <1>8, <1>9, <1>10, <1>11 DEF Next, Revoke

\* A live session stays authorized: a revocation drains those it locked out.
LEMMA LiveSessionStep ==
  ASSUME TypeOK, RowsConsistent, UnreservedSessions, RevocationInProgress,
         LiveSessionIsAuthorized, Next
  PROVE  LiveSessionIsAuthorized'
<1> SUFFICES ASSUME NEW t \in Session, session'[t].status \in LiveSession
             PROVE  session'[t].asset \in Asset
                      /\ serving'[session'[t].asset] = "approved"
  BY DEF LiveSessionIsAuthorized
<1>1. CASE Serve
  BY <1>1, ServeFrame, LiveAfterServe DEF LiveSessionIsAuthorized, JustReserved
<1>2. CASE CommitRevoke
  <2> DEFINE a == session[t].asset
  <2>1. session'[t] = session[t] /\ t \notin revoking.sessions
    BY <1>2, LiveAfterOther DEF Revoke
  <2>2. a \in Asset /\ serving[a] = "approved"
    BY <2>1 DEF LiveSessionIsAuthorized
  <2>3. a \notin revoking.assets
    BY <1>2, <2>1 DEF CommitRevoke, RevocationInProgress
  <2>4. serving'[a] = serving[a]
    BY <1>2, <2>2, <2>3, CommitEffect DEF Untouched
  <2> QED  BY <2>1, <2>2, <2>4
<1>3. CASE (Capture \/ Import \/ Time \/ Revoke) /\ ~CommitRevoke
  <2>1. session'[t] = session[t]
    BY <1>3, LiveAfterOther
  <2>2. session[t].asset \in Asset /\ serving[session[t].asset] = "approved"
    BY <2>1 DEF LiveSessionIsAuthorized
  <2>3. \A a \in Asset : serving[a] = "approved" => serving'[a] = "approved"
    <3>1. CASE Import
      BY ZenonT(30), <3>1 DEF Import, Enroll, Claim, Stage, WriteImportObject,
                  WriteImportObjectKilled, Finish, Fail, Approve, Cancel, TypeOK
    <3>2. CASE Revoke
      BY <1>3, <3>2
         DEF Revoke, RevokeAsset, RevokeConsent, BeginRevoke, LockServing,
             RollbackRevoke, PurgeAsset, PurgeAssetInterrupted, PurgeConsent
    <3> QED  BY <1>3, <3>1, <3>2, CaptureFrame, TimeFrame
  <2> QED  BY <2>1, <2>2, <2>3
<1> QED  BY <1>1, <1>2, <1>3 DEF Next

-----------------------------------------------------------------------------
(* Uploads, revocation events and what they leave on disk                  *)

\* The id of an event names an asset or a consent, as its kind says.
LEMMA EventIds ==
  ASSUME NEW e \in Event
  PROVE  /\ e.kind = "revoke_asset" => e.id \in Asset
         /\ e.kind = "revoke_consent" => e.id \in Consent
BY DEF Event

\* Only Enroll sets the upload of a job, no job is ever forgotten, and an
\* asset whose revocation was recorded is at most cancelled.
Final(a) == /\ asset[a].status \in {"revoked", "cancelled"}
            /\ job[a].status \in {"complete", "failed", "cancelled"}

JobKept(a) ==
  /\ job'[a].upload = job[a].upload
  /\ job[a].status # "absent" => job'[a].status # "absent"
  /\ Final(a) => Final(a)'

\* Untouched rows stay as far as they were.
LEMMA UntouchedKept ==
  ASSUME NEW a \in Asset, Untouched(a)
  PROVE  JobKept(a)
BY DEF Untouched, JobKept, Final

\* An import step never brings a closed asset, job or upload back.
LEMMA ImportKept ==
  ASSUME TypeOK, RowsConsistent, Import, NEW a \in Asset
  PROVE  JobKept(a) \/ \E u \in Upload : Enroll(u, a)
<1>1. CASE \E u \in Upload, b \in Asset : Enroll(u, b)
  BY <1>1, EnrollEffect, UntouchedKept DEF Enrolled
<1>2. CASE \E b \in Asset : Claim(b)
  <2> PICK b \in Asset : Claim(b)  BY <1>2
  <2>1. Taken(b) \/ GivenUp(b)
    BY ClaimEffect
  <2>2. CASE a = b
    BY <2>1, <2>2 DEF Taken, GivenUp, SameClaim, JobKept, Final
  <2> QED  BY <2>1, <2>2, UntouchedKept DEF Taken, GivenUp
<1>3. CASE \E b \in Asset, f \in Fence : Stage(b, f)
  <2>1. SameJob(a)
    BY <1>3, TimerEffect
  <2> QED  BY <1>3, <2>1 DEF Stage, SameJob, JobKept, Final
<1>4. CASE \E b \in Asset, f \in Fence, o \in Object :
             WriteImportObject(b, f, o) \/ WriteImportObjectKilled(b, f, o)
  BY <1>4 DEF WriteImportObject, WriteImportObjectKilled, JobKept, Final
<1>5. CASE \E b \in Asset, f \in Fence : Finish(b, f)
  <2> PICK b \in Asset, f \in Fence : Finish(b, f)  BY <1>5
  <2>1. Finished(b, f)
    BY FinishEffect
  <2>2. CASE a = b
    BY <2>1, <2>2 DEF Finished, SameClaim, JobKept, Final
  <2> QED  BY <2>1, <2>2, UntouchedKept DEF Finished
<1>6. CASE \E b \in Asset, f \in Fence, retry \in BOOLEAN : Fail(b, f, retry)
  <2> PICK b \in Asset, f \in Fence, retry \in BOOLEAN : Fail(b, f, retry)
    BY <1>6
  <2>1. Failed(b, f)
    BY FailEffect
  <2>2. CASE a = b
    BY <2>1, <2>2 DEF Failed, SameClaim, JobKept, Final
  <2> QED  BY <2>1, <2>2, UntouchedKept DEF Failed
<1>7. CASE \E b \in Asset : Approve(b)
  <2> PICK b \in Asset : Approve(b)  BY <1>7
  <2>1. Approved(b)
    BY ApproveEffect
  <2>2. CASE a = b
    BY <2>1, <2>2 DEF Approved, SameClaim, JobKept, Final
  <2> QED  BY <2>1, <2>2, UntouchedKept DEF Approved
<1>8. CASE \E b \in Asset : Cancel(b)
  <2> PICK b \in Asset : Cancel(b)  BY <1>8
  <2>1. Cancelled(b)
    BY CancelEffect
  <2>2. CASE a = b
    BY <2>1, <2>2 DEF Cancelled, JobKept, Final
  <2> QED  BY <2>1, <2>2, UntouchedKept DEF Cancelled
<1> QED
  BY <1>1, <1>2, <1>3, <1>4, <1>5, <1>6, <1>7, <1>8 DEF Import

\* No step does.
LEMMA NextKept ==
  ASSUME TypeOK, RowsConsistent, RevocationInProgress, Next, NEW a \in Asset
  PROVE  JobKept(a) \/ \E u \in Upload : Enroll(u, a)
<1>1. ASSUME UNCHANGED <<asset, job>> PROVE JobKept(a)
  BY <1>1 DEF JobKept, Final
<1>2. CASE Time
  <2>1. SameJob(a) \/ job' = job
    BY <1>2, TimerEffect DEF Time, UploadExpires
  <2> QED  BY <1>2, <2>1, TimeFrame DEF SameJob, JobKept, Final
<1>3. CASE CommitRevoke
  <2>1. CASE a \in revoking.assets
    <3>1. Revoked(a)
      BY <1>3, <2>1, CommitEffect
    <3>2. job[a].status \in JobStatus
      BY DEF TypeOK, JobRow
    <3> QED  BY <3>1, <3>2 DEF Revoked, JobKept, Final, JobStatus, Unfinished
  <2>2. CASE a \notin revoking.assets
    BY <1>3, <2>2, CommitEffect, UntouchedKept
  <2> QED  BY <2>1, <2>2
<1>4. CASE Revoke /\ ~CommitRevoke
  BY <1>1, <1>4
     DEF Revoke, RevokeAsset, RevokeConsent, BeginRevoke, LockServing,
         RollbackRevoke, PurgeAsset, PurgeAssetInterrupted, PurgeConsent
<1> QED
  BY <1>1, <1>2, <1>3, <1>4, CaptureFrame, ServeFrame, ImportKept DEF Next

\* An upload that is closed stays closed, and its consent is never changed.
LEMMA ClosedUploadKept ==
  ASSUME TypeOK, Next, NEW u \in Upload
  PROVE  /\ upload[u].status \in {"consumed", "revoked"}
              => upload'[u].status \in {"consumed", "revoked"}
         /\ upload[u].status # "absent" => upload'[u].consent = upload[u].consent
<1>1. CASE Capture
  BY SMTT(30), <1>1 DEF Capture, CreateConsent, CreateUpload, PutUpload, PutUploadKilled,
              ExpireUploads, Writable, Expired, TypeOK, UploadRow
<1>2. CASE \E v \in Upload, a \in Asset : Enroll(v, a)
  BY <1>2 DEF Enroll, TypeOK, UploadRow
<1>3. CASE Import /\ ~\E v \in Upload, a \in Asset : Enroll(v, a)
  BY <1>3 DEF Import, Claim, Stage, WriteImportObject, WriteImportObjectKilled,
              Finish, Fail, Approve, Cancel
<1>4. CASE Time
  BY <1>4 DEF Time, LeaseTick, BackoffElapses, UploadExpires, TypeOK, UploadRow
<1>5. CASE \E e \in outbox : PurgeConsent(e)
  BY <1>5 DEF PurgeConsent, TypeOK, UploadRow
<1>6. CASE Revoke /\ ~\E e \in outbox : PurgeConsent(e)
  BY <1>6
     DEF Revoke, RevokeAsset, RevokeConsent, BeginRevoke, LockServing,
         CommitRevoke, RollbackRevoke, PurgeAsset, PurgeAssetInterrupted
<1> QED  BY <1>1, <1>2, <1>3, <1>4, <1>5, <1>6, ServeFrame DEF Next

\* An enrolled upload stays closed.
LEMMA EnrolledUploadsStep ==
  ASSUME TypeOK, RowsConsistent, RevocationInProgress, EnrolledUploadsAreClosed,
         Next
  PROVE  EnrolledUploadsAreClosed'
<1> SUFFICES ASSUME NEW a \in Asset
             PROVE  /\ job'[a].status = "absent" => job'[a].upload = NoUpload
                    /\ job'[a].upload # NoUpload =>
                         upload'[job'[a].upload].status \in {"consumed", "revoked"}
  BY DEF EnrolledUploadsAreClosed
<1>1. CASE \E u \in Upload : Enroll(u, a)
  <2> PICK u \in Upload : Enroll(u, a)  BY <1>1
  <2>1. job'[a].status = "queued" /\ job'[a].upload = u
    BY EnrollEffect DEF Enrolled
  <2>2. upload'[u].status = "consumed"
    BY DEF Enroll, TypeOK, UploadRow
  <2> QED  BY <2>1, <2>2
<1>2. CASE JobKept(a)
  <2>1. job[a].upload \in Upload \cup {NoUpload}
    BY DEF TypeOK, JobRow
  <2> QED
    BY <1>2, <2>1, ClosedUploadKept DEF JobKept, EnrolledUploadsAreClosed
<1> QED  BY <1>1, <1>2, NextKept

\* An upload is enrolled once.
LEMMA ImportedOnceStep ==
  ASSUME TypeOK, RowsConsistent, RevocationInProgress, EnrolledUploadsAreClosed,
         UploadImportedOnce, Next
  PROVE  UploadImportedOnce'
<1> SUFFICES ASSUME NEW a \in Asset, NEW b \in Asset, a # b,
                    job'[a].upload = job'[b].upload, job'[a].upload # NoUpload
             PROVE  FALSE
  BY DEF UploadImportedOnce
<1>1. ASSUME NEW c \in Asset, NEW d \in Asset, c # d, NEW u \in Upload,
             Enroll(u, c), job'[c].upload = job'[d].upload
      PROVE  FALSE
  <2>1. /\ job'[c].upload = u /\ upload[u].status = "sealed" /\ job'[d] = job[d]
    BY <1>1, EnrollEffect DEF Enrolled, Untouched
  <2>2. u # NoUpload
    BY LifecycleAssumption
  <2> QED  BY <1>1, <2>1, <2>2 DEF EnrolledUploadsAreClosed
<1>2. JobKept(a) /\ JobKept(b)
  BY <1>1, NextKept
<1> QED  BY <1>2 DEF JobKept, UploadImportedOnce

\* A revoked asset and its job stay closed.
LEMMA FinalStep ==
  ASSUME TypeOK, RowsConsistent, RevocationInProgress, NEW a \in Asset, Final(a),
         Next
  PROVE  JobKept(a) /\ Final(a)'
<1>1. asset[a].status # "absent"
  BY DEF Final
<1>2. \A u \in Upload : ~Enroll(u, a)
  BY <1>1 DEF Enroll
<1> QED  BY <1>2, NextKept DEF JobKept

\* A revoked consent stays revoked.
LEMMA RevokedConsentKept ==
  ASSUME TypeOK, Next, NEW c \in Consent, consent[c].status = "revoked"
  PROVE  consent'[c].status = "revoked"
<1>1. CASE Capture
  BY <1>1 DEF Capture, CreateConsent, CreateUpload, PutUpload, PutUploadKilled,
              ExpireUploads, TypeOK
<1>2. CASE CommitRevoke
  BY <1>2 DEF CommitRevoke
<1>3. CASE Revoke /\ ~CommitRevoke
  BY <1>3
     DEF Revoke, RevokeAsset, RevokeConsent, BeginRevoke, LockServing,
         RollbackRevoke, PurgeAsset, PurgeAssetInterrupted, PurgeConsent
<1> QED  BY <1>1, <1>2, <1>3, ImportFrame, TimeFrame, ServeFrame DEF Next

\* Where the events after a step come from.
LEMMA EventsAfter ==
  ASSUME Next, NEW e \in outbox' \cup receipts'
  PROVE  \/ e \in outbox \cup receipts
         \/ CommitRevoke /\ e \in RevocationEvents
<1>1. CASE Revoke
  BY ZenonT(30), <1>1
     DEF Revoke, RevokeAsset, RevokeConsent, BeginRevoke, LockServing,
         CommitRevoke, RollbackRevoke, PurgeAsset, PurgeAssetInterrupted,
         PurgeConsent
<1> QED  BY <1>1, CaptureFrame, ImportFrame, TimeFrame, ServeFrame DEF Next

\* Revocation is final across every step.
LEMMA RevocationFinalStep ==
  ASSUME TypeOK, RowsConsistent, RevocationInProgress, RevocationIsFinal, Next
  PROVE  RevocationIsFinal'
<1> SUFFICES ASSUME NEW e \in outbox' \cup receipts'
             PROVE  /\ e.kind = "revoke_asset" => Final(e.id)'
                    /\ e.kind = "revoke_consent" => consent'[e.id].status = "revoked"
  BY DEF RevocationIsFinal, Final
<1>1. CASE e \in outbox \cup receipts
  <2>1. e \in Event
    BY <1>1 DEF TypeOK
  <2>2. /\ e.kind = "revoke_asset" => Final(e.id)
        /\ e.kind = "revoke_consent" => consent[e.id].status = "revoked"
    BY <1>1 DEF RevocationIsFinal, Final
  <2> QED  BY <2>1, <2>2, EventIds, FinalStep, RevokedConsentKept
<1>2. CASE CommitRevoke /\ e \in RevocationEvents
  <2>1. revoking.assets \subseteq Asset /\ revoking.consents \subseteq Consent
    BY DEF TypeOK, Revocation
  <2>2. \/ e.kind = "revoke_consent" /\ e.id \in revoking.consents
        \/ e.kind = "revoke_asset" /\ e.id \in revoking.assets
    BY <1>2 DEF RevocationEvents
  <2>3. ASSUME NEW a \in revoking.assets PROVE Final(a)'
    <3>1. Revoked(a) /\ a \in Asset
      BY <1>2, <2>1, CommitEffect
    <3>2. job[a].status \in JobStatus \ {"absent"}
      BY <2>1, RowByRow DEF TypeOK, JobRow, RevocationInProgress, StatusesAgree
    <3> QED  BY <3>1, <3>2 DEF Revoked, Final, JobStatus, Unfinished
  <2>4. \A c \in revoking.consents : consent'[c].status = "revoked"
    BY <1>2, <2>1 DEF CommitRevoke
  <2> QED  BY <2>2, <2>3, <2>4
<1> QED  BY <1>1, <1>2, EventsAfter

\* A purge empties the directory and removes the uploads of what it receipts.
LEMMA ReceiptsAfter ==
  ASSUME Next, NEW e \in receipts', e \notin receipts
  PROVE  PurgeAsset(e) \/ PurgeConsent(e)
<1>1. CASE Revoke
  BY <1>1
     DEF Revoke, RevokeAsset, RevokeConsent, BeginRevoke, LockServing,
         CommitRevoke, RollbackRevoke, PurgeAsset, PurgeAssetInterrupted,
         PurgeConsent
<1> QED  BY <1>1, CaptureFrame, ImportFrame, TimeFrame, ServeFrame DEF Next

\* A file appears only for an upload that may be written.
LEMMA FilesAfter ==
  ASSUME Next, NEW u \in file', u \notin file
  PROVE  Writable(u) /\ u \in Upload
<1>1. CASE Capture
  BY <1>1 DEF Capture, CreateConsent, CreateUpload, PutUpload, PutUploadKilled,
              ExpireUploads
<1>2. CASE Revoke
  BY <1>2
     DEF Revoke, RevokeAsset, RevokeConsent, BeginRevoke, LockServing,
         CommitRevoke, RollbackRevoke, PurgeAsset, PurgeAssetInterrupted,
         PurgeConsent
<1> QED  BY <1>1, <1>2, ImportFrame, TimeFrame, ServeFrame DEF Next

\* An object appears only in the directory of an asset that is being imported.
LEMMA ObjectsAfter ==
  ASSUME TypeOK, Next, NEW a \in Asset, objects[a] = {}
  PROVE  objects'[a] = {} \/ job[a].status = "running"
<1>1. CASE \E b \in Asset, f \in Fence, o \in Object : WriteImportObject(b, f, o)
  BY <1>1 DEF WriteImportObject, Publishable, Owns, TypeOK
<1>2. CASE \E b \in Asset, f \in Fence, o \in Object :
             WriteImportObjectKilled(b, f, o)
  BY <1>2 DEF WriteImportObjectKilled, Publishable, Owns, TypeOK
<1>3. CASE Import /\ objects' = objects
  BY <1>3
<1>4. CASE Import
  BY <1>1, <1>2, <1>3, <1>4
     DEF Import, Enroll, Claim, Stage, Finish, Fail, Approve, Cancel
<1>5. CASE \E e \in outbox : PurgeAsset(e)
  BY <1>5 DEF PurgeAsset, TypeOK
<1>6. CASE \E e \in outbox : PurgeAssetInterrupted(e)
  BY <1>6 DEF PurgeAssetInterrupted, TypeOK
<1>7. CASE Revoke /\ objects' = objects
  BY <1>7
<1>8. CASE Revoke
  BY <1>5, <1>6, <1>7, <1>8
     DEF Revoke, RevokeAsset, RevokeConsent, BeginRevoke, LockServing,
         CommitRevoke, RollbackRevoke, PurgeConsent
<1> QED  BY <1>4, <1>8, CaptureFrame, TimeFrame, ServeFrame DEF Next

\* The consent of an upload is set once, and is active at that time.
LEMMA UploadConsentAfter ==
  ASSUME TypeOK, Next, NEW u \in Upload
  PROVE  \/ upload'[u].consent = upload[u].consent
         \/ ConsentActive(upload'[u].consent)
<1>1. CASE \E v \in Upload, c \in Consent : CreateUpload(v, c)
  BY <1>1 DEF CreateUpload, TypeOK
<1>2. CASE upload[u].status # "absent"
  BY <1>2, ClosedUploadKept
<1>3. CASE upload[u].status = "absent" /\ ~\E v \in Upload, c \in Consent : CreateUpload(v, c)
  <2>1. CASE Capture
    BY <1>3, <2>1
       DEF Capture, CreateConsent, PutUpload, PutUploadKilled, ExpireUploads,
           Writable, Expired, TypeOK
  <2>2. CASE \E v \in Upload, a \in Asset : Enroll(v, a)
    BY <1>3, <2>2 DEF Enroll, TypeOK
  <2>3. CASE Import /\ ~\E v \in Upload, a \in Asset : Enroll(v, a)
    BY <2>3 DEF Import, Claim, Stage, WriteImportObject, WriteImportObjectKilled,
                Finish, Fail, Approve, Cancel
  <2>4. CASE Time
    <3>1. CASE \E v \in Upload : UploadExpires(v)
      BY <3>1 DEF UploadExpires, TypeOK, UploadRow
    <3> QED  BY <2>4, <3>1 DEF Time, LeaseTick, BackoffElapses
  <2>5. CASE \E e \in outbox : PurgeConsent(e)
    BY <2>5 DEF PurgeConsent, TypeOK, UploadRow
  <2>6. CASE Revoke /\ ~\E e \in outbox : PurgeConsent(e)
    BY <2>6
       DEF Revoke, RevokeAsset, RevokeConsent, BeginRevoke, LockServing,
           CommitRevoke, RollbackRevoke, PurgeAsset, PurgeAssetInterrupted
  <2> QED  BY <2>1, <2>2, <2>3, <2>4, <2>5, <2>6, ServeFrame DEF Next
<1> QED  BY <1>1, <1>2, <1>3

\* What was purged is not written again.
LEMMA ErasedStep ==
  ASSUME TypeOK, RowsConsistent, RevocationInProgress, EnrolledUploadsAreClosed,
         RevocationIsFinal, ErasedAfterReceipt, Next
  PROVE  ErasedAfterReceipt'
<1>1. ASSUME NEW e \in receipts', e \in receipts, e.kind = "revoke_asset"
      PROVE  objects'[e.id] = {} /\ job'[e.id].upload \notin file'
  <2>1. e.id \in Asset
    BY <1>1, EventIds DEF TypeOK
  <2>2. Final(e.id) /\ objects[e.id] = {} /\ job[e.id].upload \notin file
    BY <1>1 DEF RevocationIsFinal, Final, ErasedAfterReceipt
  <2>3. job'[e.id].upload = job[e.id].upload
    BY <2>1, <2>2, FinalStep DEF JobKept
  <2>4. objects'[e.id] = {}
    BY <2>1, <2>2, ObjectsAfter DEF Final
  <2>5. job[e.id].upload \notin file'
    BY <2>1, <2>2, FilesAfter, LifecycleAssumption
       DEF EnrolledUploadsAreClosed, Writable
  <2> QED  BY <2>3, <2>4, <2>5
<1>2. ASSUME NEW e \in receipts', e \in receipts, e.kind = "revoke_consent",
             NEW u \in Upload, upload'[u].consent = e.id
      PROVE  u \notin file'
  <2>1. e.id \in Consent /\ consent[e.id].status = "revoked"
    BY <1>2, EventIds DEF TypeOK, RevocationIsFinal
  <2>2. upload[u].consent = e.id
    BY <1>2, <2>1, UploadConsentAfter DEF ConsentActive
  <2>3. u \notin file
    BY <1>2, <2>2 DEF ErasedAfterReceipt, UploadsOf
  <2> QED  BY <2>1, <2>2, <2>3, FilesAfter DEF Writable, ConsentActive
<1>3. ASSUME NEW e \in receipts', e \notin receipts, e.kind = "revoke_asset"
      PROVE  objects'[e.id] = {} /\ job'[e.id].upload \notin file'
  <2>1. PurgeAsset(e)
    BY <1>3, ReceiptsAfter DEF PurgeConsent
  <2>2. e.id \in Asset
    BY <1>3, <2>1, TypeAfter, EventIds DEF TypeOK
  <2> QED  BY <2>1, <2>2 DEF PurgeAsset, TypeOK
<1>4. ASSUME NEW e \in receipts', e \notin receipts, e.kind = "revoke_consent",
             NEW u \in Upload, upload'[u].consent = e.id
      PROVE  u \notin file'
  <2>1. PurgeConsent(e)
    BY <1>4, ReceiptsAfter DEF PurgeAsset
  <2>2. upload'[u].consent = upload[u].consent
    BY <2>1 DEF PurgeConsent, TypeOK, UploadRow
  <2> QED  BY <1>4, <2>1, <2>2 DEF PurgeConsent, UploadsOf
<1> QED
  BY <1>1, <1>2, <1>3, <1>4, TypeAfter DEF ErasedAfterReceipt, UploadsOf, TypeOK

-----------------------------------------------------------------------------
(* The theorems                                                            *)

\* The empty tables are consistent.
LEMMA InitConsistent == Init => Consistent
<1> SUFFICES ASSUME Init PROVE Consistent
  OBVIOUS
<1>1. TypeOK
  BY InitType
<1>2. RowsConsistent
  <2>1. \A a \in Asset : StatusesAgree(a) /\ AttemptsAgree(a)
    BY DEF Init, StatusesAgree, AttemptsAgree, Unfinished
  <2> QED
    BY <2>1 DEF RowsConsistent, ServedIffApproved, RunnableJobIsAuthorized,
                JobsFollowAssets, FencedAttempts, FenceCountsAttempts,
                StatusesAgree, AttemptsAgree
<1>3. LiveSessionIsAuthorized /\ OneLiveSession /\ UnreservedSessions
  BY DEF Init, LiveSessionIsAuthorized, OneLiveSession, UnreservedSessions,
         LiveSession
<1>4. ErasedAfterReceipt /\ RevocationIsFinal
  BY DEF Init, ErasedAfterReceipt, RevocationIsFinal
<1>5. UploadImportedOnce /\ EnrolledUploadsAreClosed
  BY DEF Init, UploadImportedOnce, EnrolledUploadsAreClosed
<1>6. RevocationInProgress
  BY DEF Init, RevocationInProgress, NotRevoking
<1> QED
  BY <1>1, <1>2, <1>3, <1>4, <1>5, <1>6 DEF Consistent, RowsConsistent

\* Consistent is inductive.
LEMMA ConsistentStep ==
  ASSUME Consistent, [Next]_vars
  PROVE  Consistent'
<1>1. CASE UNCHANGED vars
  BY <1>1
     DEF vars, Consistent, TypeOK, ServedIffApproved, LiveSessionIsAuthorized,
         OneLiveSession, RunnableJobIsAuthorized, FencedAttempts,
         ErasedAfterReceipt, UploadImportedOnce, RevocationIsFinal,
         JobsFollowAssets, FenceCountsAttempts, EnrolledUploadsAreClosed,
         RevocationInProgress, UnreservedSessions, ConsentActive, UploadsOf
<1>2. CASE Next
  <2>1. /\ TypeOK /\ RowsConsistent /\ RevocationInProgress
        /\ UnreservedSessions /\ OneLiveSession /\ LiveSessionIsAuthorized
        /\ EnrolledUploadsAreClosed /\ UploadImportedOnce
        /\ RevocationIsFinal /\ ErasedAfterReceipt
    BY DEF Consistent, RowsConsistent
  <2>2. TypeOK' /\ RowsConsistent' /\ RevocationInProgress'
    BY <1>2, <2>1, TypeAfter, RowsStep, InProgressStep
  <2>3. UnreservedSessions' /\ OneLiveSession' /\ LiveSessionIsAuthorized'
    BY <1>2, <2>1, UnreservedStep, OneLiveStep, LiveSessionStep
  <2>4. EnrolledUploadsAreClosed' /\ UploadImportedOnce'
    BY <1>2, <2>1, EnrolledUploadsStep, ImportedOnceStep
  <2>5. RevocationIsFinal' /\ ErasedAfterReceipt'
    BY <1>2, <2>1, RevocationFinalStep, ErasedStep
  <2> QED  BY <2>2, <2>3, <2>4, <2>5 DEF Consistent, RowsConsistent
<1> QED  BY <1>1, <1>2

\* The whole inductive invariant holds of every behaviour of the service.
THEOREM AlwaysConsistent == Spec => []Consistent
BY InitConsistent, ConsistentStep, PTL DEF Spec

\* Sessions are admitted on rows that agree with the tombstones.
THEOREM ServedRowsAgree == Spec => []ServedIffApproved
<1>1. Consistent => ServedIffApproved
  BY DEF Consistent
<1> QED  BY <1>1, AlwaysConsistent, PTL

\* One session at a time is live, and none with an asset whose revocation has
\* committed, although sessions are written without the lifecycle lock.
THEOREM LiveSessionsAuthorized == Spec => []LiveSessionsAreSound
<1>1. Consistent => LiveSessionsAreSound
  BY DEF Consistent, LiveSessionsAreSound
<1> QED  BY <1>1, AlwaysConsistent, PTL

\* A deletion receipt is never contradicted by a late writer.
THEOREM ReceiptsAreTrue == Spec => []ErasedAfterReceipt
<1>1. Consistent => ErasedAfterReceipt
  BY DEF Consistent
<1> QED  BY <1>1, AlwaysConsistent, PTL

\* A claim is fenced: one running attempt, that of the fence of a running job;
\* and one enrollment at most takes an upload.
THEOREM AttemptsAreFenced == Spec => []ImportsAreExclusive
<1>1. Consistent => ImportsAreExclusive
  BY DEF Consistent, ImportsAreExclusive
<1> QED  BY <1>1, AlwaysConsistent, PTL

\* Revocation is never undone.
THEOREM RevocationsAreFinal == Spec => []RevocationIsFinal
<1>1. Consistent => RevocationIsFinal
  BY DEF Consistent
<1> QED  BY <1>1, AlwaysConsistent, PTL

\* A job that may still run is authorized: the second check of every commit of
\* an import only repeats what the first one, of the fence, has established.
THEOREM RunnableJobsAreAuthorized == Spec => []RunnableJobIsAuthorized
<1>1. Consistent => RunnableJobIsAuthorized
  BY DEF Consistent
<1> QED  BY <1>1, AlwaysConsistent, PTL

\* No step rewrites the end of an attempt: a late owner does not reach the row,
\* because a new fence has none yet.
LEMMA AttemptEndStep ==
  ASSUME Consistent, Next, NEW a \in Asset, NEW f \in Fence,
         attempt[a][f] \notin {"none", "running"}
  PROVE  attempt'[a][f] = attempt[a][f]
<1>1. TypeOK /\ RowsConsistent
  BY DEF Consistent, RowsConsistent
<1>2. AttemptsAgree(a) /\ StatusesAgree(a)
  BY <1>1, RowByRow
<1>3. ASSUME NEW b \in Asset, b # a, \A c \in Asset \ {b} : Untouched(c)
      PROVE  attempt'[a][f] = attempt[a][f]
  BY <1>3 DEF Untouched
<1>4. CASE \E u \in Upload, b \in Asset : Enroll(u, b)
  BY <1>4 DEF Enroll
<1>5. CASE \E b \in Asset : Claim(b)
  <2> PICK b \in Asset : Claim(b)  BY <1>5
  <2>1. Taken(b) \/ GivenUp(b)
    BY <1>1, ClaimEffect
  <2>2. CASE a = b
    <3>1. job[a].status \in Unfinished /\ job[a].fence \in Nat /\ f \in Nat
      BY <1>1, <2>1, <2>2, RowTypes DEF Taken, GivenUp, Unfinished
    <3>2. f # job[a].fence + 1
      BY <1>2, <3>1 DEF AttemptsAgree
    <3> QED  BY <2>1, <2>2, <3>2 DEF Taken, GivenUp, Ended
  <2> QED  BY <1>3, <2>1, <2>2 DEF Taken, GivenUp
<1>6. CASE \E b \in Asset, g \in Fence : Finish(b, g)
  <2> PICK b \in Asset, g \in Fence : Finish(b, g)  BY <1>6
  <2>1. Finished(b, g)
    BY <1>1, FinishEffect
  <2> QED  BY <1>2, <1>3, <2>1 DEF Finished, AttemptsAgree
<1>7. CASE \E b \in Asset, g \in Fence, retry \in BOOLEAN : Fail(b, g, retry)
  <2> PICK b \in Asset, g \in Fence, retry \in BOOLEAN : Fail(b, g, retry)
    BY <1>7
  <2>1. Failed(b, g)
    BY <1>1, FailEffect
  <2> QED  BY <1>2, <1>3, <2>1 DEF Failed, AttemptsAgree
<1>8. CASE \E b \in Asset : Cancel(b)
  <2> PICK b \in Asset : Cancel(b)  BY <1>8
  <2>1. Cancelled(b)
    BY <1>1, CancelEffect
  <2> QED  BY <1>3, <2>1 DEF Cancelled, Ended
<1>9. CASE CommitRevoke
  <2>1. Revoked(a) \/ Untouched(a)
    BY <1>1, <1>9, CommitEffect
  <2> QED  BY <2>1 DEF Revoked, Untouched, Ended
<1>10. CASE Import /\ attempt' = attempt
  BY <1>10
<1>11. CASE Revoke /\ ~CommitRevoke
  BY <1>11
     DEF Revoke, RevokeAsset, RevokeConsent, BeginRevoke, LockServing,
         RollbackRevoke, PurgeAsset, PurgeAssetInterrupted, PurgeConsent
<1>12. CASE Import
  BY <1>4, <1>5, <1>6, <1>7, <1>8, <1>10, <1>12
     DEF Import, Stage, WriteImportObject, WriteImportObjectKilled, Approve
<1> QED
  BY <1>9, <1>11, <1>12, CaptureFrame, TimeFrame, ServeFrame DEF Next

\* The recorded end of an attempt is never rewritten.
THEOREM AttemptEndsAreFinal == Spec => AttemptEndIsFinal
<1>1. Consistent /\ [Next]_vars
        => [\A a \in Asset : \A f \in Fence :
              attempt[a][f] \notin {"none", "running"}
                => attempt'[a][f] = attempt[a][f]]_vars
  BY AttemptEndStep
<1> QED  BY <1>1, AlwaysConsistent, PTL DEF Spec, AttemptEndIsFinal

================================================================================
