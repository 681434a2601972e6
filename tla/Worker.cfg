SPECIFICATION FairWorkerSpec
CONSTANTS
  Consent = {c1}
  Upload = {u1}
  NumAssets = 1
  Session = {s1}
  Object = {"mesh", "avatar", "preview"}
  MaxAttempts = 2
  LeaseTicks = 1
  MaxOpenUploads = 2
  MaxLiveAssets = 2
  ExpireBatch = 1
  Killable = TRUE
  OutboxBatch = 2
  MaxFaults = 2
  NoConsent = NoConsent
  NoUpload = NoUpload
INVARIANTS
  NoActorOutlivesRevocation
PROPERTIES
  LifecycleSpec
  WorkIsDone
