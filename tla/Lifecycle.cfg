SPECIFICATION Spec
CONSTANTS
  Consent = {c1}
  Upload = {u1}
  NumAssets = 2
  Session = {s1, s2}
  Object = {mesh, avatar}
  MaxAttempts = 3
  LeaseTicks = 2
  MaxOpenUploads = 2
  MaxLiveAssets = 2
  ExpireBatch = 1
  Killable = TRUE
  NoConsent = NoConsent
  NoUpload = NoUpload
SYMMETRY Symmetry
CHECK_DEADLOCK FALSE
INVARIANTS
  ImportsAreExclusive
  ErasedAfterReceipt
  LiveSessionsAreSound
  RevocationIsFinal
