SPECIFICATION FairSpec
CONSTANTS
  MaxEpoch = 2
  MaxControls = 2
  MaxFaults = 1
CHECK_DEADLOCK FALSE
INVARIANTS
  AudibleIsAuthorized
PROPERTIES
  PromiseSpec
  PageSettles
