SPECIFICATION FairSpec
CONSTANTS
  Ctl = Ctl
  Mic = Mic
  Fin = Fin
  Beat = Beat
  Prep = Prep
  Out = Out
  None = None
  MaxEpoch = 2
  MaxSequence = 0
  MaxFaults = 1
  WithLease = TRUE
  Revocable = TRUE
  Failing = {"store", "worker", "media", "asr"}
CHECK_DEADLOCK FALSE
INVARIANTS
  EndIsFinal
PROPERTIES
  CloseEnds
