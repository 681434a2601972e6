SPECIFICATION Spec
CONSTANTS
  Ctl = Ctl
  Mic = Mic
  Fin = Fin
  Beat = Beat
  Prep = Prep
  Out = Out
  None = None
  MaxEpoch = 3
  MaxSequence = 1
  MaxFaults = 1
  WithLease = FALSE
  Revocable = FALSE
  Failing = {"store", "media"}
CHECK_DEADLOCK FALSE
INVARIANTS
  OnlyTheCurrentSpeaks
  ControlOnce
