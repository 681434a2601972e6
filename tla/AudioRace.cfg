SPECIFICATION Spec
CONSTANTS
  InRate = 2
  OutRate = 3
  Radius = 1
  ChunkMax = 2
  MaxSamples = 3
  MaxItems = 2
  MaxBuffer = 3
  Block = 2
  Producer = {p1, p2}
  Label = {a, b}
  None = None
  MaxEpoch = 2
  MaxNative = 2
  MaxEvents = 3
  MaxPush = 2
  MaxFaults = 0
CHECK_DEADLOCK FALSE
SYMMETRY Symmetry
INVARIANTS
  NothingIsLost
PROPERTIES
  SpeechSpec
