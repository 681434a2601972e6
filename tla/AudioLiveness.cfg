SPECIFICATION FairSpec
CONSTANTS
  InRate = 1
  OutRate = 2
  Radius = 1
  ChunkMax = 2
  MaxSamples = 3
  MaxItems = 2
  MaxBuffer = 3
  Block = 2
  Producer = {p1}
  Label = {a}
  None = None
  MaxEpoch = 2
  MaxNative = 2
  MaxEvents = 2
  MaxPush = 2
  MaxFaults = 1
CHECK_DEADLOCK FALSE
PROPERTIES
  TurnsEnd
