SPECIFICATION FairSpec
CONSTANTS
  Intr = Intr
  Spk = Spk
  Gen = Gen
  MaxAnswers = 2
  MaxRequests = 2
  MaxChunks = 2
  MaxFaults = 1
  QueueItems = 1
  PipeItems = 1
CHECK_DEADLOCK FALSE
INVARIANTS
  RequestsAreSeparate
PROPERTIES
  EverythingEnds
