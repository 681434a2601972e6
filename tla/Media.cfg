SPECIFICATION MediaSpec
CONSTANTS
  Resp = Resp
  Ctl = Ctl
  MaxStarts = 2
  MaxInterrupts = 2
  MaxPackets = 3
  PipeRoom = 1
  MaxFaults = 2
  RawResp = RawResp
  RawCtl = RawCtl
  RawStarts = 2
  RawEpochs = 2
  RawFrames = 2
  SourceRoom = 1
  RawFaults = 1
  NativeRoom = 2
  PythonRoom = 2
  WireFrames = 5
  TurnEvents = 4
  TurnQueue = 2
  DeviceRoom = 2
  DeviceFaults = 1
  Words = 4
  MaxWords = 3
  FewWords = 2
  SegmentRoom = 2
  CaseLists <- MCCaseLists
  QualifierFaults = 1
  DownAt = 1
  UpAt = 2
  LastPosition = 2
  Floor = 2
  Low = 3
  Initial = 4
  Requests = {5}
  ProbeFrames = 2
  ProbeRows = 3
  StageRoom = 3
  Rows = 2
  Forks = 1
  Stops = 2
CHECK_DEADLOCK FALSE
INVARIANTS
  OneWholeAnswer
  RawFenceHolds
  InstrumentsAreExact
  TurnsAreSeparate
  TextIsSpoken
  RunIsOwned
PROPERTIES
  NothingAfterFence
  InterruptEnds
