SPECIFICATION MachinesSpec
CHECK_DEADLOCK FALSE
CONSTANTS
  QueueRoom = 2
  Preroll = 3
  StartRun = 2
  MinVoiced = 3
  TailFrames = 1
  Patience = 2
  MaxFrames = 5
  BargeIn = 3
  MaxSent = 9
  MaxTracks = 2
  MaxFuture = 3
  MaxItems = 2
  BoxFuture = 3
  BoxItems = 2
  FrameTime = 2
  Horizon = 4
  Spans = {1, 2}
  MaxGenerations = 2
  NativeRate = 3
  PlaybackRate = 6
  MotionRate = 2
  FilterRadius = 2
  PacketAudio = 6
  PacketMotion = 2
  MaxChunk = 7
  MaxTurn = 14
  SourceRate = 9
  ContextRate = 6
  ContextRadius = 2
  Fps = 4
  Window = 6
  Offset = 3
  PushSize = 2
  SourceChunk = 4
  MaxSource = 24
  jaw = jaw
  skin = skin
  Faces = 3
  Tiles = 2
  Part <- MCPart
  PartFaces <- MCPartFaces
  Geometry <- MCGeometry
  ReferenceCapacity = 4
  TileCapacity = 2
  MaxPts = 4
  Operator = {o1, o2}
  Pid = {p1, p2}
  MaxApis = 2
  MaxSessions = 2
  MaxCrashes = 1
  None = None
  Provisioner = {r1, r2}
  shared = shared
  own = own
  qwen = qwen
  claire = claire
  File = {shared, own}
  Snapshot = {qwen, claire}
  Inventory <- MCInventory
  NamedParts = {qwen}
  MaxMishaps = 2
  Nobody = Nobody
INVARIANTS HearingIsExact PictureFollowsSound PacketsArePaired WindowsAreExact OwnershipIsKept CacheIsWhole
PROPERTIES GapEndsSession PictureIsReference
