SPECIFICATION FairSpec
CONSTANTS
  Totals <- MCTotals
  Prebuffer = 9
  Lookahead = 5
  Lead = 18
  AudioRoom = 18
  MotionRoom = 3
  Slots = 4
  MinTicks = 2
  PrerollFrames = 1
  MaxIdle = 4
CHECK_DEADLOCK FALSE
INVARIANTS
  TurnIsExact
PROPERTIES
  TurnEnds
