CONSTANTS
  FifoDepth = 4
  MaxHeld = 5
  MaxFrames = 2
SPECIFICATION OutputSpec
PROPERTY LatestIsPlayed
