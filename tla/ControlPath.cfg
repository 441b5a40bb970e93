CONSTANTS
  ClockSize = 8
  MinTimeout = 1
  MaxTimeout = 2
  Timeouts = {0, 2, 5}
  OverrideTimeout = 2
  Period = 2
  TestClockSize = 9
  MaxTest = 2
  Surfaces = {0, 4}
  Pulses = {1500, 2000}
  Neutral = 1500
SPECIFICATION PathSpec
INVARIANTS TypeOK ServoTestTypeOK LossIsSeen OverrideExpires ArmedFliesOnReceiver
PROPERTIES LossIsReal SignalIsHeld OverrideHolds TestIsWhole TestEndsOnTime
