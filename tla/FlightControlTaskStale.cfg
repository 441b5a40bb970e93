CONSTANTS
  TestClockSize = 10
  MaxTest = 2
  Surfaces = {0, 4}
  Pulses = {1500, 2000}
  Neutral = 1500
SPECIFICATION ServoTestSpec
PROPERTIES TestIsShort
