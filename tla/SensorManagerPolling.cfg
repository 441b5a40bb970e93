CONSTANTS
  MicrosSize = 6
  DmaTimeout = 1
  StaleTimeout = 2
  FallbackLimit = 2
  RetryMax = 1
  CalSamples = 2
  ScanTime = 1
  MaxScans = 1
SPECIFICATION SensorSpec
INVARIANT PollingIsNotHeldBack
