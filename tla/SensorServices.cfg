CONSTANTS
  CalImu = CalImu
  CalMag = CalMag
  ServoTest = ServoTest
  Empty = Empty
  Actions = {CalImu, CalMag, ServoTest}
  MaxRequests = 2
  MicrosSize = 6
  DmaTimeout = 1
  StaleTimeout = 2
  FallbackLimit = 2
  RetryMax = 1
  CalSamples = 2
  ScanTime = 1
  MaxScans = 1
  AuxMicrosSize = 6
  ConversionTime = 1
  AuxFailLimit = 2
  MaxAuxGap = 1
  MaxAuxChecks = 1
  Ceiling = 3
  Gate = 1
  MaxRejects = 3
SPECIFICATION ServicesSpec
INVARIANTS TypeOK RequestsInOrder OneOutcomePerStart SensorsHold
PROPERTIES RequestsAnswered SensorsProgress AuxProgress
