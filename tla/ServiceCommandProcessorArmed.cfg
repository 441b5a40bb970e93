CONSTANTS
  CalImu = CalImu
  CalMag = CalMag
  ServoTest = ServoTest
  Empty = Empty
  Actions = {CalImu, CalMag, ServoTest}
  MaxRequests = 2
SPECIFICATION Spec
INVARIANTS SavesOnlyDisarmed
