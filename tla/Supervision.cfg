CONSTANTS
  ArmHold = 2
  DogClockSize = 16
  GatePeriod = 1
  StaleAge = 2
  DogTimeout = 6
  BootTime = 2
  Worst = 15
  PhaseCount = 4
  Voltages = {0, 1, 2, 3, 4, 5}
  MinVoltages = {2, 4}
  MaxVoltages = {4}
  BrownoutVoltages = {3}
  LowHysteresis = 1
  BrownoutHysteresis = 2
  MillisSize = 7
  GcsTimeout = 3
  StreamPeriods = {1, 2}
  UpdatePeriod = 2
  EventRoom = 3
  SlotCount = 2
  FailureTexts = {"imu", "setup"}
  FaultTexts = {"fault"}
  ThrottleClock = 6
  RepeatTime = 3
  ReportPeriod = 2
SPECIFICATION SupervisionSpec
INVARIANTS TypeOK FailsafeDisarms SessionNeedsAuthority SharedFlagExact SupervisionHolds ClearanceHolds
PROPERTIES ArmingIsAuthorised OutputsSettle
