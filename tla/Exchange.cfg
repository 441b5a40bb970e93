CONSTANTS
  Words = {1, 2}
  Readers = {flight, telemetry}
  Preempting = {telemetry}
  MaxAttempts = 3
  MaxSequence = 5
  Capacity = 4
  MaxEvents = 6
  SettingWords = {1, 2}
  MaxSettings = 2
  FifoDepth = 2
  MaxHeld = 3
  MaxFrames = 2
  QueueSlots = 2
  TxRoom = 2
  RecordSize = 2
  PacketSizes = {3}
  TextSizes = {1}
  DrainMax = 2
  MaxRecords = 3
  MaxPackets = 1
  MaxTexts = 1
  UsbCapacity = 3
  UsbPacketSizes = {1, 2, 4}
  UsbTasks = {sensorTask, telemetryTask}
  UsbServicer = telemetryTask
  MaxUsbPackets = 3
SPECIFICATION ExchangeSpec
INVARIANTS TypeOK BuffersTypeOK NoTornSnapshot NothingIsLost NothingIsMixed
PROPERTIES ReadTerminates ImplementsAtomicTopic ImplementsQueue RecordsAreWhole EverythingArrives
