CONSTANTS
  Values = {a, b}
  NoBlob = NoBlob
  Attempts = 3
  MaxGeneration = 5
  GroupOf <- OneOfEachKind
  MaxValue = 1
  Default = 0
  None = None
  SaveAttempts = 3
  ClockSize = 4
  NamedPins = {1, 4, 16, 19, 20, 22}
  NamedSdas = {0, 4, 8, 16, 20}
  SetupChanges = 1
SPECIFICATION StorageSpec
INVARIANTS TypeOK SettingsHold
PROPERTIES StorageProgress ImplementsRegister ArmedWritesAreRetries
