CONSTANTS
  Capacity = 4
  MaxEvents = 4
SPECIFICATION BusSpec
INVARIANTS NoSilentLoss
