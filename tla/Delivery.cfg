CONSTANTS
  BatchSize = 2
  MaxPending = 3
  MaxBatches = 3
  StaleFallback = FALSE
  MaxReadings = 5
  MaxFaults = 2
  MaxLosses = 2
SPECIFICATION DeliveryFairSpec
CHECK_DEADLOCK FALSE
INVARIANTS
  DeliveryTypeOK SequenceIdentifiesReading KeyIdentifiesBody
  NoSilentLoss StoredOnce
PROPERTIES
  BacklogDrains
