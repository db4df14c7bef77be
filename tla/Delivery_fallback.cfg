CONSTANTS
  BatchSize = 2
  MaxPending = 3
  MaxBatches = 3
  StaleFallback = TRUE
  MaxReadings = 3
  MaxFaults = 1
  MaxLosses = 1
SPECIFICATION DeliverySpec
CHECK_DEADLOCK FALSE
INVARIANTS
  SequenceIdentifiesReading
