CONSTANTS
  Checkpoints <- CheckpointsConst
  Duration = 1
  MaxPending = 2
  Versions = {v1, v2}
  MaxReadings = 3
  MaxTime = 1
  MaxFaults = 1
SPECIFICATION Spec
SYMMETRY VersionsAlike
CHECK_DEADLOCK FALSE
INVARIANTS
  TypeOK PassedWasSupervised PassedLostNothing AuditIsExact
