CONSTANTS
  Events = {1, 2}
  Workers = {w1, w2}
  None = None
  BatchSize = 2
  LockTimeout = 3
  MaxAttempts = 2
  ClockSkew = 0
  PublishTime = 2
  MaxReplays = 0
  MaxStops = 0
SPECIFICATION Spec
SYMMETRY WorkerSymmetry
INVARIANTS
  ExclusiveClaims
