CONSTANTS
  Events = {1, 2}
  Workers = {w1, w2}
  None = None
  BatchSize = 2
  LockTimeout = 2
  MaxAttempts = 2
  ClockSkew = 0
  PublishTime = 1
  MaxReplays = 1
  MaxStops = 1
SPECIFICATION FairSpec
INVARIANTS
  TypeOK NoOrphanLock
PROPERTIES
  OnlyOwnerReleases ImplementsHandoff EventuallySettled
