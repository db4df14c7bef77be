CONSTANTS
  None = None
  MaxRevision = 2
  MaxJobs = 3
  MaxFaults = 2
SPECIFICATION Spec
CHECK_DEADLOCK FALSE
INVARIANTS
  TypeOK SchemaLeadsCode FailureRestores RollbackTargetWorked SuccessReleasesBoth
