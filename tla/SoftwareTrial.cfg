CONSTANTS
  Plans <- PlansConst
  BatchSize = 2
  Others = {other}
  MaxFaults = 1
SPECIFICATION FairSpec
CHECK_DEADLOCK FALSE
INVARIANTS
  TypeOK DequeSuffices VerdictIsTrue NoFalseAlarm
PROPERTIES
  EvidenceIsOwn UndisturbedTrialPasses
