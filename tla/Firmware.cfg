CONSTANTS
  Torn = Torn
  Missing = Missing
  Delivered <- Config
  Backups <- AnyBackup
  MaxFaults = 2
SPECIFICATION FairSpec
CHECK_DEADLOCK FALSE
INVARIANTS
  TypeOK GreenMeansReady
PROPERTIES
  AlwaysComesUp LongPressReachesSetup CredentialsAreTried
