CONSTANTS
  States = {s1, s2, s3}
  Default = Default
  Absent = Absent
  Torn = Torn
  Provisioned = TRUE
  RenameOverwrites = FALSE
  IOErrors = TRUE
  ReadErrors = FALSE
  StatErrors = FALSE
  MaxUnfinished = 1
SPECIFICATION Spec
PROPERTIES
  ImplementsAtomicStore
