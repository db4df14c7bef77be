CONSTANTS
  States = {s1, s2, s3}
  Default = Default
  Absent = Absent
  Torn = Torn
  Provisioned = TRUE
  RenameOverwrites = FALSE
  IOErrors = TRUE
  ReadErrors = TRUE
  StatErrors = TRUE
  MaxUnfinished = 4
SPECIFICATION Spec
INVARIANTS
  TypeOK ResetsOnlyIfBlind NeverFailsClosed
