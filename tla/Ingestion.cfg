CONSTANTS
  r1 = r1
  r2 = r2
  r3 = r3
  r4 = r4
  k1 = k1
  k2 = k2
  a = a
  b = b
  c = c
  x = x
  None = None
  Requests = {r1, r2, r3, r4}
  Key <- Keys
  Body <- Bodies
  MaxInFlight = 4
  MaxFaults = 1
SPECIFICATION FairSpec
CHECK_DEADLOCK FALSE
INVARIANTS
  TypeOK AcknowledgedIsStored SomeoneProceeds
PROPERTIES
  ImplementsIngestService EveryRequestAnswered
