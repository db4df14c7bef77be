CONSTANTS
  r1 = r1
  r2 = r2
  r3 = r3
  r4 = r4
  k1 = k1
  k2 = k2
  a = a
  b = b
  c = c
  x = x
  None = None
  Requests = {r1, r2, r3}
  Key <- Keys
  Body <- Bodies
  MaxInFlight = 2
  MaxFaults = 0
SPECIFICATION Spec
CHECK_DEADLOCK FALSE
INVARIANTS
  HighestReported
