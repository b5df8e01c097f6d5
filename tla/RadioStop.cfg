SPECIFICATION Spec
CONSTANTS
  User = {u1}
  Box = {b1}
  Station = {1}
  Proc = {p1, p2}
  Driver = {u1}
  MaxMs = 0
  MaxCalls = 2
  MaxFaults = 1
  None = None
INVARIANT StopsHonoured
CHECK_DEADLOCK FALSE
