SPECIFICATION Spec
CONSTANTS
  s1 = s1
  s2 = s2
  u1 = u1
  a1 = a1
  a2 = a2
  None = None
  Session = {s1, s2}
  User = {u1}
  Addr = {a1, a2}
  UserOf <- MCUserOf
  Cap = 1
  Single = TRUE
  MaxCalls = 3
SYMMETRY Symmetry
INVARIANTS NoRunaway OneVehicle RosterKept
CHECK_DEADLOCK FALSE
