SPECIFICATION FairSpec
CONSTANTS
  z1 = z1
  z2 = z2
  t1 = t1
  u1 = u1
  u2 = u2
  k1 = k1
  k2 = k2
  r1 = r1
  None = None
  Client = {z1, t1}
  Tcp = {t1}
  User = {u1}
  Code = {k1}
  Rest = {r1}
  MaxCalls = 1
INVARIANTS PresenceSound
PROPERTIES OnePilot SilentStops
CHECK_DEADLOCK FALSE
