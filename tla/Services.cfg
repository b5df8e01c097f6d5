SPECIFICATION MCSpec
CONSTANTS
  Person = {u1, u2}
  First = {u1}
  Number = {1, 2}
  Conn = {c1, c2}
  Agent = {p1, p2}
  Nil = Nil
  Box = {c1, c2}
  Track = {1, 2}
  Driver = {u1}
  MaxFailures = 2
  MaxMs = 1
  MaxFaults = 1
  MaxEvents = 3
  MaxTalks = 2
  W = {w1}
  Z = {z1}
  Web = web
  Tid = {c1, c2}
  Addr = {p1, p2}
  Steps = 28
  Payloads = {1, 28}
  Bytes = {1, 18}
  Scopes = {{p1, p2}, {}}
  Cap <- Limited
  FifoMax = 1
  MaxCalls = 3
  None = Nil
SYMMETRY Symmetry
INVARIANTS PoolsDisjoint LoginsSound FlagFollows HubSound ThrottlesSound
           SignalboxSound MigrationsSound
PROPERTIES NoSurpriseStart
CHECK_DEADLOCK FALSE
