SPECIFICATION Spec
CONSTANTS
  v1 = v1  k1 = k1  owner = owner  u1 = u1  u2 = u2  p1 = p1  p2 = p2
  Vehicle = {v1}
  Train = {k1}
  Member <- MCMember
  Owner = owner
  User = {u1, u2}
  Proc = {p1, p2}
  Duration = {2}
  Limit = {0, 1}
  Window = 1
  Hold = 1
  Slack = 2
  MaxReq = 1
  MaxCalls = 3
  MaxTime = 4
  None = None
SYMMETRY Symmetry
INVARIANTS Watched ViewsFollow BrakedAtEnd
PROPERTIES NoEarlyGrant
CHECK_DEADLOCK FALSE
