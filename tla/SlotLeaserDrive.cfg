SPECIFICATION DriveSpec
CONSTANTS
  a1 = a1  a2 = a2  u1 = u1  s1 = s1  c1 = c1
  Addr = {a1, a2}
  User = {u1}
  Session = {s1}
  UserOf <- OneUser
  WsSession = {s1}
  MayDrive <- AllowAll
  Client = {c1}
  Worker = Worker  Sweeper = Sweeper  Reconciler = Reconciler
  External = External  NoAddr = NoAddr  NoSession = NoSession
  MaxPerUser = 1
  MaxSlots = 1
  GraceEvictMax = 1
  QueueSize = 1
  Retries = 1
  ReconcileMax = 2
  StationMayFail = FALSE
  Ops = {"drive", "defer", "sweepDeferred"}
INVARIANTS SlotsKept
PROPERTIES Progress
CHECK_DEADLOCK FALSE
