SPECIFICATION MCSpec
CONSTANTS
  a1 = a1  a2 = a2  a3 = a3  u1 = u1  u2 = u2  s1 = s1  s2 = s2
  c1 = c1  c2 = c2
  Addr = {a1, a2, a3}
  User = {u1, u2}
  Session = {s1, s2}
  UserOf <- TwoUsers
  WsSession = {s1}
  MayDrive = {}
  Client = {c1, c2}
  Worker = Worker  Sweeper = Sweeper  Reconciler = Reconciler
  External = External  NoAddr = NoAddr  NoSession = NoSession
  MaxPerUser = 2
  MaxSlots = 1
  GraceEvictMax = 1
  QueueSize = 1
  Retries = 2
  ReconcileMax = 2
  StationMayFail = TRUE
  Ops = {}
INVARIANTS
  FifoSound
  LedgerBalanced
  AcquiringOwned
  CapRespected
CHECK_DEADLOCK FALSE
