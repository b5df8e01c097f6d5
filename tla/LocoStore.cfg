SPECIFICATION FairSpec
CONSTANTS
  a1 = a1  w1 = w1  w2 = w2  loop = loop
  Addr = {a1}
  Writer = {w1, w2}
  Feed = {w2}
  Loop = loop
  User = {7}
  Speeds = {0, 5}
  Window = 2
  MaxTime = 4
  MaxWrites = 2
  RedisMayFail = TRUE
  NoSnap = NoSnap
  Ops = {"flush", "bus", "server", "retire", "fn", "seed", "estop"}
INVARIANTS Mirror CommandHolds
PROPERTIES OwnerKept Flushed
CHECK_DEADLOCK FALSE
