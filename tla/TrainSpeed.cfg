SPECIFICATION FairSpec
CONSTANTS
  a1 = a1  a2 = a2  c1 = c1
  Members <- TwoMembers
  Cfg <- Ramps
  LimitOf <- Limited
  Caller = {c1}
  Payloads = {0, 1, 9}
  MaxSpeed = 9
  MinStepMs = 500
  BrakeRetries = 1
  StationMayFail = TRUE
  MaxCommands = 2
  Ops = {"estop", "close", "shutdown"}
INVARIANTS LateAtMostOnce Settles
PROPERTIES JobsEnd
CHECK_DEADLOCK FALSE
